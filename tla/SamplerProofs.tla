--------------------------- MODULE SamplerProofs ----------------------------
(***************************************************************************)
(* For any vocabulary, logits, options and history: the sampler stays      *)
(* within its arrays, its heap keeps the best tokens, and what it draws is *)
(* of the nucleus.                                                         *)
(***************************************************************************)
EXTENDS Sampler, FiniteSetTheorems, WellFoundedInduction, TLAPS

LEMMA ParentFacts ==
    ASSUME NEW j \in Nat \ {0}
    PROVE  /\ Parent(j) \in Nat /\ Parent(j) < j
           /\ j = 2 * Parent(j) + 1 \/ j = 2 * Parent(j) + 2
BY DEF Parent

LEMMA ChildFacts ==
    ASSUME K \in Nat, NEW p \in Nat, NEW c
    PROVE  c \in Children(p) <=> c \in 1..K-1 /\ Parent(c) = p
<1>1. ASSUME c \in Children(p) PROVE c \in 1..K-1 /\ Parent(c) = p
  <2>1. c \in 1..K-1 /\ c \in Nat \ {0} /\ (c = 2 * p + 1 \/ c = 2 * p + 2)
    BY <1>1 DEF Children
  <2>. QED BY <2>1 DEF Parent
<1>2. ASSUME c \in 1..K-1, Parent(c) = p PROVE c \in Children(p)
  BY <1>2, ParentFacts DEF Children
<1>. QED BY <1>1, <1>2

(* The bound on the heap, whatever the options.                            *)
LEMMA KFacts ==
    ASSUME SamplerAssumption, TypeOK
    PROVE  K \in Nat \ {0} /\ K <= HeapMax /\ K <= Vocab
<1>1. <<opt, tokens>> \in Options \X Seq(Nat)
  BY DEF SamplerAssumption, TypeOK
<1>2. opt.top_k \in Nat
  BY <1>1 DEF Options
<1>3. TopK \in Nat \ {0}
  BY <1>2 DEF TopK, SamplerAssumption
<1>. QED BY <1>3 DEF K, Least, SamplerAssumption

-----------------------------------------------------------------------------
(* The inductive invariant.                                                *)

Idx == 0..size-1

(* What the heap holds of the tokens offered so far.                       *)
Structure ==
    /\ size = Least(next, K)
    /\ \A j \in Idx : heap[j] < next
    /\ \A a, b \in Idx : heap[a] = heap[b] => a = b
    /\ size = next => \A t \in 0..next-1 : \E j \in Idx : heap[j] = t
    /\ \A t \in 0..next-1 :
          (\A j \in Idx : heap[j] # t) => \A j \in Idx : logits[t] <= Key(j)

(* Every entry is at least its parent, except around the one being sifted. *)
HeapOrder ==
    /\ pc = "fill" => \A j \in Idx \ {0} : Key(Parent(j)) <= Key(j)
    /\ pc = "up" =>
          \A j \in Idx \ {0} :
             /\ j # cur => Key(Parent(j)) <= Key(j)
             /\ Parent(j) = cur /\ cur > 0 => Key(Parent(cur)) <= Key(j)
    /\ pc = "down" =>
          \A j \in Idx \ {0} :
             /\ Parent(j) # cur => Key(Parent(j)) <= Key(j)
             /\ Parent(j) = cur /\ cur > 0 => Key(Parent(cur)) <= Key(j)

Phases ==
    /\ pc \in {"penalise", "argmax"} => size = 0 /\ next = 0
    /\ pc \in {"up", "down"} => cur \in Idx
    /\ pc = "down" => size = K
    /\ Len(order) <= K
    /\ pc = "draw" => Len(order) = K

IInv == TypeOK /\ Structure /\ HeapOrder /\ Phases

-----------------------------------------------------------------------------
(* In a heap the root is the least entry: otherwise take the first entry   *)
(* less than the root, which is less than its parent, which is not.        *)

LEMMA LeastCounterexample ==
    ASSUME NEW S \in SUBSET Nat, S # {}
    PROVE  \E x \in S : \A y \in S : x <= y
<1>1. PICK x \in S : \A y \in S : <<y, x>> \notin OpToRel(<, Nat)
  BY WFMin, NatLessThanWellFounded, Zenon
<1>2. ASSUME NEW y \in S PROVE ~(y < x)
  <2>1. <<y, x>> \in Nat \X Nat /\ <<y, x>>[1] = y /\ <<y, x>>[2] = x
    OBVIOUS
  <2>. QED BY <1>1, <2>1, Zenon DEF OpToRel
<1>3. ASSUME NEW y \in S PROVE x <= y
  BY <1>2
<1>. QED BY <1>3

LEMMA RootIsLeast ==
    ASSUME SamplerAssumption, IInv, pc = "fill", NEW j \in Idx
    PROVE  Key(0) <= Key(j)
<1>. DEFINE S == {i \in Idx : ~(Key(0) <= Key(i))}
<1>0. \A i \in Idx : Key(i) \in Int
  <2>1. size \in Nat /\ size <= HeapMax /\ HeapMax \in Nat
    BY KFacts DEF IInv, TypeOK, SamplerAssumption
  <2>2. \A i \in Idx : heap[i] \in Tokens
    BY <2>1 DEF IInv, TypeOK, Idx
  <2>. QED BY <2>2 DEF IInv, TypeOK, Key
<1>1. SUFFICES ASSUME S # {} PROVE FALSE
  OBVIOUS
<1>2. size \in Nat /\ S \in SUBSET Nat
  BY KFacts DEF IInv, TypeOK, Idx
<1>3. PICK i \in S : \A y \in S : i <= y
  BY <1>1, <1>2, LeastCounterexample
<1>4. i \in Idx \ {0} /\ i \in Nat \ {0} /\ 0 \in Idx
  BY <1>0, <1>2, <1>3 DEF Idx
<1>5. Parent(i) \in Idx /\ Parent(i) < i
  BY <1>2, <1>4, ParentFacts DEF Idx
<1>6. Parent(i) \notin S
  BY <1>3, <1>4, <1>5 DEF Idx
<1>7. Key(0) <= Key(Parent(i))
  BY <1>5, <1>6
<1>8. Key(Parent(i)) <= Key(i)
  BY <1>4 DEF IInv, HeapOrder
<1>9. Key(0) \in Int /\ Key(i) \in Int /\ Key(Parent(i)) \in Int
  BY <1>0, <1>4, <1>5
<1>10. ~(Key(0) <= Key(i))
  BY <1>3
<1>. QED BY <1>7, <1>8, <1>9, <1>10
-----------------------------------------------------------------------------
(* The parts of the invariant.                                             *)

(* What the steps that touch the heap use of the types.                    *)
LEMMA HeapTypes ==
    ASSUME SamplerAssumption, IInv
    PROVE  /\ K \in Nat \ {0} /\ K <= HeapMax /\ K <= Vocab
           /\ HeapMax \in Nat /\ Vocab \in Nat
           /\ size \in Nat /\ size <= K /\ next \in Nat /\ next <= Vocab /\ cur \in Nat
           /\ heap \in [0..HeapMax-1 -> Tokens]
           /\ \A j \in 0..HeapMax-1 : heap[j] \in Nat /\ Key(j) \in Int
           /\ \A t \in Tokens : logits[t] \in Int
           /\ Idx \subseteq 0..HeapMax-1
<1>1. K \in Nat \ {0} /\ K <= HeapMax /\ K <= Vocab
  BY KFacts DEF IInv
<1>2. HeapMax \in Nat /\ Vocab \in Nat
  BY DEF SamplerAssumption
<1>3. size \in Nat /\ size <= K /\ next \in Nat /\ next <= Vocab /\ cur \in Nat
  BY <1>1, <1>2 DEF IInv, TypeOK
<1>4. heap \in [0..HeapMax-1 -> Tokens] /\ logits \in [Tokens -> Int]
  BY DEF IInv, TypeOK
<1>5. \A j \in 0..HeapMax-1 : heap[j] \in Tokens /\ heap[j] \in Nat /\ Key(j) \in Int
  BY <1>2, <1>4 DEF Tokens, Key
<1>6. Idx \subseteq 0..HeapMax-1
  BY <1>1, <1>2, <1>3 DEF Idx
<1>. QED BY <1>1, <1>2, <1>3, <1>4, <1>5, <1>6

LEMMA InitIInv == SamplerAssumption /\ Init => IInv
<1>. SUFFICES ASSUME SamplerAssumption, Init PROVE IInv
  OBVIOUS
<1>1. <<opt, tokens>> \in Calls /\ opt \in Options /\ tokens \in Seq(Nat)
  BY DEF Init, SamplerAssumption
<1>2. TopK \in Nat \ {0} /\ K \in Nat \ {0} /\ K <= HeapMax
  BY <1>1 DEF Options, TopK, K, Least, SamplerAssumption
<1>3. pos \in Nat \ {0}
  BY <1>1 DEF Init, WindowStart, SamplerAssumption
<1>4. 0 \in Tokens /\ 0 \in 0..Vocab /\ 0 \in 0..HeapMax-1
  BY DEF SamplerAssumption, Tokens
<1>5. logits \in [Tokens -> Int]
  BY DEF Init, SamplerAssumption
<1>6. heap \in [0..HeapMax-1 -> Tokens]
  BY <1>4 DEF Init
<1>7. TypeOK
  BY <1>1, <1>2, <1>3, <1>4, <1>5, <1>6 DEF Init, TypeOK
<1>8. Structure
  BY <1>2 DEF Init, Structure, Idx, Least
<1>9. HeapOrder /\ Phases
  BY <1>2 DEF Init, HeapOrder, Phases, Idx
<1>. QED BY <1>7, <1>8, <1>9 DEF IInv

(* While the heap is untouched, the invariant of the heap stays.           *)
LEMMA HeapUntouched ==
    ASSUME IInv, UNCHANGED <<opt, logits, heap, size, next>>
    PROVE  Structure' /\ Idx' = Idx /\ K' = K /\ Kept' = Kept
           /\ \A j : Key(j)' = Key(j)
<1>1. K' = K /\ Idx' = Idx /\ Kept' = Kept /\ \A j : Key(j)' = Key(j)
  BY DEF K, TopK, Idx, Kept, Key
<1>. QED BY <1>1 DEF IInv, Structure, Least

-----------------------------------------------------------------------------
(* One lemma per step.                                                     *)

LEMMA PenaliseOneKeeps ==
    ASSUME SamplerAssumption, IInv, PenaliseOne
    PROVE  IInv'
<1>1. /\ pc = "penalise" /\ pc' = pc /\ pos' = pos + 1
      /\ UNCHANGED <<opt, tokens, heap, size, next, cur, order, selected>>
  BY DEF PenaliseOne
<1>2. size = 0 /\ next = 0 /\ Idx = {}
  BY <1>1 DEF IInv, Phases, Idx
<1>3. <<opt, tokens>> \in Options \X Seq(Nat)
  BY DEF IInv, TypeOK, SamplerAssumption
<1>4. opt.penalty \in Nat \ {0}
  BY <1>3 DEF Options
<1>5. \A x \in Int : Penalised(x) \in Int
  BY <1>4 DEF Penalised
<1>6. logits' \in [Tokens -> Int]
  <2>1. logits \in [Tokens -> Int]
    BY DEF IInv, TypeOK
  <2>2. \A t \in Tokens : Penalised(logits[t]) \in Int
    BY <1>5, <2>1
  <2>. QED BY <2>1, <2>2 DEF PenaliseOne
<1>7. K' = K
  BY <1>1 DEF K, TopK
<1>8. TypeOK'
  BY <1>1, <1>6, <1>7 DEF IInv, TypeOK
<1>9. Structure' /\ HeapOrder' /\ Phases'
  BY <1>1, <1>2, <1>7 DEF IInv, Structure, HeapOrder, Phases, Idx, Least
<1>. QED BY <1>8, <1>9 DEF IInv

LEMMA PenaltyDoneKeeps ==
    ASSUME SamplerAssumption, IInv, PenaltyDone
    PROVE  IInv'
<1>1. /\ pc = "penalise" /\ pc' \in {"argmax", "fill"}
      /\ UNCHANGED <<opt, tokens, logits, heap, size, next, cur, order, selected>>
      /\ pos' \in Nat \ {0}
  BY DEF PenaltyDone
<1>2. size = 0 /\ next = 0
  BY <1>1 DEF IInv, Phases
<1>3. Structure' /\ Idx' = Idx /\ K' = K
  BY <1>1, HeapUntouched
<1>4. TypeOK'
  BY <1>1, <1>3 DEF IInv, TypeOK
<1>5. HeapOrder' /\ Phases'
  BY <1>1, <1>2, <1>3 DEF IInv, HeapOrder, Phases, Idx
<1>. QED BY <1>3, <1>4, <1>5 DEF IInv

LEMMA ArgmaxKeeps ==
    ASSUME SamplerAssumption, IInv, ArgmaxNext \/ ArgmaxEnds
    PROVE  IInv'
<1>1. /\ pc = "argmax" /\ pc' \in {"argmax", "done"}
      /\ UNCHANGED <<opt, tokens, logits, heap, size, next, cur, order>>
  BY DEF ArgmaxNext, ArgmaxEnds
<1>2. Structure' /\ K' = K
  BY <1>1, HeapUntouched
<1>3. pos' \in Nat \ {0} /\ selected' \in Tokens
  <2>1. pos \in Nat \ {0} /\ selected \in Tokens /\ Vocab \in Nat
    BY SamplerAssumption DEF IInv, TypeOK, SamplerAssumption
  <2>2. CASE ArgmaxNext
    <3>1. pos' = pos + 1 /\ pos < Vocab /\ selected' \in {pos, selected}
      BY <2>2 DEF ArgmaxNext
    <3>. QED BY <2>1, <3>1 DEF Tokens
  <2>3. CASE ArgmaxEnds
    BY <2>1, <2>3 DEF ArgmaxEnds
  <2>. QED BY <2>2, <2>3
<1>4. TypeOK'
  BY <1>1, <1>2, <1>3 DEF IInv, TypeOK
<1>5. HeapOrder' /\ Phases'
  BY <1>1, <1>2 DEF IInv, HeapOrder, Phases, Idx
<1>. QED BY <1>2, <1>4, <1>5 DEF IInv

LEMMA Append1Keeps ==
    ASSUME SamplerAssumption, IInv, Append1
    PROVE  IInv'
<1>1. /\ pc = "fill" /\ pc' = "up" /\ next < Vocab /\ size < K
      /\ heap' = [heap EXCEPT ![size] = next]
      /\ cur' = size /\ size' = size + 1 /\ next' = next + 1
      /\ UNCHANGED <<opt, tokens, pos, logits, order, selected>>
  BY DEF Append1
<1>2. /\ K \in Nat \ {0} /\ K <= HeapMax /\ HeapMax \in Nat /\ Vocab \in Nat
      /\ size \in Nat /\ next \in Nat
      /\ heap \in [0..HeapMax-1 -> Tokens]
  BY HeapTypes
<1>3. K' = K /\ next = size
  BY <1>1, <1>2 DEF K, TopK, IInv, Structure, Least
<1>4. Idx = 0..size-1 /\ Idx' = 0..size /\ size \in 0..HeapMax-1
  BY <1>1, <1>2 DEF Idx
<1>5. /\ heap'[size] = next
      /\ \A j \in Idx : heap'[j] = heap[j]
      /\ heap' \in [0..HeapMax-1 -> Tokens]
  <2>1. next \in Tokens
    BY <1>1, <1>2 DEF Tokens
  <2>. QED BY <1>1, <1>2, <1>4, <2>1
<1>6. TypeOK'
  BY <1>1, <1>2, <1>3, <1>4, <1>5 DEF IInv, TypeOK
<1>7. Structure'
  <2>1. size' = Least(next, K)'
    BY <1>1, <1>2, <1>3 DEF Least
  <2>2. \A j \in Idx' : heap'[j] < next'
    <3>1. \A j \in Idx : heap[j] < next /\ heap[j] \in Nat
      BY HeapTypes DEF IInv, Structure
    <3>2. \A j \in Idx' : j = size \/ j \in Idx
      BY <1>2, <1>4
    <3>. QED BY <1>1, <1>2, <1>5, <3>1, <3>2
  <2>3. \A a, b \in Idx' : heap'[a] = heap'[b] => a = b
    <3>1. \A a, b \in Idx : heap[a] = heap[b] => a = b
      BY DEF IInv, Structure
    <3>2. \A j \in Idx : heap[j] # next
      <4>1. \A j \in Idx : heap[j] < next
        BY DEF IInv, Structure
      <4>. QED BY <1>2, <4>1
    <3>3. \A j \in Idx' : j = size \/ j \in Idx
      BY <1>2, <1>4
    <3>. QED BY <1>5, <3>1, <3>2, <3>3
  <2>4. \A t \in 0..next : \E j \in Idx' : heap'[j] = t
    <3>1. \A t \in 0..next-1 : \E j \in Idx : heap[j] = t
      BY <1>3 DEF IInv, Structure
    <3>. QED BY <1>2, <1>4, <1>5, <3>1
  <2>5. next' - 1 = next
    BY <1>1, <1>2
  <2>. QED BY <2>1, <2>2, <2>3, <2>4, <2>5 DEF Structure
<1>8. HeapOrder'
  <2>1. ASSUME NEW j \in 1..size, j # size
        PROVE  Key(Parent(j))' <= Key(j)'
    <3>1. j \in Idx \ {0} /\ Parent(j) \in Idx
      BY <1>2, <1>4, <2>1, ParentFacts
    <3>2. Key(Parent(j)) <= Key(j)
      BY <1>1, <3>1 DEF IInv, HeapOrder
    <3>. QED BY <1>1, <1>5, <3>1, <3>2 DEF Key, Parent
  <2>2. ASSUME NEW j \in 1..size, Parent(j) = size
        PROVE  FALSE
    BY <1>2, <2>2, ParentFacts
  <2>3. Idx' \ {0} = 1..size
    BY <1>2, <1>4
  <2>. QED BY <1>1, <2>1, <2>2, <2>3 DEF HeapOrder, Parent
<1>9. Phases'
  BY <1>1, <1>2, <1>3, <1>4 DEF IInv, Phases
<1>. QED BY <1>6, <1>7, <1>8, <1>9 DEF IInv

(* A swap of two entries keeps the set of tokens and all that is said of   *)
(* it.                                                                     *)
LEMMA SwapKeeps ==
    ASSUME SamplerAssumption, IInv, NEW a \in Idx, NEW b \in Idx, a # b,
           heap' = Swap(a, b), UNCHANGED <<opt, logits, size, next>>
    PROVE  /\ heap' \in [0..HeapMax-1 -> Tokens]
           /\ Key(a)' = Key(b) /\ Key(b)' = Key(a)
           /\ \A j \in Idx : j # a /\ j # b => Key(j)' = Key(j)
           /\ Idx' = Idx /\ K' = K
           /\ Structure'
<1>1. Idx \subseteq 0..HeapMax-1 /\ heap \in [0..HeapMax-1 -> Tokens]
  BY HeapTypes
<1>2. /\ heap' \in [0..HeapMax-1 -> Tokens]
      /\ heap'[a] = heap[b] /\ heap'[b] = heap[a]
      /\ \A j \in Idx : j # a /\ j # b => heap'[j] = heap[j]
  BY <1>1 DEF Swap
<1>3. Idx' = Idx /\ K' = K
  BY DEF Idx, K, TopK
<1>4. /\ Key(a)' = Key(b) /\ Key(b)' = Key(a)
      /\ \A j \in Idx : j # a /\ j # b => Key(j)' = Key(j)
  BY <1>2 DEF Key
<1>5. \A j \in Idx : \E i \in Idx : heap'[j] = heap[i] /\ Key(j)' = Key(i)
  BY <1>2, <1>4
<1>6. \A j \in Idx : \E i \in Idx : heap'[i] = heap[j]
  BY <1>2
<1>7. Structure'
  <2>1. size' = Least(next, K)' /\ next' = next
    BY <1>3 DEF IInv, Structure, Least
  <2>2. \A j \in Idx : heap'[j] < next
    BY <1>5 DEF IInv, Structure
  <2>3. \A i, j \in Idx : heap'[i] = heap'[j] => i = j
    <3>1. \A i, j \in Idx : heap[i] = heap[j] => i = j
      BY DEF IInv, Structure
    <3>. QED BY <1>2, <3>1
  <2>4. size = next => \A t \in 0..next-1 : \E j \in Idx : heap'[j] = t
    BY <1>6 DEF IInv, Structure
  <2>5. ASSUME NEW t \in 0..next-1, \A j \in Idx : heap'[j] # t, NEW j \in Idx
        PROVE  logits[t] <= Key(j)'
    <3>1. \A i \in Idx : heap[i] # t
      BY <1>6, <2>5
    <3>2. \A i \in Idx : logits[t] <= Key(i)
      BY <3>1 DEF IInv, Structure
    <3>. QED BY <1>5, <3>2
  <2>. QED BY <1>3, <2>1, <2>2, <2>3, <2>4, <2>5 DEF Structure
<1>. QED BY <1>2, <1>3, <1>4, <1>7

LEMMA SiftUpKeeps ==
    ASSUME SamplerAssumption, IInv, SiftUp
    PROVE  IInv'
<1>. PICK c : c = cur
  OBVIOUS
<1>. PICK p : p = Parent(c)
  OBVIOUS
<1>1. /\ pc = "up" /\ pc' = "up" /\ c > 0 /\ Key(c) < Key(p)
      /\ heap' = Swap(c, p) /\ cur' = p
      /\ UNCHANGED <<opt, tokens, pos, logits, size, next, order, selected>>
  BY DEF SiftUp, Rises
<1>2. c \in Idx /\ c \in Nat \ {0} /\ size \in Nat /\ HeapMax \in Nat
      /\ Idx \subseteq 0..HeapMax-1 /\ \A j \in Idx : Key(j) \in Int
  <2>1. cur \in Idx
    BY <1>1 DEF IInv, Phases
  <2>. QED BY <1>1, <2>1, HeapTypes
<1>3. p \in Idx /\ p < c /\ p \in Nat
  BY <1>2, ParentFacts DEF Idx
<1>4. /\ heap' \in [0..HeapMax-1 -> Tokens]
      /\ Key(c)' = Key(p) /\ Key(p)' = Key(c)
      /\ \A j \in Idx : j # c /\ j # p => Key(j)' = Key(j)
      /\ Idx' = Idx /\ K' = K
      /\ Structure'
  <2>1. c # p /\ UNCHANGED <<opt, logits, size, next>>
    BY <1>1, <1>2, <1>3
  <2>. QED BY <1>1, <1>2, <1>3, <2>1, SwapKeeps
<1>5. TypeOK'
  <2>1. p \in 0..HeapMax-1 /\ p < size
    BY <1>2, <1>3 DEF Idx
  <2>. QED BY <1>1, <1>4, <2>1 DEF IInv, TypeOK
<1>6. HeapOrder'
  <2>. SUFFICES ASSUME NEW j \in Idx \ {0}
                PROVE  /\ j # p => Key(Parent(j))' <= Key(j)'
                       /\ Parent(j) = p /\ p > 0 => Key(Parent(p))' <= Key(j)'
    <3>1. pc' = "up" /\ Idx' = Idx /\ cur' = p
      BY <1>1, <1>4
    <3>. QED BY <3>1 DEF HeapOrder
  <2>1. j \in Nat \ {0} /\ Parent(j) \in Idx /\ Parent(j) < j /\ Parent(j) \in Nat
    BY <1>2, ParentFacts DEF Idx
  <2>2. /\ j # c => Key(Parent(j)) <= Key(j)
        /\ Parent(j) = c => Key(p) <= Key(j)
    BY <1>1 DEF IInv, HeapOrder
  <2>3. p > 0 => Parent(p) \in Idx /\ Parent(p) < p /\ Parent(p) \in Nat /\ Key(Parent(p)) <= Key(p)
    <3>1. ASSUME p > 0 PROVE Parent(p) \in Idx /\ Parent(p) < p /\ Parent(p) \in Nat
      BY <1>2, <1>3, <3>1, ParentFacts DEF Idx
    <3>2. ASSUME p > 0 PROVE Key(Parent(p)) <= Key(p)
      BY <1>1, <1>3, <3>2 DEF IInv, HeapOrder
    <3>. QED BY <3>1, <3>2
  <2>4. ASSUME j # p PROVE Key(Parent(j))' <= Key(j)'
    <3>1. CASE j = c
      BY <1>1, <1>2, <1>3, <1>4, <3>1
    <3>2. CASE j # c /\ Parent(j) = c
      <4>1. Key(Parent(j))' = Key(p) /\ Key(j)' = Key(j)
        BY <1>4, <2>4, <3>2
      <4>. QED BY <2>2, <3>2, <4>1
    <3>3. CASE j # c /\ Parent(j) = p
      <4>1. Key(Parent(j))' = Key(c) /\ Key(j)' = Key(j) /\ Key(p) <= Key(j)
        BY <1>4, <2>2, <2>4, <3>3
      <4>. QED BY <1>1, <1>2, <1>3, <4>1
    <3>4. CASE j # c /\ Parent(j) # c /\ Parent(j) # p
      <4>1. Key(Parent(j))' = Key(Parent(j)) /\ Key(j)' = Key(j)
        BY <1>4, <2>1, <2>4, <3>4
      <4>. QED BY <2>2, <3>4, <4>1
    <3>. QED BY <3>1, <3>2, <3>3, <3>4
  <2>5. ASSUME Parent(j) = p, p > 0 PROVE Key(Parent(p))' <= Key(j)'
    <3>1. Key(Parent(p))' = Key(Parent(p)) /\ Key(Parent(p)) <= Key(p)
      <4>1. Parent(p) \in Idx /\ Parent(p) # p /\ Parent(p) # c
        BY <1>3, <1>2, <2>3, <2>5
      <4>. QED BY <1>4, <2>3, <2>5, <4>1
    <3>2. CASE j = c
      BY <1>4, <3>1, <3>2
    <3>3. CASE j # c
      <4>1. Key(j)' = Key(j) /\ Key(p) <= Key(j)
        BY <1>4, <2>1, <2>2, <2>5, <3>3
      <4>2. Key(Parent(p)) \in Int /\ Key(p) \in Int /\ Key(j) \in Int
        BY <1>2, <1>3, <2>3, <2>5
      <4>. QED BY <3>1, <4>1, <4>2
    <3>. QED BY <3>2, <3>3
  <2>. QED BY <2>4, <2>5
<1>7. Phases'
  BY <1>1, <1>3, <1>4 DEF IInv, Phases
<1>. QED BY <1>4, <1>5, <1>6, <1>7 DEF IInv

LEMMA SiftUpEndsKeeps ==
    ASSUME SamplerAssumption, IInv, SiftUpEnds
    PROVE  IInv'
<1>1. /\ pc = "up" /\ pc' = "fill" /\ ~Rises
      /\ UNCHANGED <<opt, tokens, pos, logits, heap, size, next, cur, order, selected>>
  BY DEF SiftUpEnds
<1>2. Structure' /\ Idx' = Idx /\ K' = K /\ \A j : Key(j)' = Key(j)
  BY <1>1, HeapUntouched
<1>3. TypeOK'
  BY <1>1, <1>2 DEF IInv, TypeOK
<1>4. HeapOrder'
  <2>1. cur \in Idx /\ size \in Nat /\ cur \in Nat /\ Idx \subseteq 0..HeapMax-1
        /\ \A j \in Idx : Key(j) \in Int
    BY <1>1, HeapTypes DEF IInv, Phases
  <2>2. ASSUME NEW j \in Idx \ {0} PROVE Key(Parent(j)) <= Key(j)
    <3>1. Parent(j) \in Idx /\ j > 0
      BY <2>1, ParentFacts DEF Idx
    <3>2. CASE j = cur
      <4>1. ~(Key(j) < Key(Parent(j)))
        BY <1>1, <3>1, <3>2 DEF Rises
      <4>2. Key(j) \in Int /\ Key(Parent(j)) \in Int
        BY <2>1, <3>1
      <4>. QED BY <4>1, <4>2
    <3>3. CASE j # cur
      BY <1>1, <3>3 DEF IInv, HeapOrder
    <3>. QED BY <3>2, <3>3
  <2>. QED BY <1>1, <1>2, <2>2 DEF HeapOrder, Parent
<1>5. Phases'
  BY <1>1, <1>2 DEF IInv, Phases
<1>. QED BY <1>2, <1>3, <1>4, <1>5 DEF IInv

LEMMA ReplaceKeeps ==
    ASSUME SamplerAssumption, IInv, Replace
    PROVE  IInv'
<1>1. /\ pc = "fill" /\ pc' = "down" /\ next < Vocab /\ size = K /\ logits[next] > Key(0)
      /\ heap' = [heap EXCEPT ![0] = next] /\ cur' = 0 /\ next' = next + 1
      /\ UNCHANGED <<opt, tokens, pos, logits, size, order, selected>>
  BY DEF Replace
<1>2. /\ K \in Nat \ {0} /\ K <= HeapMax /\ HeapMax \in Nat /\ Vocab \in Nat
      /\ next \in Nat /\ size \in Nat
      /\ heap \in [0..HeapMax-1 -> Tokens]
      /\ Idx \subseteq 0..HeapMax-1 /\ \A j \in Idx : Key(j) \in Int /\ heap[j] \in Nat
      /\ \A t \in Tokens : logits[t] \in Int
  BY HeapTypes
<1>3. K' = K /\ Idx' = Idx /\ 0 \in Idx /\ next \in Tokens /\ K <= next
  BY <1>1, <1>2 DEF K, TopK, Idx, IInv, Structure, Least, Tokens
<1>4. /\ heap' \in [0..HeapMax-1 -> Tokens] /\ heap'[0] = next
      /\ \A j \in Idx \ {0} : heap'[j] = heap[j]
  BY <1>1, <1>2, <1>3
<1>5. Key(0)' = logits[next] /\ \A j \in Idx \ {0} : Key(j)' = Key(j)
  BY <1>1, <1>4 DEF Key
<1>6. TypeOK'
  BY <1>1, <1>2, <1>3, <1>4 DEF IInv, TypeOK, Idx
<1>7. Structure'
  <2>1. size' = Least(next, K)' /\ size' # next'
    BY <1>1, <1>2, <1>3 DEF Least
  <2>2. \A j \in Idx : heap'[j] < next'
    BY <1>1, <1>2, <1>4 DEF IInv, Structure
  <2>3. \A a, b \in Idx : heap'[a] = heap'[b] => a = b
    <3>1. \A a, b \in Idx : heap[a] = heap[b] => a = b
      BY DEF IInv, Structure
    <3>2. \A j \in Idx : heap[j] # next
      BY <1>2 DEF IInv, Structure
    <3>. QED BY <1>4, <3>1, <3>2
  <2>4. ASSUME NEW t \in 0..next, \A j \in Idx : heap'[j] # t, NEW j \in Idx
        PROVE  logits[t] <= Key(j)'
    <3>1. t # next /\ t \in 0..next-1 /\ t \in Tokens
      BY <1>1, <1>2, <1>3, <1>4, <2>4 DEF Tokens
    <3>2. \A i \in Idx : Key(0) <= Key(i)
      BY <1>1, RootIsLeast
    <3>3. logits[t] <= Key(0)
      <4>1. CASE t = heap[0]
        BY <1>2, <1>3, <4>1 DEF Key
      <4>2. CASE t # heap[0]
        <5>1. \A i \in Idx : heap[i] # t
          BY <1>4, <2>4, <4>2
        <5>. QED BY <1>3, <3>1, <5>1 DEF IInv, Structure
      <4>. QED BY <4>1, <4>2
    <3>4. logits[t] \in Int /\ Key(0) \in Int /\ logits[next] \in Int /\ Key(j) \in Int
      BY <1>2, <1>3, <3>1
    <3>5. CASE j = 0
      BY <1>1, <1>5, <3>3, <3>4, <3>5
    <3>6. CASE j # 0
      <4>1. Key(j)' = Key(j) /\ Key(0) <= Key(j)
        BY <1>5, <3>2, <3>6
      <4>. QED BY <3>3, <3>4, <4>1
    <3>. QED BY <3>5, <3>6
  <2>5. next' - 1 = next /\ logits' = logits
    BY <1>1, <1>2
  <2>. QED BY <1>3, <2>1, <2>2, <2>3, <2>4, <2>5 DEF Structure
<1>8. HeapOrder'
  <2>1. ASSUME NEW j \in Idx \ {0}, Parent(j) # 0
        PROVE  Key(Parent(j))' <= Key(j)'
    <3>1. Parent(j) \in Idx \ {0}
      BY <1>2, <2>1, ParentFacts DEF Idx
    <3>2. Key(Parent(j)) <= Key(j)
      BY <1>1 DEF IInv, HeapOrder
    <3>3. Key(Parent(j))' = Key(Parent(j)) /\ Key(j)' = Key(j)
      BY <1>5, <3>1
    <3>. QED BY <3>2, <3>3
  <2>2. pc' = "down" /\ cur' = 0 /\ Idx' = Idx
    BY <1>1, <1>3
  <2>. QED BY <2>1, <2>2 DEF HeapOrder
<1>9. Phases'
  BY <1>1, <1>3 DEF IInv, Phases
<1>. QED BY <1>6, <1>7, <1>8, <1>9 DEF IInv

LEMMA DiscardKeeps ==
    ASSUME SamplerAssumption, IInv, Discard
    PROVE  IInv'
<1>1. /\ pc = "fill" /\ pc' = pc /\ next < Vocab /\ size = K /\ logits[next] <= Key(0)
      /\ next' = next + 1
      /\ UNCHANGED <<opt, tokens, pos, logits, heap, size, cur, order, selected>>
  BY DEF Discard
<1>2. /\ K \in Nat \ {0} /\ Vocab \in Nat /\ next \in Nat /\ size \in Nat
      /\ \A j \in Idx : Key(j) \in Int /\ heap[j] \in Nat
      /\ \A t \in Tokens : logits[t] \in Int
  BY HeapTypes
<1>3. /\ K' = K /\ Idx' = Idx /\ 0 \in Idx /\ next \in Tokens /\ K <= next
      /\ \A j : Key(j)' = Key(j)
  BY <1>1, <1>2 DEF K, TopK, Idx, IInv, Structure, Least, Tokens, Key
<1>4. TypeOK'
  BY <1>1, <1>2, <1>3 DEF IInv, TypeOK
<1>5. Structure'
  <2>1. size' = Least(next, K)' /\ size' # next'
    BY <1>1, <1>2, <1>3 DEF Least
  <2>2. \A j \in Idx : heap[j] < next'
    BY <1>1, <1>2 DEF IInv, Structure
  <2>3. \A a, b \in Idx : heap[a] = heap[b] => a = b
    BY DEF IInv, Structure
  <2>4. ASSUME NEW t \in 0..next, \A j \in Idx : heap[j] # t, NEW j \in Idx
        PROVE  logits[t] <= Key(j)
    <3>1. CASE t = next
      <4>1. Key(0) <= Key(j)
        BY <1>1, RootIsLeast
      <4>2. logits[next] \in Int /\ Key(0) \in Int /\ Key(j) \in Int
        BY <1>2, <1>3
      <4>. QED BY <1>1, <3>1, <4>1, <4>2
    <3>2. CASE t # next
      <4>1. t \in 0..next-1
        BY <1>2, <3>2
      <4>. QED BY <2>4, <4>1 DEF IInv, Structure
    <3>. QED BY <3>1, <3>2
  <2>5. next' - 1 = next /\ logits' = logits /\ heap' = heap
    BY <1>1, <1>2
  <2>. QED BY <1>3, <2>1, <2>2, <2>3, <2>4, <2>5 DEF Structure
<1>6. HeapOrder'
  BY <1>1, <1>3 DEF IInv, HeapOrder
<1>7. Phases'
  BY <1>1, <1>3 DEF IInv, Phases
<1>. QED BY <1>4, <1>5, <1>6, <1>7 DEF IInv

LEMMA SiftDownKeeps ==
    ASSUME SamplerAssumption, IInv, SiftDown
    PROVE  IInv'
<1>. PICK a : a = cur
  OBVIOUS
<1>1. PICK c \in Children(a) :
        /\ pc = "down" /\ pc' = "down" /\ Key(c) < Key(a)
        /\ \A d \in Children(a) : Key(c) <= Key(d)
        /\ heap' = Swap(a, c) /\ cur' = c
        /\ UNCHANGED <<opt, tokens, pos, logits, size, next, order, selected>>
  BY DEF SiftDown, Smallest
<1>2. /\ a \in Idx /\ a \in Nat /\ size = K /\ K \in Nat \ {0} /\ HeapMax \in Nat
      /\ Idx \subseteq 0..HeapMax-1 /\ \A j \in Idx : Key(j) \in Int
  <2>1. cur \in Idx /\ size = K
    BY <1>1 DEF IInv, Phases
  <2>. QED BY <1>1, <2>1, HeapTypes DEF Idx
<1>3. \A j \in Idx \ {0} : j \in Children(a) <=> Parent(j) = a
  BY <1>2, ChildFacts DEF Idx
<1>4. /\ c \in Idx \ {0} /\ c \in Nat \ {0} /\ Parent(c) = a /\ a < c
  <2>1. c \in 1..K-1 /\ Parent(c) = a
    BY <1>2, ChildFacts
  <2>. QED BY <1>2, <2>1, ParentFacts DEF Idx
<1>5. /\ heap' \in [0..HeapMax-1 -> Tokens]
      /\ Key(a)' = Key(c) /\ Key(c)' = Key(a)
      /\ \A j \in Idx : j # a /\ j # c => Key(j)' = Key(j)
      /\ Idx' = Idx /\ K' = K
      /\ Structure'
  <2>1. a # c /\ UNCHANGED <<opt, logits, size, next>>
    BY <1>1, <1>2, <1>4
  <2>. QED BY <1>1, <1>2, <1>4, <2>1, SwapKeeps
<1>6. TypeOK'
  <2>1. c \in 0..HeapMax-1 /\ c < size
    BY <1>2, <1>4 DEF Idx
  <2>. QED BY <1>1, <1>5, <2>1 DEF IInv, TypeOK
<1>7. HeapOrder'
  <2>. SUFFICES ASSUME NEW j \in Idx \ {0}
                PROVE  /\ Parent(j) # c => Key(Parent(j))' <= Key(j)'
                       /\ Parent(j) = c /\ c > 0 => Key(Parent(c))' <= Key(j)'
    <3>1. pc' = "down" /\ Idx' = Idx /\ cur' = c
      BY <1>1, <1>5
    <3>. QED BY <3>1 DEF HeapOrder
  <2>1. j \in Nat \ {0} /\ Parent(j) \in Idx /\ Parent(j) < j /\ Parent(j) \in Nat
    BY <1>2, ParentFacts DEF Idx
  <2>2. /\ \A i \in Idx \ {0} : Parent(i) # a => Key(Parent(i)) <= Key(i)
        /\ a > 0 => Key(Parent(a)) <= Key(c)
    BY <1>1, <1>4 DEF IInv, HeapOrder
  <2>3. ASSUME Parent(j) # c PROVE Key(Parent(j))' <= Key(j)'
    <3>1. CASE j = c
      BY <1>1, <1>2, <1>4, <1>5, <3>1
    <3>2. CASE j = a
      <4>1. a > 0 /\ Parent(a) # a /\ Parent(a) # c /\ Parent(a) \in Idx
        BY <2>1, <2>3, <3>2
      <4>. QED BY <1>5, <2>2, <3>2, <4>1
    <3>3. CASE j # a /\ j # c /\ Parent(j) = a
      <4>1. Key(c) <= Key(j)
        BY <1>1, <1>3, <3>3
      <4>. QED BY <1>5, <3>3, <4>1
    <3>4. CASE j # a /\ j # c /\ Parent(j) # a
      <4>1. Key(Parent(j))' = Key(Parent(j)) /\ Key(j)' = Key(j)
        BY <1>5, <2>1, <2>3, <3>4
      <4>. QED BY <2>2, <3>4, <4>1
    <3>. QED BY <3>1, <3>2, <3>3, <3>4
  <2>4. ASSUME Parent(j) = c PROVE Key(Parent(c))' <= Key(j)'
    <3>1. Key(c) <= Key(j) /\ j # a /\ j # c
      BY <1>4, <2>1, <2>2, <2>4
    <3>. QED BY <1>4, <1>5, <3>1
  <2>. QED BY <2>3, <2>4
<1>8. Phases'
  BY <1>1, <1>2, <1>4, <1>5 DEF IInv, Phases
<1>. QED BY <1>5, <1>6, <1>7, <1>8 DEF IInv

LEMMA SiftDownEndsKeeps ==
    ASSUME SamplerAssumption, IInv, SiftDownEnds
    PROVE  IInv'
<1>1. /\ pc = "down" /\ pc' = "fill" /\ \A c \in Children(cur) : Key(cur) <= Key(c)
      /\ UNCHANGED <<opt, tokens, pos, logits, heap, size, next, cur, order, selected>>
  BY DEF SiftDownEnds
<1>2. Structure' /\ Idx' = Idx /\ K' = K /\ \A j : Key(j)' = Key(j)
  BY <1>1, HeapUntouched
<1>3. TypeOK'
  BY <1>1, <1>2 DEF IInv, TypeOK
<1>4. HeapOrder'
  <2>1. cur \in Nat /\ size = K /\ K \in Nat
    BY <1>1, HeapTypes DEF IInv, Phases
  <2>2. ASSUME NEW j \in Idx \ {0} PROVE Key(Parent(j)) <= Key(j)
    <3>1. CASE Parent(j) = cur
      <4>1. j \in Children(cur)
        BY <2>1, <3>1, ChildFacts DEF Idx
      <4>. QED BY <1>1, <3>1, <4>1
    <3>2. CASE Parent(j) # cur
      BY <1>1, <3>2 DEF IInv, HeapOrder
    <3>. QED BY <3>1, <3>2
  <2>. QED BY <1>1, <1>2, <2>2 DEF HeapOrder
<1>5. Phases'
  BY <1>1, <1>2 DEF IInv, Phases
<1>. QED BY <1>2, <1>3, <1>4, <1>5 DEF IInv

LEMMA SortKeeps ==
    ASSUME SamplerAssumption, IInv, Sort
    PROVE  IInv'
<1>1. PICK t \in Kept :
        /\ pc = "fill" /\ Len(order) < K /\ order' = Append(order, t)
        /\ UNCHANGED <<pc, opt, tokens, pos, logits, heap, size, next, cur, selected>>
  BY DEF Sort
<1>2. Structure' /\ Idx' = Idx /\ K' = K /\ \A j : Key(j)' = Key(j)
  BY <1>1, HeapUntouched
<1>3. t \in Tokens
  <2>1. heap \in [0..HeapMax-1 -> Tokens] /\ Idx \subseteq 0..HeapMax-1
    BY HeapTypes
  <2>. QED BY <2>1 DEF Kept, Idx
<1>4. order \in Seq(Tokens) /\ K \in Nat
  BY HeapTypes DEF IInv, TypeOK
<1>5. order' \in Seq(Tokens) /\ Len(order') = Len(order) + 1 /\ Len(order) \in Nat
  BY <1>1, <1>3, <1>4
<1>6. TypeOK'
  BY <1>1, <1>2, <1>5 DEF IInv, TypeOK
<1>7. HeapOrder'
  BY <1>1, <1>2 DEF IInv, HeapOrder
<1>8. Phases'
  BY <1>1, <1>2, <1>4, <1>5 DEF IInv, Phases
<1>. QED BY <1>2, <1>6, <1>7, <1>8 DEF IInv

LEMMA SortEndsKeeps ==
    ASSUME SamplerAssumption, IInv, SortEnds
    PROVE  IInv'
<1>1. /\ pc = "fill" /\ pc' = "draw" /\ Len(order) = K
      /\ UNCHANGED <<opt, tokens, pos, logits, heap, size, next, cur, order, selected>>
  BY DEF SortEnds
<1>2. Structure' /\ Idx' = Idx /\ K' = K
  BY <1>1, HeapUntouched
<1>3. TypeOK'
  BY <1>1, <1>2 DEF IInv, TypeOK
<1>4. HeapOrder' /\ Phases'
  BY <1>1, <1>2 DEF IInv, HeapOrder, Phases
<1>. QED BY <1>2, <1>3, <1>4 DEF IInv

LEMMA DrawKeeps ==
    ASSUME SamplerAssumption, IInv, Draw
    PROVE  IInv'
<1>0. K \in Nat
  BY HeapTypes
<1>1. PICK a \in 1..K :
        /\ pc = "draw" /\ pc' = "done" /\ selected' = order[a]
        /\ UNCHANGED <<opt, tokens, pos, logits, heap, size, next, cur, order>>
  <2>1. PICK n \in 1..K : \E a \in 1..n : selected' = order[a]
    BY DEF Draw
  <2>2. PICK a \in 1..n : selected' = order[a]
    BY <2>1
  <2>3. a \in 1..K
    BY <1>0
  <2>. QED BY <2>2, <2>3 DEF Draw
<1>2. Structure' /\ Idx' = Idx /\ K' = K
  BY <1>1, HeapUntouched
<1>3. order \in Seq(Tokens) /\ Len(order) = K /\ K \in Nat
  BY <1>1, HeapTypes DEF IInv, TypeOK, Phases
<1>4. selected' \in Tokens
  BY <1>1, <1>3
<1>5. TypeOK'
  BY <1>1, <1>2, <1>4 DEF IInv, TypeOK
<1>6. HeapOrder' /\ Phases'
  BY <1>1, <1>2, <1>3 DEF IInv, HeapOrder, Phases
<1>. QED BY <1>2, <1>5, <1>6 DEF IInv

LEMMA StutterKeeps ==
    ASSUME IInv, UNCHANGED vars
    PROVE  IInv'
<1>1. /\ UNCHANGED <<pc, opt, tokens, pos, logits, heap, size, next, cur, order, selected>>
  BY DEF vars
<1>2. Structure' /\ Idx' = Idx /\ K' = K /\ \A j : Key(j)' = Key(j)
  BY <1>1, HeapUntouched
<1>3. TypeOK'
  BY <1>1, <1>2 DEF IInv, TypeOK
<1>4. HeapOrder' /\ Phases'
  BY <1>1, <1>2 DEF IInv, HeapOrder, Phases
<1>. QED BY <1>2, <1>3, <1>4 DEF IInv

LEMMA StepIInv == SamplerAssumption /\ IInv /\ [Next]_vars => IInv'
BY PenaliseOneKeeps, PenaltyDoneKeeps, ArgmaxKeeps, Append1Keeps, SiftUpKeeps,
   SiftUpEndsKeeps, ReplaceKeeps, DiscardKeeps, SiftDownKeeps, SiftDownEndsKeeps,
   SortKeeps, SortEndsKeeps, DrawKeeps, StutterKeeps DEF Next, Step, Done

-----------------------------------------------------------------------------
(* The theorems.                                                           *)

THEOREM Invariance == Spec => []IInv
<1>1. Init => IInv
  BY InitIInv, SamplerAssumption
<1>2. IInv /\ [Next]_vars => IInv'
  BY StepIInv, SamplerAssumption
<1>. QED BY <1>1, <1>2, PTL DEF Spec

(* No option, vocabulary or history makes the heap leave its array or the  *)
(* sift leave its initialised part (sampler.c:90-116).                     *)
THEOREM TypeCorrect == Spec => []TypeOK
<1>1. IInv => TypeOK
  BY DEF IInv
<1>. QED BY <1>1, Invariance, PTL

(* The heap holds the best tokens offered so far, whatever their number    *)
(* and their logits (sampler.c:96-116).                                    *)
THEOREM HeapKeepsTopK == Spec => []TopKKept
<1>1. IInv => TopKKept
  <2>. SUFFICES ASSUME IInv, pc = "fill"
                PROVE  /\ size = Least(next, K)
                       /\ Kept \subseteq 0..next-1
                       /\ \A a, b \in Idx : heap[a] = heap[b] => a = b
                       /\ \A t \in (0..next-1) \ Kept, u \in Kept : logits[t] <= logits[u]
    BY DEF TopKKept, Idx
  <2>1. size = Least(next, K) /\ \A a, b \in Idx : heap[a] = heap[b] => a = b
    BY DEF IInv, Structure
  <2>2. Kept \subseteq 0..next-1
    <3>1. \A j \in Idx : heap[j] \in Nat /\ heap[j] < next
      BY HeapTypes, SamplerAssumption DEF IInv, Structure
    <3>2. next \in Nat
      BY HeapTypes, SamplerAssumption
    <3>. QED BY <3>1, <3>2 DEF Kept, Idx
  <2>3. ASSUME NEW t \in (0..next-1) \ Kept, NEW u \in Kept
        PROVE  logits[t] <= logits[u]
    <3>1. PICK j \in Idx : u = heap[j]
      BY DEF Kept, Idx
    <3>2. \A i \in Idx : heap[i] # t
      BY <2>3 DEF Kept, Idx
    <3>3. logits[t] <= Key(j)
      BY <3>1, <3>2, <2>3 DEF IInv, Structure
    <3>. QED BY <3>1, <3>3 DEF Key
  <2>. QED BY <2>1, <2>2, <2>3
<1>. QED BY <1>1, Invariance, PTL

(* The first of the best of the first n tokens.                            *)
BestOf(n, t) == /\ t \in 0..n-1
                /\ \A u \in 0..n-1 : logits[u] <= logits[t]
                /\ \A u \in 0..t-1 : logits[u] < logits[t]

(* The argmax loop has the first best of the tokens it has behind it, and  *)
(* is through with all of them when it ends; only a call that draws does   *)
(* without it (sampler.c:77-87).                                           *)
Choice ==
    /\ pc \in {"fill", "up", "down", "draw"} => ~(opt.greedy \/ TopK = 1)
    /\ pc = "penalise" => selected = 0
    /\ pc = "argmax" => pos \in 1..Vocab /\ BestOf(pos, selected)
    /\ pc = "done" /\ (opt.greedy \/ TopK = 1) => BestOf(Vocab, selected)

THEOREM GreedyChoosesFirstBest == Spec => []GreedyAgrees
<1>1. Init => Choice
  BY DEF Init, Choice
<1>2. IInv /\ Choice /\ [Next]_vars => Choice'
  <2>. SUFFICES ASSUME IInv, Choice, [Next]_vars PROVE Choice'
    OBVIOUS
  <2>1. CASE PenaltyDone
    <3>1. 1 \in 1..Vocab /\ 0 \in Tokens /\ logits[0] \in Int
      BY SamplerAssumption DEF SamplerAssumption, Tokens, IInv, TypeOK
    <3>2. /\ pos' = 1 /\ selected' = 0 /\ logits' = logits /\ TopK' = TopK
          /\ pc' = IF opt.greedy \/ TopK = 1 THEN "argmax" ELSE "fill"
          /\ opt' = opt
      BY <2>1 DEF Choice, PenaltyDone, TopK
    <3>3. BestOf(pos, selected)'
      BY <3>1, <3>2 DEF BestOf
    <3>. QED BY <3>1, <3>2, <3>3 DEF Choice
  <2>2. CASE ArgmaxNext
    <3>0. /\ pos \in Nat \ {0} /\ pos < Vocab /\ Vocab \in Nat
          /\ logits \in [Tokens -> Int]
          /\ BestOf(pos, selected)
      BY <2>2, SamplerAssumption DEF ArgmaxNext, Choice, SamplerAssumption, IInv, TypeOK
    <3>1. /\ pos \in Nat /\ pos + 1 \in 1..Vocab /\ BestOf(pos, selected)
          /\ selected \in Nat
          /\ \A u \in 0..pos : u \in Tokens /\ logits[u] \in Int
      BY <3>0 DEF BestOf, Tokens
    <3>2. /\ pos' = pos + 1 /\ logits' = logits /\ pc' = "argmax"
          /\ selected' = IF logits[pos] > logits[selected] THEN pos ELSE selected
      BY <2>2 DEF ArgmaxNext, Exceeds
    <3>3. BestOf(pos, selected)'
      <4>1. \A u \in 0..pos : u \in 0..pos-1 \/ u = pos
        BY <3>1
      <4>2. CASE logits[pos] > logits[selected]
        <5>1. \A u \in 0..pos-1 : logits[u] < logits[pos]
          BY <3>1, <4>2 DEF BestOf
        <5>. QED BY <3>1, <3>2, <4>1, <4>2, <5>1 DEF BestOf
      <4>3. CASE ~(logits[pos] > logits[selected])
        BY <3>1, <3>2, <4>1, <4>3 DEF BestOf
      <4>. QED BY <4>2, <4>3
    <3>. QED BY <3>1, <3>2, <3>3 DEF Choice
  <2>6. CASE ArgmaxEnds
    <3>1. pos = Vocab /\ BestOf(pos, selected)
      BY <2>6, SamplerAssumption DEF ArgmaxEnds, Choice, SamplerAssumption
    <3>. QED BY <2>6, <3>1 DEF ArgmaxEnds, Choice, TopK, BestOf
  <2>3. CASE PenaliseOne \/ Append1 \/ SiftUp \/ SiftUpEnds \/ Replace \/ Discard
    BY <2>3 DEF Choice, TopK, PenaliseOne, Append1, SiftUp, SiftUpEnds, Replace, Discard
  <2>4. CASE SiftDown \/ SiftDownEnds \/ Sort \/ SortEnds \/ Draw
    BY <2>4 DEF Choice, TopK, SiftDown, SiftDownEnds, Sort, SortEnds, Draw
  <2>5. CASE UNCHANGED vars
    BY <2>5 DEF vars, Choice, TopK, BestOf
  <2>. QED BY <2>1, <2>2, <2>3, <2>4, <2>5, <2>6 DEF Next, Step, Done
<1>3. IInv /\ Choice => GreedyAgrees
  <2>. SUFFICES ASSUME IInv, BestOf(Vocab, selected), NEW u \in Tokens
                PROVE  \/ logits[u] < logits[selected]
                       \/ logits[u] = logits[selected] /\ selected <= u
    BY DEF Choice, GreedyAgrees
  <2>1. selected \in Tokens /\ logits[u] \in Int /\ logits[selected] \in Int
    BY HeapTypes, SamplerAssumption DEF IInv, TypeOK
  <2>2. u \in Int /\ selected \in Int
    BY <2>1, SamplerAssumption DEF Tokens, SamplerAssumption
  <2>. QED BY <2>1, <2>2, SamplerAssumption DEF BestOf, Tokens, SamplerAssumption
<1>4. Spec => []Choice
  BY <1>1, <1>2, Invariance, PTL DEF Spec
<1>. QED BY <1>3, <1>4, Invariance, PTL

(* The entries penalised are the last LastN of the history.                *)
Window == pc = "penalise" => pos + LastN > Len(tokens)

LEMMA PenalisedIsLess ==
    ASSUME NEW x \in Int, opt.penalty \in Nat \ {0}
    PROVE  Penalised(x) <= x
<1>. DEFINE p == opt.penalty
<1>1. CASE x > 0
  <2>1. PICK q : q = x \div p
    OBVIOUS
  <2>2. q \in Int /\ p * q <= x /\ q >= 0
    BY <1>1, <2>1
  <2>3. q <= p * q
    BY <2>2
  <2>. QED BY <1>1, <2>1, <2>2, <2>3 DEF Penalised
<1>2. CASE x <= 0
  <2>1. x * p = x + x * (p - 1)
    OBVIOUS
  <2>2. x * (p - 1) <= 0
    BY <1>2
  <2>. QED BY <1>2, <2>1, <2>2 DEF Penalised
<1>. QED BY <1>1, <1>2

(* The penalty lowers logits and touches no token outside the window, for  *)
(* any history, window and penalty (sampler.c:64-75).                      *)
THEOREM PenaltyOnlyLowers == Spec => PenaltyLowers
<1>1. Init => Window
  <2>. SUFFICES ASSUME Init PROVE Window
    OBVIOUS
  <2>1. tokens \in Seq(Nat)
    BY SamplerAssumption DEF Init, SamplerAssumption
  <2>2. Len(tokens) \in Nat /\ LastN \in Nat
    BY <2>1, SamplerAssumption DEF SamplerAssumption
  <2>. QED BY <2>2 DEF Init, Window, WindowStart
<1>2. IInv /\ Window /\ [Next]_vars => Window'
  <2>. SUFFICES ASSUME IInv, Window, [Next]_vars PROVE Window'
    OBVIOUS
  <2>1. CASE pos' = pos + 1 /\ tokens' = tokens /\ pc' = pc
    <3>1. pos \in Nat /\ tokens \in Seq(Nat) /\ LastN \in Nat
      BY SamplerAssumption DEF IInv, TypeOK, SamplerAssumption
    <3>. QED BY <2>1, <3>1 DEF Window
  <2>2. CASE pos' = pos /\ tokens' = tokens /\ pc' = pc
    BY <2>2 DEF Window
  <2>3. \/ tokens' = tokens /\ pc' = pc /\ (pos' = pos + 1 \/ pos' = pos)
        \/ pc' # "penalise"
    BY DEF Next, Step, Done, vars, PenaliseOne, PenaltyDone, ArgmaxNext, ArgmaxEnds, Append1,
           SiftUp,
           SiftUpEnds, Replace, Discard, SiftDown, SiftDownEnds, Sort, SortEnds, Draw
  <2>. QED BY <2>1, <2>2, <2>3 DEF Window
<1>3. IInv /\ Window /\ [Next]_vars =>
        [\A t \in Tokens :
            /\ logits'[t] <= logits[t]
            /\ logits'[t] # logits[t] =>
                  \E a \in 1..Len(tokens) : a + LastN > Len(tokens) /\ tokens[a] = t]_vars
  <2>. SUFFICES ASSUME IInv, Window, [Next]_vars, NEW t \in Tokens
                PROVE  /\ logits'[t] <= logits[t]
                       /\ logits'[t] # logits[t] =>
                             \E a \in 1..Len(tokens) : a + LastN > Len(tokens) /\ tokens[a] = t
    OBVIOUS
  <2>1. logits \in [Tokens -> Int] /\ logits[t] \in Int
    BY DEF IInv, TypeOK
  <2>2. CASE logits' = logits
    BY <2>1, <2>2
  <2>3. CASE PenaliseOne
    <3>1. pos \in 1..Len(tokens)
      BY <2>3, SamplerAssumption DEF PenaliseOne, Penalising, IInv, TypeOK, SamplerAssumption
    <3>2. <<opt, tokens>> \in Options \X Seq(Nat)
      BY SamplerAssumption DEF IInv, TypeOK, SamplerAssumption
    <3>3. opt.penalty \in Nat \ {0}
      BY <3>2 DEF Options
    <3>4. CASE tokens[pos] = t
      <4>1. Penalised(logits[t]) <= logits[t]
        BY <2>1, <3>3, PenalisedIsLess
      <4>2. logits'[t] = Penalised(logits[t]) \/ logits'[t] = logits[t]
        BY <2>1, <2>3, <3>4 DEF PenaliseOne
      <4>3. pc = "penalise"
        BY <2>3 DEF PenaliseOne
      <4>. QED BY <2>1, <3>1, <3>4, <4>1, <4>2, <4>3 DEF Window
    <3>5. CASE tokens[pos] # t
      <4>1. logits'[t] = logits[t]
        BY <2>1, <2>3, <3>5 DEF PenaliseOne
      <4>. QED BY <2>1, <4>1
    <3>. QED BY <3>4, <3>5
  <2>4. PenaliseOne \/ logits' = logits
    BY DEF Next, Step, Done, vars, PenaltyDone, ArgmaxNext, ArgmaxEnds, Append1, SiftUp,
           SiftUpEnds, Replace, Discard, SiftDown, SiftDownEnds, Sort, SortEnds, Draw
  <2>. QED BY <2>2, <2>3, <2>4
<1>. QED BY <1>1, <1>2, <1>3, Invariance, PTL DEF Spec, PenaltyLowers
-----------------------------------------------------------------------------
(* The sum of the weights w of a finite set, as the fold takes it: an      *)
(* element that CHOOSE picks, and the sum of the others.                   *)

Pick(s) == CHOOSE x \in s : TRUE

Summed(f, w, S) ==
    f = [s \in SUBSET S |-> IF s = {} THEN 0 ELSE w[Pick(s)] + f[s \ {Pick(s)}]]

LEMMA SubsetFacts ==
    ASSUME NEW S, IsFiniteSet(S), NEW s \in SUBSET S
    PROVE  /\ Cardinality(s) \in Nat /\ Cardinality(s) <= Cardinality(S)
           /\ \A x \in s : /\ s \ {x} \in SUBSET S
                           /\ Cardinality(s) # 0
                           /\ Cardinality(s \ {x}) = Cardinality(s) - 1
           /\ s # {} => Pick(s) \in s
<1>1. IsFiniteSet(s) /\ Cardinality(s) <= Cardinality(S)
  BY FS_Subset, Zenon
<1>2. Cardinality(s) \in Nat
  BY <1>1, FS_CardinalityType, Zenon
<1>3. ASSUME NEW x \in s
      PROVE  s \ {x} \in SUBSET S /\ Cardinality(s) # 0 /\ Cardinality(s \ {x}) = Cardinality(s) - 1
  <2>1. Cardinality(s \ {x}) = Cardinality(s) - 1
    BY <1>1, FS_RemoveElement, Zenon
  <2>2. Cardinality(s) # 0
    <3>1. s # {}
      OBVIOUS
    <3>. QED BY <1>1, <3>1, FS_EmptySet, Zenon
  <2>. QED BY <2>1, <2>2
<1>4. s # {} => Pick(s) \in s
  BY Zenon DEF Pick
<1>. QED BY <1>1, <1>2, <1>3, <1>4

(* What holds of a set when it holds of that set without any one element   *)
(* holds of every finite set: take a smallest one of which it does not.    *)
Grown(P, S) == \A s \in SUBSET S : (\A x \in s : s \ {x} \in P) => s \in P
Holds(P, S) == \A s \in SUBSET S : s \in P

LEMMA SubsetsInduction ==
    ASSUME NEW S, IsFiniteSet(S), NEW P, Grown(P, S)
    PROVE  Holds(P, S)
<1>. USE DEF Grown, Holds
<1>. DEFINE Bad == {n \in Nat : \E s \in SUBSET S : s \notin P /\ Cardinality(s) = n}
<1>1. ASSUME Bad # {} PROVE FALSE
  <2>1. PICK n \in Bad : \A m \in Bad : n <= m
    <3>1. Bad \in SUBSET Nat
      OBVIOUS
    <3>. HIDE DEF Bad
    <3>. QED BY <1>1, <3>1, LeastCounterexample
  <2>2. PICK s \in SUBSET S : s \notin P /\ Cardinality(s) = n
    BY <2>1
  <2>3. ASSUME NEW x \in s, s \ {x} \notin P PROVE FALSE
    <3>1. s \ {x} \in SUBSET S /\ Cardinality(s \ {x}) = n - 1 /\ n # 0 /\ n \in Nat
      BY <2>2, SubsetFacts
    <3>2. n - 1 \in Nat /\ ~(n <= n - 1)
      BY <3>1
    <3>3. n - 1 \in Bad
      BY <2>3, <3>1, <3>2
    <3>. QED BY <2>1, <3>2, <3>3
  <2>. QED BY <2>2, <2>3
<1>2. ASSUME NEW s \in SUBSET S, s \notin P PROVE FALSE
  <2>1. Cardinality(s) \in Nat
    BY SubsetFacts
  <2>. QED BY <1>1, <1>2, <2>1
<1>. QED BY <1>2

(* The fold is defined: a function that satisfies the equation up to a     *)
(* cardinality gives one that satisfies it for sets of one element more.   *)
LEMMA SumExists ==
    ASSUME NEW S, IsFiniteSet(S), NEW w
    PROVE  \E f : Summed(f, w, S)
<1>. DEFINE Term(f, t) == IF t = {} THEN 0 ELSE w[Pick(t)] + f[t \ {Pick(t)}]
            Upto(f, n) == \A t \in SUBSET S : Cardinality(t) <= n => f[t] = Term(f, t)
            Improved(f) == [t \in SUBSET S |-> Term(f, t)]
            Bad        == {n \in Nat : ~ \E f : Upto(f, n)}
<1>1. ASSUME NEW n \in Nat, NEW f, Upto(f, n) PROVE Upto(Improved(f), n + 1)
  <2>. PICK g : g = Improved(f)
    OBVIOUS
  <2>. SUFFICES ASSUME NEW t \in SUBSET S, Cardinality(t) <= n + 1 PROVE g[t] = Term(g, t)
    OBVIOUS
  <2>1. g[t] = Term(f, t)
    OBVIOUS
  <2>2. CASE t # {}
    <3>1. PICK u : u = t \ {Pick(t)}
      OBVIOUS
    <3>2. u \in SUBSET S /\ Cardinality(u) <= n
      <4>1. Pick(t) \in t
        BY <2>2, SubsetFacts, Zenon
      <4>2. /\ u \in SUBSET S /\ Cardinality(u) = Cardinality(t) - 1 /\ Cardinality(t) \in Nat
        BY <3>1, <4>1, SubsetFacts, Zenon
      <4>. QED BY <4>2
    <3>3. f[u] = g[u]
      BY <1>1, <3>2, Zenon
    <3>. QED BY <2>1, <2>2, <3>1, <3>3, Zenon
  <2>3. CASE t = {}
    BY <2>1, <2>3, Zenon
  <2>. QED BY <2>2, <2>3
<1>2. \E f : Upto(f, 0)
  <2>1. PICK f : f = [t \in SUBSET S |-> 0]
    OBVIOUS
  <2>2. ASSUME NEW t \in SUBSET S, Cardinality(t) <= 0 PROVE t = {}
    <3>1. Cardinality(t) \in Nat /\ \A x \in t : Cardinality(t) # 0
      BY SubsetFacts, Zenon
    <3>. QED BY <2>2, <3>1
  <2>3. Upto(f, 0)
    BY <2>1, <2>2, Zenon
  <2>. QED BY <2>3
<1>3. ASSUME Bad # {} PROVE FALSE
  <2>1. PICK n \in Bad : \A m \in Bad : n <= m
    <3>1. Bad \in SUBSET Nat
      OBVIOUS
    <3>. HIDE DEF Bad
    <3>. QED BY <1>3, <3>1, LeastCounterexample
  <2>2. n \in Nat /\ ~ \E f : Upto(f, n)
    BY <2>1, Zenon
  <2>. HIDE DEF Upto
  <2>3. n # 0
    BY <1>2, <2>2
  <2>4. n - 1 \in Nat /\ ~(n <= n - 1) /\ (n - 1) + 1 = n
    BY <2>2, <2>3
  <2>5. PICK f : Upto(f, n - 1)
    BY <2>1, <2>4
  <2>6. Upto(Improved(f), (n - 1) + 1)
    BY <1>1, <2>4, <2>5, Zenon
  <2>. QED BY <2>2, <2>4, <2>6
<1>4. Cardinality(S) \in Nat
  BY FS_CardinalityType, Zenon
<1>5. PICK f : Upto(f, Cardinality(S))
  <2>. HIDE DEF Upto
  <2>. QED BY <1>3, <1>4
<1>6. \A t \in SUBSET S : f[t] = Term(f, t)
  <2>1. \A t \in SUBSET S : Cardinality(t) <= Cardinality(S)
    BY SubsetFacts, Zenon
  <2>. QED BY <1>5, <2>1, Zenon
<1>7. PICK g : g = Improved(f)
  OBVIOUS
<1>8. ASSUME NEW t \in SUBSET S PROVE Term(f, t) = Term(g, t)
  <2>1. CASE t # {}
    <3>1. t \ {Pick(t)} \in SUBSET S
      OBVIOUS
    <3>2. g[t \ {Pick(t)}] = f[t \ {Pick(t)}]
      BY <1>6, <1>7, <3>1, Zenon
    <3>. QED BY <2>1, <3>2, Zenon
  <2>2. CASE t = {}
    BY <2>2, Zenon
  <2>. QED BY <2>1, <2>2
<1>9. g = [t \in SUBSET S |-> Term(g, t)]
  BY <1>7, <1>8, Zenon
<1>. QED BY <1>9, Zenon DEF Summed

LEMMA SumUnfolds ==
    ASSUME NEW S, NEW w, NEW f, Summed(f, w, S), NEW s \in SUBSET S
    PROVE  /\ s = {} => f[s] = 0
           /\ s # {} => \E x \in s : f[s] = w[x] + f[s \ {x}]
<1>1. f[s] = IF s = {} THEN 0 ELSE w[Pick(s)] + f[s \ {Pick(s)}]
  BY Zenon DEF Summed
<1>2. s # {} => Pick(s) \in s
  BY Zenon DEF Pick
<1>. QED BY <1>1, <1>2, Zenon

LEMMA SumIsNat ==
    ASSUME NEW S, IsFiniteSet(S), NEW w, \A x \in S : w[x] \in Nat, NEW f, Summed(f, w, S)
    PROVE  \A s \in SUBSET S : f[s] \in Nat
<1>. PICK P : P = {s \in SUBSET S : f[s] \in Nat}
  OBVIOUS
<1>1. ASSUME NEW s \in SUBSET S, \A x \in s : s \ {x} \in P PROVE s \in P
  <2>1. CASE s = {}
    BY <2>1, SumUnfolds
  <2>2. CASE s # {}
    <3>1. PICK x \in s : f[s] = w[x] + f[s \ {x}]
      BY <2>2, SumUnfolds
    <3>2. PICK y, rest : y = w[x] /\ rest = f[s \ {x}]
      OBVIOUS
    <3>3. f[s] = y + rest
      BY <3>1, <3>2, Zenon
    <3>4. y \in Nat /\ rest \in Nat
      BY <1>1, <3>1, <3>2
    <3>. QED BY <3>3, <3>4
  <2>. QED BY <2>1, <2>2
<1>2. Grown(P, S)
  BY <1>1 DEF Grown
<1>3. Holds(P, S)
  BY <1>2, SubsetsInduction, Zenon
<1>. QED BY <1>3 DEF Holds
(* Any element may be taken out first.                                     *)
TakesOut(f, w, S) == \A s \in SUBSET S : \A x \in s : f[s] = w[x] + f[s \ {x}]

LEMMA SumWithout ==
    ASSUME NEW S, IsFiniteSet(S), NEW w, \A x \in S : w[x] \in Nat, NEW f, Summed(f, w, S)
    PROVE  TakesOut(f, w, S)
<1>. PICK P : P = {s \in SUBSET S : \A x \in s : f[s] = w[x] + f[s \ {x}]}
  OBVIOUS
<1>0. \A s \in SUBSET S : f[s] \in Nat
  BY SumIsNat, Zenon
<1>1. ASSUME NEW s \in SUBSET S, \A x \in s : s \ {x} \in P PROVE s \in P
  <2>. SUFFICES ASSUME NEW x \in s PROVE f[s] = w[x] + f[s \ {x}]
    OBVIOUS
  <2>2. PICK y \in s : f[s] = w[y] + f[s \ {y}]
    BY SumUnfolds
  <2>3. CASE x = y
    BY <2>2, <2>3
  <2>4. CASE x # y
    <3>1. x \in s \ {y} /\ y \in s \ {x} /\ (s \ {y}) \ {x} = (s \ {x}) \ {y}
      BY <2>2, <2>4
    <3>2. PICK u : u = (s \ {x}) \ {y}
      OBVIOUS
    <3>3. f[s \ {y}] = w[x] + f[u]
      BY <1>1, <2>2, <3>1, <3>2
    <3>4. f[s \ {x}] = w[y] + f[u]
      BY <1>1, <3>1, <3>2
    <3>5. w[x] \in Nat /\ w[y] \in Nat /\ f[u] \in Nat
      BY <1>0, <2>2, <3>2
    <3>6. PICK a \in Nat, b \in Nat, c \in Nat : a = w[x] /\ b = w[y] /\ c = f[u]
      BY <3>5
    <3>7. f[s \ {y}] = a + c /\ f[s \ {x}] = b + c /\ f[s] = b + f[s \ {y}]
      BY <2>2, <3>3, <3>4, <3>6, Zenon
    <3>8. b + (a + c) = a + (b + c)
      OBVIOUS
    <3>. QED BY <3>6, <3>7, <3>8, Zenon
  <2>. QED BY <2>3, <2>4
<1>2. Grown(P, S)
  BY <1>1 DEF Grown
<1>3. Holds(P, S)
  BY <1>2, SubsetsInduction, Zenon
<1>. QED BY <1>3 DEF Holds, TakesOut
(* The sum of a part is at most that of the whole.                         *)
LEMMA SumGrows ==
    ASSUME NEW S, IsFiniteSet(S), NEW w, \A x \in S : w[x] \in Nat, NEW f, Summed(f, w, S)
    PROVE  \A s \in SUBSET S : \A t \in SUBSET s : f[t] <= f[s]
<1>. PICK P : P = {s \in SUBSET S : \A t \in SUBSET s : f[t] <= f[s]}
  OBVIOUS
<1>0. \A s \in SUBSET S : f[s] \in Nat
  BY SumIsNat, Zenon
<1>1. ASSUME NEW s \in SUBSET S, \A x \in s : s \ {x} \in P PROVE s \in P
  <2>. SUFFICES ASSUME NEW t \in SUBSET s PROVE f[t] <= f[s]
    OBVIOUS
  <2>1. CASE t = s
    <3>1. f[s] \in Nat
      BY <1>0
    <3>. QED BY <2>1, <3>1
  <2>2. CASE t # s
    <3>1. PICK x \in s : x \notin t
      BY <2>2
    <3>2. f[t] <= f[s \ {x}]
      BY <1>1, <3>1
    <3>3. f[s] = w[x] + f[s \ {x}]
      <4>1. TakesOut(f, w, S)
        BY SumWithout, Zenon
      <4>. QED BY <3>1, <4>1 DEF TakesOut
    <3>4. w[x] \in Nat /\ f[t] \in Nat /\ f[s \ {x}] \in Nat
      BY <1>0
    <3>. QED BY <3>2, <3>3, <3>4
  <2>. QED BY <2>1, <2>2
<1>2. Grown(P, S)
  BY <1>1 DEF Grown
<1>3. Holds(P, S)
  BY <1>2, SubsetsInduction, Zenon
<1>. QED BY <1>3 DEF Holds
(* Elements that are renamed, each to one of its own, keep their sum.      *)
Renames(h, w, S, v, T) ==
    /\ \A x \in S : h[x] \in T /\ w[x] = v[h[x]]
    /\ \A x, y \in S : h[x] = h[y] => x = y
    /\ \A y \in T : v[y] \in Nat

Image(h, s) == {h[x] : x \in s}

SumsAgree(f, S, g, h) == \A s \in SUBSET S : f[s] = g[Image(h, s)]

LEMMA SumRenamed ==
    ASSUME NEW S, IsFiniteSet(S), NEW w, NEW f, Summed(f, w, S),
           NEW T, IsFiniteSet(T), NEW v, NEW g, Summed(g, v, T),
           NEW h, Renames(h, w, S, v, T)
    PROVE  SumsAgree(f, S, g, h)
<1>. USE DEF Image
<1>. PICK P : P = {s \in SUBSET S : f[s] = g[{h[x] : x \in s}]}
  OBVIOUS
<1>1. ASSUME NEW s \in SUBSET S, \A x \in s : s \ {x} \in P PROVE s \in P
  <2>1. CASE s = {}
    <3>1. {h[x] : x \in s} = {}
      BY <2>1
    <3>. QED BY <2>1, <3>1, SumUnfolds
  <2>2. CASE s # {}
    <3>2. PICK x \in s : f[s] = w[x] + f[s \ {x}]
      BY <2>2, SumUnfolds
    <3>3. PICK i, j : i = {h[z] : z \in s} /\ j = {h[z] : z \in s \ {x}}
      OBVIOUS
    <3>4. i \in SUBSET T /\ h[x] \in i /\ i \ {h[x]} = j
      BY <3>2, <3>3 DEF Renames
    <3>5. g[i] = v[h[x]] + g[i \ {h[x]}]
      <4>1. TakesOut(g, v, T)
        BY SumWithout, Zenon DEF Renames
      <4>. QED BY <3>4, <4>1, Zenon DEF TakesOut
    <3>6. f[s \ {x}] = g[j]
      BY <1>1, <3>2, <3>3
    <3>7. w[x] = v[h[x]]
      BY <3>2 DEF Renames
    <3>8. f[s] = g[i]
      BY <3>2, <3>4, <3>5, <3>6, <3>7, Zenon
    <3>. QED BY <3>3, <3>8
  <2>. QED BY <2>1, <2>2
<1>2. Grown(P, S)
  BY <1>1 DEF Grown
<1>3. Holds(P, S)
  BY <1>2, SubsetsInduction, Zenon
<1>. QED BY <1>3 DEF Holds, SumsAgree
-----------------------------------------------------------------------------
(* What the sort has listed so far: entries of the full heap, each once,   *)
(* from the best one on; the ones it has not listed are no better.         *)
OrderInv ==
    /\ order # <<>> => next = Vocab /\ pc \in {"fill", "draw", "done"}
    /\ pc = "draw" => next = Vocab
    /\ \A a \in 1..Len(order) : order[a] \in Kept
    /\ \A a, b \in 1..Len(order) : order[a] = order[b] => a = b
    /\ \A a, b \in 1..Len(order) : a <= b => logits[order[b]] <= logits[order[a]]
    /\ \A u \in Kept \ Sorted, a \in 1..Len(order) : logits[u] <= logits[order[a]]

ArgmaxChosen == pc = "argmax" => opt.greedy \/ TopK = 1

LEMMA InitOrder == Init => OrderInv /\ ArgmaxChosen
<1>. SUFFICES ASSUME Init PROVE OrderInv /\ ArgmaxChosen
  OBVIOUS
<1>1. order = <<>> /\ pc = "penalise" /\ 1..Len(order) = {}
  BY DEF Init
<1>. QED BY <1>1 DEF OrderInv, ArgmaxChosen

(* A listed token is one of the heap, whose entries are tokens.             *)
LEMMA OrderTypes ==
    ASSUME SamplerAssumption, IInv
    PROVE  /\ Kept \subseteq Tokens /\ order \in Seq(Tokens) /\ Len(order) \in Nat
           /\ \A t \in Tokens : logits[t] \in Int
           /\ \A a \in 1..Len(order) : order[a] \in Tokens
<1>1. order \in Seq(Tokens)
  BY DEF IInv, TypeOK
<1>2. Kept \subseteq Tokens
  <2>1. heap \in [0..HeapMax-1 -> Tokens] /\ Idx \subseteq 0..HeapMax-1
    BY HeapTypes
  <2>. QED BY <2>1 DEF Kept, Idx
<1>3. \A t \in Tokens : logits[t] \in Int
  BY HeapTypes
<1>. QED BY <1>1, <1>2, <1>3

LEMMA StepOrder ==
    ASSUME SamplerAssumption, IInv, OrderInv, [Next]_vars
    PROVE  OrderInv'
<1>1. CASE Sort
  <2>1. PICK t \in Kept \ Sorted :
          /\ \A u \in Kept \ Sorted : logits[u] <= logits[t]
          /\ order' = Append(order, t)
    BY <1>1 DEF Sort
  <2>2. pc = "fill" /\ next = Vocab /\ UNCHANGED <<pc, logits, heap, size, next>> /\ Kept' = Kept
    BY <1>1 DEF Sort, Kept
  <2>3. PICK n \in Nat : n = Len(order)
    BY OrderTypes
  <2>4. /\ Len(order') = n + 1 /\ order'[n + 1] = t
        /\ \A a \in 1..n : order'[a] = order[a]
    BY <2>1, <2>3, OrderTypes
  <2>5. \A a \in 1..n+1 : a = n + 1 \/ a \in 1..n
    BY <2>3
  <2>6. \A a \in 1..n : order[a] \in Kept /\ order[a] # t
    BY <2>1, <2>3 DEF OrderInv, Sorted
  <2>7. \A a, b \in 1..n : order[a] = order[b] => a = b
    BY <2>3 DEF OrderInv
  <2>8. \A a, b \in 1..n : a <= b => logits[order[b]] <= logits[order[a]]
    BY <2>3 DEF OrderInv
  <2>9. \A u \in Kept \ Sorted, a \in 1..n : logits[u] <= logits[order[a]]
    BY <2>3 DEF OrderInv
  <2>10. Kept \ Sorted' \subseteq Kept \ Sorted
    <3>1. Sorted \subseteq Sorted'
      <4>1. \A a \in 1..n : a \in 1..n+1
        BY <2>3
      <4>. QED BY <2>3, <2>4, <4>1 DEF Sorted
    <3>. QED BY <3>1
  <2>11. \A a \in 1..n+1 : order'[a] \in Kept
    BY <2>1, <2>4, <2>5, <2>6
  <2>12. \A a, b \in 1..n+1 : order'[a] = order'[b] => a = b
    BY <2>4, <2>5, <2>6, <2>7
  <2>13. ASSUME NEW a \in 1..n+1, NEW b \in 1..n+1, a <= b
         PROVE  logits[order'[b]] <= logits[order'[a]]
    <3>1. CASE b = n + 1 /\ a = n + 1
      <4>1. t \in Tokens /\ logits[t] \in Int
        BY <2>1, OrderTypes
      <4>. QED BY <2>4, <3>1, <4>1
    <3>2. CASE b = n + 1 /\ a \in 1..n
      BY <2>1, <2>4, <2>9, <3>2
    <3>3. CASE b \in 1..n
      <4>1. a \in 1..n
        BY <2>3, <2>13, <3>3
      <4>. QED BY <2>4, <2>8, <2>13, <3>3, <4>1
    <3>. QED BY <2>5, <3>1, <3>2, <3>3
  <2>14. \A u \in Kept \ Sorted', a \in 1..n+1 : logits[u] <= logits[order'[a]]
    BY <2>1, <2>4, <2>5, <2>9, <2>10
  <2>. QED BY <2>2, <2>4, <2>11, <2>12, <2>13, <2>14 DEF OrderInv
<1>3. CASE order = <<>> /\ order' = order /\ pc' # "draw"
  <2>1. 1..Len(order') = {}
    BY <1>3
  <2>. QED BY <1>3, <2>1 DEF OrderInv
<1>4. CASE PenaliseOne \/ PenaltyDone \/ ArgmaxNext \/ ArgmaxEnds
  <2>1. order = <<>> /\ order' = order /\ pc' # "draw"
    BY <1>4 DEF PenaliseOne, PenaltyDone, ArgmaxNext, ArgmaxEnds, OrderInv
  <2>. QED BY <1>3, <2>1
<1>5. CASE Append1 \/ Replace \/ Discard
  <2>1. next # Vocab /\ order' = order /\ pc' # "draw"
    <3>1. next < Vocab /\ order' = order /\ pc' # "draw"
      BY <1>5 DEF Append1, Replace, Discard
    <3>. QED BY <3>1, HeapTypes
  <2>. QED BY <1>3, <2>1 DEF OrderInv
<1>6. CASE SiftUp \/ SiftUpEnds \/ SiftDown \/ SiftDownEnds
  <2>1. order = <<>> /\ order' = order /\ pc' # "draw"
    BY <1>6 DEF SiftUp, SiftUpEnds, SiftDown, SiftDownEnds, OrderInv
  <2>. QED BY <1>3, <2>1
<1>7. CASE SortEnds \/ Draw
  <2>1. /\ UNCHANGED <<order, logits, heap, size, next>>
        /\ pc' \in {"draw", "done"} /\ (pc' = "draw" => pc = "fill" /\ next = Vocab)
        /\ pc' = "done" => pc = "draw"
    BY <1>7 DEF SortEnds, Draw
  <2>2. Kept' = Kept /\ Sorted' = Sorted
    BY <2>1 DEF Kept, Sorted
  <2>. QED BY <2>1, <2>2 DEF OrderInv
<1>8. CASE UNCHANGED vars
  <2>1. UNCHANGED <<pc, order, logits, heap, size, next>>
    BY <1>8 DEF vars
  <2>2. Kept' = Kept /\ Sorted' = Sorted
    BY <2>1 DEF Kept, Sorted
  <2>. QED BY <2>1, <2>2 DEF OrderInv
<1>. QED BY <1>1, <1>4, <1>5, <1>6, <1>7, <1>8 DEF Next, Step, Done

LEMMA StepArgmax ==
    ASSUME ArgmaxChosen, [Next]_vars
    PROVE  ArgmaxChosen'
<1>1. CASE PenaltyDone
  BY <1>1 DEF ArgmaxChosen, PenaltyDone, TopK
<1>2. CASE PenaliseOne \/ Append1 \/ SiftUp \/ SiftUpEnds \/ Replace \/ Discard
  BY <1>2 DEF ArgmaxChosen, TopK, PenaliseOne, Append1, SiftUp, SiftUpEnds, Replace, Discard
<1>3. CASE SiftDown \/ SiftDownEnds \/ Sort \/ SortEnds \/ Draw \/ ArgmaxNext \/ ArgmaxEnds
  BY <1>3 DEF ArgmaxChosen, TopK, SiftDown, SiftDownEnds, Sort, SortEnds, Draw,
               ArgmaxNext, ArgmaxEnds
<1>4. CASE UNCHANGED vars
  BY <1>4 DEF vars, ArgmaxChosen, TopK
<1>. QED BY <1>1, <1>2, <1>3, <1>4 DEF Next, Step, Done

-----------------------------------------------------------------------------
(* The masses of the candidates.                                           *)

Cand(m) == {order[a] : a \in 1..m}

LEMMA WeightIsNat == ASSUME NEW t PROVE WeightOf(t) \in Nat
<1>. PICK d : d = logits[order[1]] - logits[t]
  OBVIOUS
<1>. QED BY WeightAssumption DEF WeightOf, WeightAssumption

LEMMA PickFacts == ASSUME NEW s, s # {} PROVE Pick(s) \in s
BY Zenon DEF Pick

LEMMA TokensFinite == SamplerAssumption => IsFiniteSet(Tokens)
<1>. SUFFICES ASSUME SamplerAssumption PROVE IsFiniteSet(Tokens)
  OBVIOUS
<1>1. 0 \in Int /\ Vocab - 1 \in Int
  BY DEF SamplerAssumption
<1>. QED BY <1>1, FS_Interval, Zenon DEF Tokens

(* The weight of a set of tokens is its value under one function g.        *)
LEMMA SumIs ==
    ASSUME SamplerAssumption, NEW w, w = [t \in Tokens |-> WeightOf(t)],
           NEW g, Summed(g, w, Tokens), NEW S \in SUBSET Tokens
    PROVE  Sum(S) = g[S]
<1>1. IsFiniteSet(S) /\ IsFiniteSet(Tokens)
  BY TokensFinite, FS_Subset, Zenon
<1>2. \A t \in Tokens : w[t] \in Nat
  BY WeightIsNat, Zenon
<1>. DEFINE Eqn(f) == f = [s \in SUBSET S |-> IF s = {} THEN 0
                                              ELSE WeightOf(Pick(s)) + f[s \ {Pick(s)}]]
<1>3. ASSUME NEW f PROVE Eqn(f) <=> Summed(f, w, S)
  <2>1. ASSUME NEW s \in SUBSET S
        PROVE  (IF s = {} THEN 0 ELSE WeightOf(Pick(s)) + f[s \ {Pick(s)}])
               = IF s = {} THEN 0 ELSE w[Pick(s)] + f[s \ {Pick(s)}]
    <3>1. CASE s = {}
      BY <3>1, Zenon
    <3>2. CASE s # {}
      <4>1. Pick(s) \in Tokens
        BY <3>2, PickFacts, Zenon
      <4>2. w[Pick(s)] = WeightOf(Pick(s))
        BY <4>1, Zenon
      <4>. QED BY <4>2, Zenon
    <3>. QED BY <3>1, <3>2
  <2>2. [s \in SUBSET S |-> IF s = {} THEN 0 ELSE WeightOf(Pick(s)) + f[s \ {Pick(s)}]]
        = [s \in SUBSET S |-> IF s = {} THEN 0 ELSE w[Pick(s)] + f[s \ {Pick(s)}]]
    BY <2>1, Zenon
  <2>. QED BY <2>2, Zenon DEF Summed
<1>4. \E f : Eqn(f)
  BY <1>1, <1>3, SumExists, Zenon
<1>5. PICK f : f = (CHOOSE ff : Eqn(ff))
  OBVIOUS
<1>6. Eqn(f)
  <2>. HIDE DEF Eqn
  <2>. QED BY <1>4, <1>5, Zenon
<1>7. Sum(S) = f[S]
  BY <1>5, Zenon DEF Sum, Sets!MapThenSumSet, Sets!MapThenFoldSet, Pick
<1>8. Summed(f, w, S)
  BY <1>3, <1>6, Zenon
<1>9. PICK h : h = [t \in S |-> t]
  OBVIOUS
<1>10. Renames(h, w, S, w, Tokens)
  <2>1. \A t \in S : h[t] = t
    BY <1>9
  <2>. QED BY <1>2, <2>1, Zenon DEF Renames
<1>11. SumsAgree(f, S, g, h)
  BY <1>1, <1>8, <1>10, SumRenamed, Zenon
<1>12. Image(h, S) = S
  BY <1>9 DEF Image
<1>. QED BY <1>7, <1>11, <1>12 DEF SumsAgree

LEMMA MassIs ==
    ASSUME SamplerAssumption, NEW w, w = [t \in Tokens |-> WeightOf(t)],
           NEW g, Summed(g, w, Tokens), NEW m \in Nat,
           \A a \in 1..m : order[a] \in Tokens,
           \A a, b \in 1..m : order[a] = order[b] => a = b
    PROVE  Mass(m) = g[Cand(m)]
<1>0. PICK S : S = 1..m
  OBVIOUS
<1>1. IsFiniteSet(S) /\ IsFiniteSet(Tokens)
  BY <1>0, TokensFinite, FS_Interval
<1>2. \A t \in Tokens : w[t] \in Nat
  BY WeightIsNat, Zenon
<1>3. PICK v : v = [a \in S |-> WeightOf(order[a])]
  OBVIOUS
<1>. DEFINE Eqn(f) == f = [s \in SUBSET S |-> IF s = {} THEN 0
                                     ELSE WeightOf(order[Pick(s)]) + f[s \ {Pick(s)}]]
<1>4. ASSUME NEW f PROVE Eqn(f) <=> Summed(f, v, S)
  <2>1. ASSUME NEW s \in SUBSET S
        PROVE  (IF s = {} THEN 0 ELSE WeightOf(order[Pick(s)]) + f[s \ {Pick(s)}])
               = IF s = {} THEN 0 ELSE v[Pick(s)] + f[s \ {Pick(s)}]
    <3>1. CASE s = {}
      BY <3>1, Zenon
    <3>2. CASE s # {}
      <4>1. Pick(s) \in S
        BY <3>2, PickFacts, Zenon
      <4>2. v[Pick(s)] = WeightOf(order[Pick(s)])
        BY <1>3, <4>1, Zenon
      <4>. QED BY <4>2, Zenon
    <3>. QED BY <3>1, <3>2
  <2>2. [s \in SUBSET S |-> IF s = {} THEN 0 ELSE WeightOf(order[Pick(s)]) + f[s \ {Pick(s)}]]
        = [s \in SUBSET S |-> IF s = {} THEN 0 ELSE v[Pick(s)] + f[s \ {Pick(s)}]]
    BY <2>1, Zenon
  <2>. QED BY <2>2, Zenon DEF Summed
<1>5. \E f : Eqn(f)
  BY <1>1, <1>4, SumExists, Zenon
<1>6. PICK f : f = (CHOOSE ff : Eqn(ff))
  OBVIOUS
<1>7. Eqn(f)
  <2>. HIDE DEF Eqn
  <2>. QED BY <1>5, <1>6, Zenon
<1>8. Mass(m) = f[S]
  BY <1>0, <1>6, Zenon DEF Mass, Sets!MapThenSumSet, Sets!MapThenFoldSet, Pick
<1>9. Summed(f, v, S)
  BY <1>4, <1>7, Zenon
<1>10. PICK h : h = [a \in S |-> order[a]]
  OBVIOUS
<1>11. Renames(h, v, S, w, Tokens)
  <2>1. \A a \in S : h[a] = order[a] /\ h[a] \in Tokens
    BY <1>0, <1>10, Zenon
  <2>2. \A a, b \in S : h[a] = h[b] => a = b
    BY <1>0, <2>1, Zenon
  <2>3. \A a \in S : v[a] = WeightOf(h[a]) /\ w[h[a]] = WeightOf(h[a])
    BY <1>3, <2>1, Zenon
  <2>. QED BY <1>2, <2>1, <2>2, <2>3, Zenon DEF Renames
<1>12. SumsAgree(f, S, g, h)
  BY <1>1, <1>9, <1>11, SumRenamed, Zenon
<1>13. Image(h, S) = Cand(m)
  BY <1>0, <1>10 DEF Cand, Image
<1>. QED BY <1>8, <1>12, <1>13 DEF SumsAgree

LEMMA DrawTypes ==
    ASSUME SamplerAssumption, IInv, OrderInv, pc = "draw"
    PROVE  /\ K \in Nat \ {0} /\ size = K /\ next = Vocab /\ Len(order) = K
           /\ \A a \in 1..K : order[a] \in Kept /\ order[a] \in Tokens
           /\ \A a, b \in 1..K : order[a] = order[b] => a = b
           /\ \A a, b \in 1..K : a <= b => logits[order[b]] <= logits[order[a]]
           /\ Kept \subseteq Tokens
<1>1. K \in Nat \ {0} /\ K <= Vocab /\ Vocab \in Nat
  BY HeapTypes
<1>2. Len(order) = K /\ next = Vocab
  BY DEF IInv, Phases, OrderInv
<1>3. size = K
  BY <1>1, <1>2 DEF IInv, Structure, Least
<1>4. /\ \A a \in 1..K : order[a] \in Kept
      /\ \A a, b \in 1..K : order[a] = order[b] => a = b
      /\ \A a, b \in 1..K : a <= b => logits[order[b]] <= logits[order[a]]
  BY <1>2, Zenon DEF OrderInv
<1>5. Kept \subseteq Tokens
  BY OrderTypes
<1>. QED BY <1>1, <1>2, <1>3, <1>4, <1>5

(* The sort lists the whole heap: as many tokens as it has, each once.      *)
LEMMA AllListed ==
    ASSUME SamplerAssumption, IInv, OrderInv, pc = "draw"
    PROVE  Cand(K) = Kept
<1>0. PICK k \in Nat : k = K
  BY DrawTypes
<1>1. /\ size = k
      /\ \A a \in 1..k : order[a] \in Kept
      /\ \A a, b \in 1..k : order[a] = order[b] => a = b
  BY <1>0, DrawTypes
<1>2. PICK C : C = Cand(k)
  OBVIOUS
<1>3. C \subseteq Kept
  BY <1>1, <1>2 DEF Cand
<1>4. Cardinality(C) = k
  <2>1. PICK f : f = [a \in 1..k |-> order[a]]
    OBVIOUS
  <2>2. f \in Bijection(1..k, C)
    <3>1. f \in [1..k -> C]
      BY <1>2, <2>1 DEF Cand
    <3>2. \A a, b \in 1..k : f[a] = f[b] => a = b
      BY <1>1, <2>1
    <3>3. \A t \in C : \E a \in 1..k : f[a] = t
      BY <1>2, <2>1 DEF Cand
    <3>4. IsInjective(f)
      <4>1. DOMAIN f = 1..k
        BY <2>1
      <4>. QED BY <3>2, <4>1, Zenon DEF IsInjective
    <3>5. f \in Injection(1..k, C)
      BY <3>1, <3>4, Zenon DEF Injection
    <3>6. f \in Surjection(1..k, C)
      BY <3>1, <3>3, Zenon DEF Surjection
    <3>. QED BY <3>5, <3>6, Zenon DEF Bijection
  <2>3. ExistsBijection(1..k, C)
    BY <2>2, Zenon DEF ExistsBijection
  <2>. QED BY <2>3, FS_CountingElements, Zenon
<1>5. IsFiniteSet(Kept) /\ Cardinality(Kept) <= k
  <2>1. PICK f : f = [j \in 1..k |-> heap[j - 1]]
    OBVIOUS
  <2>2. f \in Surjection(1..k, Kept)
    <3>1. \A j \in 1..k : j - 1 \in 0..k-1
      OBVIOUS
    <3>2. f \in [1..k -> Kept]
      BY <1>1, <2>1, <3>1 DEF Kept
    <3>3. ASSUME NEW t \in Kept PROVE \E j \in 1..k : f[j] = t
      <4>1. PICK i \in 0..k-1 : t = heap[i]
        BY <1>1 DEF Kept
      <4>2. PICK j : j = i + 1
        OBVIOUS
      <4>3. j \in 1..k /\ j - 1 = i
        BY <4>2
      <4>4. f[j] = t
        BY <2>1, <4>1, <4>3
      <4>. QED BY <4>3, <4>4
    <3>. QED BY <3>2, <3>3, Zenon DEF Surjection
  <2>3. IsFiniteSet(1..k) /\ Cardinality(1..k) = k
    <3>1. IsFiniteSet(1..k) /\ Cardinality(1..k) = (IF 1 > k THEN 0 ELSE k - 1 + 1)
      BY FS_Interval
    <3>. QED BY <3>1
  <2>4. IsFiniteSet(Kept) /\ Cardinality(Kept) <= Cardinality(1..k)
    BY <2>2, <2>3, FS_Surjection, Zenon
  <2>. QED BY <2>3, <2>4
<1>6. Cardinality(C) <= Cardinality(Kept)
  BY <1>3, <1>5, FS_Subset, Zenon
<1>7. Cardinality(C) = Cardinality(Kept)
  <2>1. Cardinality(Kept) \in Nat
    BY <1>5, FS_CardinalityType, Zenon
  <2>. QED BY <1>4, <1>5, <1>6, <2>1
<1>8. C = Kept
  BY <1>3, <1>5, <1>7, FS_Subset, Zenon
<1>. QED BY <1>0, <1>2, <1>8

(* The mass grows by the weight of the next candidate, and no set of the   *)
(* first m candidates weighs more than the first m.                        *)
Masses ==
    /\ \A m \in 0..K : Mass(m) \in Nat
    /\ \A a \in 1..K : Mass(a) = WeightOf(order[a]) + Mass(a - 1)
    /\ \A m \in 0..K : \A S \in SUBSET Cand(m) : Sum(S) \in Nat /\ Sum(S) <= Mass(m)
    /\ Sum(Kept) = Mass(K)

LEMMA MassFacts ==
    ASSUME SamplerAssumption, IInv, OrderInv, pc = "draw"
    PROVE  Masses
<1>0. PICK k \in Nat : k = K
  BY DrawTypes
<1>1. /\ \A a \in 1..k : order[a] \in Tokens
      /\ \A a, b \in 1..k : order[a] = order[b] => a = b
  BY <1>0, DrawTypes
<1>2. PICK w : w = [t \in Tokens |-> WeightOf(t)]
  OBVIOUS
<1>3. IsFiniteSet(Tokens) /\ (\A t \in Tokens : w[t] = WeightOf(t) /\ w[t] \in Nat)
  BY <1>2, TokensFinite, WeightIsNat, Zenon
<1>4. PICK g : Summed(g, w, Tokens)
  BY <1>3, SumExists, Zenon
<1>5. ASSUME NEW m \in 0..k PROVE Cand(m) \subseteq Tokens /\ Mass(m) = g[Cand(m)]
  <2>1. m \in Nat /\ \A a \in 1..m : a \in 1..k
    OBVIOUS
  <2>2. Cand(m) \subseteq Tokens
    BY <1>1, <2>1 DEF Cand
  <2>3. /\ \A a \in 1..m : order[a] \in Tokens
        /\ \A a, b \in 1..m : order[a] = order[b] => a = b
    BY <1>1, <2>1, Zenon
  <2>4. Mass(m) = g[Cand(m)]
    BY <1>2, <1>4, <2>1, <2>3, MassIs, Zenon
  <2>. QED BY <2>2, <2>4
<1>6. \A S \in SUBSET Tokens : Sum(S) = g[S]
  BY <1>2, <1>4, SumIs, Zenon
<1>7. \A S \in SUBSET Tokens : g[S] \in Nat
  BY <1>3, <1>4, SumIsNat, Zenon
<1>8. \A S \in SUBSET Tokens : \A T \in SUBSET S : g[T] <= g[S]
  BY <1>3, <1>4, SumGrows, Zenon
<1>9. \A m \in 0..k : Mass(m) \in Nat
  BY <1>5, <1>7, Zenon
<1>10. ASSUME NEW a \in 1..k PROVE Mass(a) = WeightOf(order[a]) + Mass(a - 1)
  <2>1. a \in 0..k /\ a - 1 \in 0..k /\ (\A b \in 1..a : b = a \/ b \in 1..a-1) /\ a \in 1..a
        /\ \A b \in 1..a-1 : b \in 1..a /\ b \in 1..k /\ b # a
    OBVIOUS
  <2>2. Cand(a - 1) = Cand(a) \ {order[a]} /\ order[a] \in Cand(a)
    <3>1. \A b \in 1..a-1 : order[b] # order[a]
      BY <1>1, <2>1, Zenon
    <3>. QED BY <2>1, <3>1 DEF Cand
  <2>3. TakesOut(g, w, Tokens)
    BY <1>3, <1>4, SumWithout, Zenon
  <2>4. g[Cand(a)] = w[order[a]] + g[Cand(a - 1)]
    BY <1>5, <2>1, <2>2, <2>3, Zenon DEF TakesOut
  <2>5. w[order[a]] = WeightOf(order[a])
    BY <1>1, <1>3, Zenon
  <2>. QED BY <1>5, <2>1, <2>4, <2>5, Zenon
<1>11. ASSUME NEW m \in 0..k, NEW S \in SUBSET Cand(m) PROVE Sum(S) \in Nat /\ Sum(S) <= Mass(m)
  <2>1. Cand(m) \in SUBSET Tokens /\ S \in SUBSET Tokens
    BY <1>5
  <2>2. Sum(S) = g[S] /\ Mass(m) = g[Cand(m)]
    BY <1>5, <1>6, <2>1, Zenon
  <2>. QED BY <1>7, <1>8, <2>1, <2>2
<1>12. Sum(Kept) = Mass(K)
  <2>1. k \in 0..k /\ Cand(k) = Kept
    BY <1>0, AllListed
  <2>2. Kept \in SUBSET Tokens
    BY DrawTypes
  <2>. QED BY <1>0, <1>5, <1>6, <2>1, <2>2, Zenon
<1>. QED BY <1>0, <1>9, <1>10, <1>11, <1>12 DEF Masses

-----------------------------------------------------------------------------
(* The draw.                                                               *)

Nucleus(t) ==
    /\ WeightOf(t) > 0
    /\ Cardinality(Better(t)) < K
    /\ \/ opt.top_p >= Scale \/ Better(t) = {}
       \/ Sum(Better(t)) * Scale < opt.top_p * Sum(Kept)

(* Tokens better than a candidate are candidates before it: the heap keeps *)
(* the best tokens, and the sort lists them in order.                      *)
LEMMA BetterAreBefore ==
    ASSUME SamplerAssumption, IInv, OrderInv, pc = "draw", NEW a \in 1..K
    PROVE  Better(order[a]) \subseteq Cand(a - 1)
<1>0. PICK k \in Nat : k = K
  BY DrawTypes
<1>1. /\ \A b \in 1..k : order[b] \in Kept /\ order[b] \in Tokens
      /\ \A b, d \in 1..k : b <= d => logits[order[d]] <= logits[order[b]]
      /\ next = Vocab
  BY <1>0, DrawTypes
<1>2. a \in 1..k /\ \A t \in Tokens : logits[t] \in Int
  BY <1>0, HeapTypes
<1>3. ASSUME NEW u \in Tokens, logits[u] > logits[order[a]] PROVE u \in Cand(a - 1)
  <2>1. logits[u] \in Int /\ logits[order[a]] \in Int
    BY <1>1, <1>2
  <2>2. u \in Kept
    <3>1. PICK j \in Idx : order[a] = heap[j]
      BY <1>1, <1>2 DEF Kept, Idx
    <3>2. ASSUME \A i \in Idx : heap[i] # u PROVE FALSE
      <4>1. u \in 0..next-1
        BY <1>1 DEF Tokens
      <4>2. logits[u] <= Key(j)
        BY <3>2, <4>1 DEF IInv, Structure
      <4>. QED BY <1>3, <2>1, <3>1, <4>2 DEF Key
    <3>. QED BY <3>2 DEF Kept, Idx
  <2>3. PICK b \in 1..k : order[b] = u
    <3>1. u \in Cand(k)
      BY <1>0, <2>2, AllListed
    <3>. QED BY <3>1 DEF Cand
  <2>4. ~(a <= b)
    BY <1>1, <1>2, <1>3, <2>1, <2>3
  <2>5. b \in 1..a-1
    BY <1>2, <2>4
  <2>. QED BY <2>3, <2>5 DEF Cand
<1>. QED BY <1>3 DEF Better

LEMMA Accumulated ==
    ASSUME NEW x \in Nat, NEW y \in Nat, NEW s \in Nat, NEW z \in Int, x <= y, y * s < z
    PROVE  x * s < z
<1>1. y * s = x * s + (y - x) * s
  OBVIOUS
<1>2. (y - x) * s \in Nat /\ x * s \in Nat
  OBVIOUS
<1>. QED BY <1>1, <1>2

(* The token at which the accumulated weight reaches the random fraction   *)
(* weighs something: without it the fraction would have been reached.      *)
LEMMA DrawnWeighs ==
    ASSUME SamplerAssumption, IInv, OrderInv, pc = "draw",
           NEW n \in 1..K, NEW frac \in 0..Scale-1, NEW a \in 1..n, Drawn(a, n, frac)
    PROVE  WeightOf(order[a]) > 0
<1>1. Masses /\ K \in Nat
  BY MassFacts, DrawTypes
<1>2. a \in 1..K
  BY <1>1
<1>3. CASE a = 1
  <2>1. logits[order[1]] \in Int
    <3>1. order[1] \in Tokens
      BY <1>2, <1>3, DrawTypes
    <3>. QED BY <3>1, HeapTypes
  <2>2. logits[order[1]] - logits[order[1]] = 0
    BY <2>1
  <2>3. WeightOf(order[1]) = Weight[0]
    BY <2>2, WeightAssumption, Zenon DEF WeightOf, WeightAssumption
  <2>. QED BY <1>3, <2>3, WeightAssumption DEF WeightAssumption
<1>4. CASE a # 1
  <2>1. a - 1 \in 1..a-1 /\ a - 1 \in 0..K /\ a \in 0..K /\ n \in 0..K
    BY <1>1, <1>2, <1>4
  <2>2. PICK x, y, z, v : x = Mass(a - 1) /\ y = Mass(a) /\ z = Mass(n) /\ v = WeightOf(order[a])
    OBVIOUS
  <2>3. x \in Nat /\ y \in Nat /\ z \in Nat /\ v \in Nat /\ y = v + x
    <3>1. x \in Nat /\ y \in Nat /\ z \in Nat /\ y = v + x
      BY <1>1, <1>2, <2>1, <2>2, Zenon DEF Masses
    <3>. QED BY <2>2, <3>1, WeightIsNat, Zenon
  <2>4. y * Scale >= frac * z /\ x * Scale < frac * z
    BY <2>1, <2>2, Zenon DEF Drawn
  <2>5. ASSUME v = 0 PROVE FALSE
    <3>1. y = x
      BY <2>3, <2>5
    <3>2. PICK p \in Int, q \in Int : p = x * Scale /\ q = frac * z
      BY <2>3 DEF SamplerAssumption
    <3>3. p >= q /\ p < q
      BY <2>4, <3>1, <3>2
    <3>. QED BY <3>2, <3>3
  <2>. QED BY <2>2, <2>3, <2>5
<1>. QED BY <1>3, <1>4

LEMMA DrawnIsNucleus ==
    ASSUME SamplerAssumption, IInv, OrderInv, pc = "draw",
           NEW n \in 1..K, NumCand(n), NEW frac \in 0..Scale-1,
           NEW a \in 1..n, Drawn(a, n, frac)
    PROVE  Nucleus(order[a])
<1>. PICK t : t = order[a]
  OBVIOUS
<1>0. PICK k \in Nat : k = K
  BY DrawTypes
<1>1. Masses /\ n \in 1..k /\ a \in 1..k /\ a - 1 \in 0..k
  BY <1>0, MassFacts
<1>2. WeightOf(t) > 0
  BY DrawnWeighs
<1>3. Better(t) \in SUBSET Cand(a - 1)
  BY <1>0, <1>1, BetterAreBefore
<1>4. Cardinality(Better(t)) < K
  <2>1. PICK m \in Nat : m = a - 1
    BY <1>1
  <2>2. PICK f : f = [b \in 1..m |-> order[b]]
    OBVIOUS
  <2>3. f \in Surjection(1..m, Cand(m))
    <3>1. f \in [1..m -> Cand(m)] /\ \A u \in Cand(m) : \E b \in 1..m : f[b] = u
      BY <2>2 DEF Cand
    <3>. QED BY <3>1, Zenon DEF Surjection
  <2>4. IsFiniteSet(1..m) /\ Cardinality(1..m) = m
    <3>1. IsFiniteSet(1..m) /\ Cardinality(1..m) = (IF 1 > m THEN 0 ELSE m - 1 + 1)
      BY FS_Interval
    <3>. QED BY <3>1
  <2>5. IsFiniteSet(Cand(m)) /\ Cardinality(Cand(m)) <= m
    <3>1. IsFiniteSet(Cand(m)) /\ Cardinality(Cand(m)) <= Cardinality(1..m)
      BY <2>3, <2>4, FS_Surjection, Zenon
    <3>. QED BY <2>4, <3>1
  <2>6. Better(t) \in SUBSET Cand(m)
    BY <1>3, <2>1
  <2>7. IsFiniteSet(Better(t)) /\ Cardinality(Better(t)) <= Cardinality(Cand(m))
    BY <2>5, <2>6, FS_Subset, Zenon
  <2>8. Cardinality(Better(t)) \in Nat /\ Cardinality(Cand(m)) \in Nat
    BY <2>5, <2>7, FS_CardinalityType, Zenon
  <2>. QED BY <1>0, <1>1, <2>1, <2>5, <2>7, <2>8
<1>5. ASSUME opt.top_p < Scale, Better(t) # {}
      PROVE  Sum(Better(t)) * Scale < opt.top_p * Sum(Kept)
  <2>1. a - 1 \in 1..n-1
    <3>1. a - 1 # 0
      <4>1. ASSUME a - 1 = 0 PROVE Cand(a - 1) = {}
        <5>1. 1..(a - 1) = {}
          BY <4>1
        <5>. QED BY <5>1 DEF Cand
      <4>. QED BY <1>3, <1>5, <4>1
    <3>. QED BY <1>1, <3>1
  <2>2. ~Reaches(a - 1)
    BY <1>5, <2>1, Zenon DEF NumCand
  <2>3. PICK x, y, z : x = Sum(Better(t)) /\ y = Mass(a - 1) /\ z = opt.top_p * Mass(K)
    OBVIOUS
  <2>4. x \in Nat /\ y \in Nat /\ x <= y /\ z = opt.top_p * Sum(Kept)
    BY <1>0, <1>1, <1>3, <2>3, Zenon DEF Masses
  <2>5. z \in Int /\ Scale \in Nat
    <3>1. opt.top_p \in Int
      <4>1. <<opt, tokens>> \in Options \X Seq(Nat)
        BY DEF IInv, TypeOK, SamplerAssumption
      <4>. QED BY <4>1 DEF Options
    <3>2. Mass(K) \in Nat
      <4>1. k \in 0..k
        OBVIOUS
      <4>. QED BY <1>0, <1>1, <4>1, Zenon DEF Masses
    <3>. QED BY <2>3, <3>1, <3>2 DEF SamplerAssumption
  <2>6. ~(y * Scale >= z)
    BY <2>2, <2>3, Zenon DEF Reaches
  <2>7. y * Scale < z
    BY <2>4, <2>5, <2>6
  <2>8. x * Scale < z
    BY <2>4, <2>5, <2>7, Accumulated, Zenon
  <2>. QED BY <2>3, <2>4, <2>8, Zenon
<1>6. opt.top_p \in Int /\ Scale \in Int
  <2>1. <<opt, tokens>> \in Options \X Seq(Nat)
    BY DEF IInv, TypeOK, SamplerAssumption
  <2>. QED BY <2>1 DEF Options, SamplerAssumption
<1>7. opt.top_p >= Scale \/ opt.top_p < Scale
  BY <1>6
<1>. QED BY <1>2, <1>4, <1>5, <1>7, Zenon DEF Nucleus

LEMMA NucleusStays ==
    ASSUME UNCHANGED <<opt, logits, heap, size, order>>, NEW t, Nucleus(t)
    PROVE  Nucleus(t)'
<1>1. \A u : WeightOf(u)' = WeightOf(u)
  BY DEF WeightOf
<1>2. \A S : Sum(S)' = Sum(S)
  BY Zenon DEF Sum, Sets!MapThenSumSet, Sets!MapThenFoldSet, WeightOf
<1>3. Better(t)' = Better(t) /\ Kept' = Kept /\ K' = K
  BY DEF Better, Kept, K, TopK
<1>. QED BY <1>1, <1>2, <1>3, Zenon DEF Nucleus

(* Whatever the weights, the options and the random number: a drawn token  *)
(* has a weight, and the tokens better than it do not reach top_p of the K *)
(* best alone (sampler.c:118-161).                                         *)
THEOREM DrawsFromNucleus == Spec => []DrawnFromNucleus
<1>. DEFINE Drew == pc = "done" /\ ~(opt.greedy \/ TopK = 1) => Nucleus(selected)
<1>1. Init => Drew
  BY DEF Init
<1>2. IInv /\ OrderInv /\ ArgmaxChosen /\ Drew /\ [Next]_vars => Drew'
  <2>. SUFFICES ASSUME IInv, OrderInv, ArgmaxChosen, Drew, [Next]_vars,
                       pc' = "done", ~(opt.greedy \/ TopK = 1)'
                PROVE  Nucleus(selected)'
    OBVIOUS
  <2>1. CASE Draw
    <3>1. PICK n \in 1..K, frac \in 0..Scale-1 :
            NumCand(n) /\ \E a \in 1..n : Drawn(a, n, frac) /\ selected' = order[a]
      BY <2>1 DEF Draw
    <3>2. PICK a \in 1..n : Drawn(a, n, frac) /\ selected' = order[a]
      BY <3>1
    <3>3. pc = "draw" /\ UNCHANGED <<opt, logits, heap, size, order>>
      BY <2>1 DEF Draw
    <3>4. PICK t : t = order[a]
      OBVIOUS
    <3>5. Nucleus(t)
      BY <3>1, <3>2, <3>3, <3>4, SamplerAssumption, DrawnIsNucleus, Zenon
    <3>6. Nucleus(t)'
      BY <3>3, <3>5, NucleusStays, Zenon
    <3>. QED BY <3>2, <3>4, <3>6, Zenon
  <2>2. CASE UNCHANGED vars
    <3>1. pc = "done" /\ ~(opt.greedy \/ TopK = 1)
      BY <2>2 DEF vars, TopK
    <3>2. PICK t : t = selected
      OBVIOUS
    <3>3. Nucleus(t) /\ UNCHANGED <<opt, logits, heap, size, order>> /\ selected' = t
      BY <2>2, <3>1, <3>2 DEF vars
    <3>4. Nucleus(t)'
      BY <3>3, NucleusStays, Zenon
    <3>. QED BY <3>3, <3>4, Zenon
  <2>3. CASE ArgmaxNext \/ ArgmaxEnds
    BY <2>3 DEF ArgmaxNext, ArgmaxEnds, ArgmaxChosen, TopK
  <2>4. CASE PenaliseOne \/ PenaltyDone \/ Append1 \/ SiftUp \/ SiftUpEnds \/ Replace \/ Discard
    BY <2>4 DEF PenaliseOne, PenaltyDone, Append1, SiftUp, SiftUpEnds, Replace, Discard
  <2>5. CASE SiftDown \/ SiftDownEnds \/ Sort \/ SortEnds
    BY <2>5 DEF SiftDown, SiftDownEnds, Sort, SortEnds
  <2>. QED BY <2>1, <2>2, <2>3, <2>4, <2>5 DEF Next, Step, Done
<1>3. Drew => DrawnFromNucleus
  BY Zenon DEF DrawnFromNucleus, Nucleus
<1>4. IInv /\ OrderInv /\ [Next]_vars => OrderInv'
  BY StepOrder, SamplerAssumption
<1>5. ArgmaxChosen /\ [Next]_vars => ArgmaxChosen'
  BY StepArgmax
<1>6. Init => OrderInv /\ ArgmaxChosen
  BY InitOrder
<1>. HIDE DEF Drew
<1>. QED BY <1>1, <1>2, <1>3, <1>4, <1>5, <1>6, Invariance, PTL DEF Spec
=============================================================================
