-------------------------- MODULE HashTableProofs ---------------------------
(***************************************************************************)
(* For any size of the table, any hash function and any names, what a      *)
(* probing loop ends with is what Probing states in one step.              *)
(***************************************************************************)
EXTENDS HashTable, TLAPS

(* Every variable has its type. *)
TypeInv ==
    /\ pc \in {"ready", "insert", "find"}
    /\ hash \in [Names -> Hashes]
    /\ names \in Seq(Names)
    /\ table \in [Hashes -> 1..Len(names) \cup {None}]
    /\ h \in Hashes

(* The search that began at the slot `from' has come to h, and no slot that *)
(* it has left behind since would have ended it.                           *)
Passed(from, ids) ==
    \E k \in 0..Slots-1 :
        /\ h = Slot(from, k)
        /\ \A j \in 0..k-1 : table[Slot(from, j)] \notin ids \cup {None}

IInv ==
    /\ TypeInv
    /\ pc = "insert" => Len(names) \in 1..Len(names) /\ Passed(hash[names[Len(names)]], {})
    /\ pc = "find" => wanted \in Names /\ Passed(hash[wanted], Ids(wanted))

-----------------------------------------------------------------------------
LEMMA SlotType ==
    ASSUME NEW x \in Hashes, NEW k \in 0..Slots-1
    PROVE  Slot(x, k) \in Hashes
BY HashTableAssumption DEF Hashes, Slot

LEMMA SlotFirst ==
    ASSUME NEW x \in Hashes
    PROVE  0 \in 0..Slots-1 /\ Slot(x, 0) = x
BY HashTableAssumption DEF Hashes, Slot

(* The slot after the k-th of a search is the next one of it, or, after the *)
(* last, the first again.                                                  *)
LEMMA SlotNext ==
    ASSUME NEW x \in Hashes, NEW k \in 0..Slots-1
    PROVE  /\ k + 1 \in 0..Slots-1 => NextSlot(Slot(x, k)) = Slot(x, k + 1)
           /\ k + 1 \notin 0..Slots-1 => NextSlot(Slot(x, k)) = Slot(x, 0)
           /\ NextSlot(Slot(x, k)) \in Hashes
BY HashTableAssumption DEF Hashes, Slot, NextSlot

LEMMA FirstIs ==
    ASSUME NEW S \in SUBSET Nat, NEW k \in S, \A j \in S : k <= j
    PROVE  First(S) = k
<1>1. \A x \in S : (\A y \in S : x <= y) => x = k
  <2> SUFFICES ASSUME NEW x \in S, \A y \in S : x <= y PROVE x = k
    OBVIOUS
  <2>1. x <= k /\ k <= x /\ x \in Nat /\ k \in Nat
    OBVIOUS
  <2> QED BY <2>1
<1> QED BY <1>1 DEF First

(* Where a search that has passed by what does not end it does end, is its *)
(* probe.                                                                  *)
LEMMA ProbeIs ==
    ASSUME NEW from \in Hashes, NEW ids, Passed(from, ids), table[h] \in ids \cup {None}
    PROVE  Probe(table, from, ids) = h
<1>1. PICK k \in 0..Slots-1 :
          /\ h = Slot(from, k)
          /\ \A j \in 0..k-1 : table[Slot(from, j)] \notin ids \cup {None}
  BY DEF Passed
<1> DEFINE E == Ends(table, from, ids)
<1>2. k \in E
  BY <1>1 DEF Ends
<1>3. E \in SUBSET Nat
  BY HashTableAssumption DEF Ends
<1>4. \A j \in E : k <= j
  <2> SUFFICES ASSUME NEW j \in 0..Slots-1, j < k PROVE j \notin E
    BY HashTableAssumption DEF Ends
  <2>1. j \in 0..k-1
    BY HashTableAssumption
  <2> QED BY <1>1, <2>1 DEF Ends
<1>5. First(E) = k
  BY <1>2, <1>3, <1>4, FirstIs
<1> QED BY <1>1, <1>5 DEF Probe

(* A search that begins has passed nothing. *)
LEMMA PassedFirst ==
    ASSUME HashTableAssumption, NEW from \in Hashes, NEW ids, NEW t
    PROVE  \E k \in 0..Slots-1 : /\ from = Slot(from, k)
                                 /\ \A j \in 0..k-1 : t[Slot(from, j)] \notin ids \cup {None}
<1>1. 0 \in 0..Slots-1 /\ Slot(from, 0) = from
  BY SlotFirst
<1>2. \A j \in 0..0-1 : t[Slot(from, j)] \notin ids \cup {None}
  OBVIOUS
<1> QED BY <1>1, <1>2

(* A search that goes on has passed one slot more, or begins again. *)
LEMMA PassedNext ==
    ASSUME NEW from \in Hashes, NEW ids, Passed(from, ids), table[h] \notin ids \cup {None}
    PROVE  /\ NextSlot(h) \in Hashes
           /\ \E k \in 0..Slots-1 :
                 /\ NextSlot(h) = Slot(from, k)
                 /\ \A j \in 0..k-1 : table[Slot(from, j)] \notin ids \cup {None}
<1>1. PICK k \in 0..Slots-1 :
          /\ h = Slot(from, k)
          /\ \A j \in 0..k-1 : table[Slot(from, j)] \notin ids \cup {None}
  BY DEF Passed
<1>2. NextSlot(h) \in Hashes
  BY <1>1, SlotNext
<1>3. CASE k + 1 \in 0..Slots-1
  <2>1. NextSlot(h) = Slot(from, k + 1)
    BY <1>1, <1>3, SlotNext
  <2>2. \A j \in 0..(k + 1)-1 : j = k \/ j \in 0..k-1
    OBVIOUS
  <2>3. \A j \in 0..(k + 1)-1 : table[Slot(from, j)] \notin ids \cup {None}
    BY <1>1, <2>2
  <2> QED BY <1>2, <1>3, <2>1, <2>3
<1>4. CASE k + 1 \notin 0..Slots-1
  <2>1. NextSlot(h) = Slot(from, 0) /\ 0 \in 0..Slots-1
    BY <1>1, <1>4, SlotNext, SlotFirst
  <2>2. \A j \in 0..0-1 : table[Slot(from, j)] \notin ids \cup {None}
    OBVIOUS
  <2> QED BY <1>2, <2>1, <2>2
<1> QED BY <1>3, <1>4

-----------------------------------------------------------------------------
LEMMA InitIInv == Init => IInv
BY HashTableAssumption DEF Init, IInv, TypeInv, Hashes

LEMMA StepIInv == IInv /\ [Next]_vars => IInv'
<1> SUFFICES ASSUME IInv, [Next]_vars PROVE IInv'
  OBVIOUS
<1> USE DEF IInv, TypeInv
<1>1. CASE CallInsert
  <2>1. PICK name \in Names : names' = Append(names, name) /\ h' = hash[name]
    BY <1>1 DEF CallInsert
  <2>2. /\ names' \in Seq(Names) /\ Len(names') = Len(names) + 1
        /\ names'[Len(names')] = name /\ Len(names') \in 1..Len(names')
    BY <2>1
  <2>3. table' = table /\ hash' = hash /\ pc' = "insert" /\ h' \in Hashes
    BY <1>1, <2>1 DEF CallInsert
  <2>4. table' \in [Hashes -> 1..Len(names') \cup {None}]
    BY <2>2, <2>3
  <2>5. Passed(hash[name], {})'
    BY <2>1, <2>3, PassedFirst, HashTableAssumption DEF Passed
  <2> QED BY <2>2, <2>3, <2>4, <2>5
<1>2. CASE InsertNext
  <2>1. hash[names[Len(names)]] \in Hashes
    BY <1>2 DEF InsertNext
  <2>2. table[h] \notin {} \cup {None}
    BY <1>2 DEF InsertNext
  <2>3. /\ h' \in Hashes
        /\ \E k \in 0..Slots-1 :
              /\ h' = Slot(hash[names[Len(names)]], k)
              /\ \A j \in 0..k-1 : table[Slot(hash[names[Len(names)]], j)] \notin {} \cup {None}
    BY <1>2, <2>1, <2>2, PassedNext DEF InsertNext
  <2>4. Passed(hash[names[Len(names)]], {})'
    BY <1>2, <2>3 DEF InsertNext, store, Passed
  <2> QED BY <1>2, <2>3, <2>4 DEF InsertNext, store
<1>3. CASE InsertHere
  BY <1>3 DEF InsertHere, search
<1>4. CASE CallFind
  <2>1. wanted' \in Names /\ h' = hash[wanted'] /\ h' \in Hashes
    BY <1>4 DEF CallFind
  <2>2. PICK ids : ids = Ids(wanted)'
    OBVIOUS
  <2>3. \E k \in 0..Slots-1 :
           /\ h' = Slot(h', k)
           /\ \A j \in 0..k-1 : table[Slot(h', j)] \notin ids \cup {None}
    BY <2>1, PassedFirst, HashTableAssumption
  <2>4. Passed(hash[wanted], Ids(wanted))'
    BY <1>4, <2>1, <2>2, <2>3 DEF CallFind, store, Passed
  <2> QED BY <1>4, <2>1, <2>4 DEF CallFind, store
<1>5. CASE FindNext
  <2>1. hash[wanted] \in Hashes
    BY <1>5 DEF FindNext
  <2>2. table[h] \notin Ids(wanted) \cup {None}
    BY <1>5 DEF FindNext, IsWanted, Ids
  <2>3. /\ h' \in Hashes
        /\ \E k \in 0..Slots-1 :
              /\ h' = Slot(hash[wanted], k)
              /\ \A j \in 0..k-1 : table[Slot(hash[wanted], j)] \notin Ids(wanted) \cup {None}
    BY <1>5, <2>1, <2>2, PassedNext DEF FindNext
  <2>4. Passed(hash[wanted], Ids(wanted))'
    BY <1>5, <2>3 DEF FindNext, store, Passed, Ids
  <2> QED BY <1>5, <2>3, <2>4 DEF FindNext, store
<1>6. CASE FindEnds
  BY <1>6 DEF FindEnds, store
<1>7. CASE UNCHANGED vars
  BY <1>7 DEF vars, store, search, Passed, Ids
<1> QED BY <1>1, <1>2, <1>3, <1>4, <1>5, <1>6, <1>7 DEF Next, Round

(* The inductive invariant: the slots that a search has left behind since  *)
(* it was last at its hash are neither empty nor hold what it wants.       *)
THEOREM Invariance == Spec => []IInv
<1>1. Init => IInv
  BY InitIInv
<1>2. IInv /\ [Next]_vars => IInv'
  BY StepIInv
<1> QED BY <1>1, <1>2, PTL DEF Spec

(* A find that ends has the first entry of its name, or none if an empty   *)
(* slot comes first; an insertion fills the first empty slot: the loops    *)
(* are the one step in which Tokenizer takes them, for any size of the     *)
(* table, hash function and names (tokenizer.c:62-99).                     *)
THEOREM LoopsAreProbes == Spec => SearchIsProbe
<1> DEFINE A == /\ pc = "find" /\ pc' = "ready" =>
                      result' = table[Probe(table, hash[wanted], Ids(wanted))]
                /\ pc = "insert" /\ pc' = "ready" =>
                      table' = Inserted(table, hash[names[Len(names)]], Len(names))
<1>1. IInv /\ [Next]_vars => [A]_vars
  <2> SUFFICES ASSUME IInv, Next PROVE A
    OBVIOUS
  <2>1. ASSUME pc = "find", pc' = "ready"
        PROVE  result' = table[Probe(table, hash[wanted], Ids(wanted))]
    <3>1. FindEnds
      BY <2>1 DEF Next, Round, CallInsert, InsertNext, InsertHere, CallFind, FindNext
    <3>2. hash[wanted] \in Hashes /\ Passed(hash[wanted], Ids(wanted))
      BY <2>1 DEF IInv, TypeInv
    <3>3. table[h] \in Ids(wanted) \cup {None}
      BY <3>1 DEF FindEnds, IsWanted, Ids, IInv, TypeInv
    <3>4. Probe(table, hash[wanted], Ids(wanted)) = h
      BY <3>2, <3>3, ProbeIs
    <3> QED BY <3>1, <3>4 DEF FindEnds
  <2>2. ASSUME pc = "insert", pc' = "ready"
        PROVE  table' = Inserted(table, hash[names[Len(names)]], Len(names))
    <3>1. InsertHere
      BY <2>2 DEF Next, Round, CallInsert, InsertNext, FindEnds, CallFind, FindNext
    <3>2. hash[names[Len(names)]] \in Hashes /\ Passed(hash[names[Len(names)]], {})
      BY <2>2 DEF IInv, TypeInv
    <3>3. table[h] \in {} \cup {None}
      BY <3>1 DEF InsertHere
    <3>4. Probe(table, hash[names[Len(names)]], {}) = h
      BY <3>2, <3>3, ProbeIs
    <3> QED BY <3>1, <3>4 DEF InsertHere, Inserted
  <2> QED BY <2>1, <2>2
<1>2. Spec => []IInv
  BY Invariance
<1>3. SearchIsProbe <=> [][A]_vars
  BY DEF SearchIsProbe
<1> QED BY <1>1, <1>2, <1>3, PTL DEF Spec
=============================================================================
