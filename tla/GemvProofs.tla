----------------------------- MODULE GemvProofs -----------------------------
(***************************************************************************)
(* Products on the pool.  For any number of threads and any sizes, the     *)
(* parts that WorkSplit gives to the threads cover each row of each matrix *)
(* once; with the pool's promise that each thread executes each call once  *)
(* (ThreadPoolProofs), every product is complete when its call returns.    *)
(***************************************************************************)
EXTENDS Gemv, ThreadPoolProofs

-----------------------------------------------------------------------------
(* The split of the rows.                                                  *)

LEMMA CancelFactor ==
    ASSUME NEW a \in Int, NEW b \in Int, NEW c \in Nat \ {0}, c * a < c * b
    PROVE  a < b
<1>1. CASE b <= a
  <2>1. c * b <= c * a
    BY <1>1
  <2>. QED BY <2>1
<1>. QED BY <1>1

LEMMA ScaleFactor ==
    ASSUME NEW a \in Int, NEW b \in Int, NEW c \in Nat, a <= b
    PROVE  c * a <= c * b
OBVIOUS

LEMMA DivBounds ==
    ASSUME NEW x \in Nat, NEW n \in Nat \ {0}
    PROVE  /\ x \div n \in Nat
           /\ n * (x \div n) <= x
           /\ x < n * ((x \div n) + 1)
OBVIOUS

(* Where a part begins, without the division. *)
LEMMA BoundFacts ==
    ASSUME NEW total \in Nat, NEW n \in Nat \ {0}, NEW t \in Nat
    PROVE  /\ Bound(total, t, n) \in Nat
           /\ n * Bound(total, t, n) <= total * t
           /\ total * t < n * (Bound(total, t, n) + 1)
<1>1. total * t \in Nat
  OBVIOUS
<1>. QED BY <1>1, DivBounds DEF Bound

LEMMA BoundMonotone ==
    ASSUME NEW total \in Nat, NEW n \in Nat \ {0}, NEW t \in Nat, NEW u \in Nat, t <= u
    PROVE  Bound(total, t, n) <= Bound(total, u, n)
<1>. DEFINE a == Bound(total, t, n)
            b == Bound(total, u, n)
<1>1. a \in Nat /\ n * a <= total * t
  BY BoundFacts
<1>2. b \in Nat /\ total * u < n * (b + 1)
  BY BoundFacts
<1>3. total * t <= total * u
  BY ScaleFactor
<1>4. total * t \in Int /\ total * u \in Int
  OBVIOUS
<1>5. b + 1 \in Int /\ n * a \in Int /\ n * (b + 1) \in Int
  BY <1>1, <1>2
<1>. HIDE DEF a, b
<1>6. n * a < n * (b + 1)
  BY <1>1, <1>2, <1>3, <1>4, <1>5
<1>7. a < b + 1
  BY <1>1, <1>5, <1>6, CancelFactor
<1>. QED BY <1>1, <1>2, <1>7 DEF a, b

(* The first part begins with the first row, the last ends with the last. *)
LEMMA BoundEnds ==
    ASSUME NEW total \in Nat, NEW n \in Nat \ {0}
    PROVE  Bound(total, 0, n) = 0 /\ Bound(total, n, n) = total
<1>1. Bound(total, 0, n) = 0
  BY DEF Bound
<1>. DEFINE b == Bound(total, n, n)
<1>2. b \in Nat /\ n * b <= total * n /\ total * n < n * (b + 1)
  BY BoundFacts
<1>3. total * n = n * total /\ total * n \in Int /\ n * b \in Int
  BY <1>2
<1>4. n * total < n * (b + 1)
  BY <1>2, <1>3
<1>5. n * b < n * (total + 1)
  <2>1. n * (total + 1) = n * total + n
    OBVIOUS
  <2>. HIDE DEF b
  <2>. QED BY <1>2, <1>3, <2>1
<1>. HIDE DEF b
<1>6. total < b + 1 /\ b < total + 1
  BY <1>2, <1>4, <1>5, CancelFactor
<1>. QED BY <1>1, <1>2, <1>6 DEF b

(* The part of thread t, as global rows. *)
Part(total, t, n) == Bound(total, t, n) .. Bound(total, t + 1, n) - 1

LEMMA PartWithin ==
    ASSUME NEW total \in Nat, NEW n \in Nat \ {0}, NEW t \in 0..n-1
    PROVE  Part(total, t, n) \subseteq 0..total-1
<1>0. t \in Nat /\ t + 1 \in Nat /\ n \in Nat /\ t + 1 <= n
  OBVIOUS
<1>1. Bound(total, t, n) \in Nat /\ Bound(total, t + 1, n) \in Nat
  BY <1>0, BoundFacts
<1>2. Bound(total, t + 1, n) <= total
  BY <1>0, BoundMonotone, BoundEnds
<1>. QED BY <1>1, <1>2 DEF Part

LEMMA PartsDisjoint ==
    ASSUME NEW total \in Nat, NEW n \in Nat \ {0}, NEW t \in 0..n-1, NEW u \in 0..n-1,
           NEW g \in Part(total, t, n), g \in Part(total, u, n)
    PROVE  t = u
<1>1. ASSUME NEW v \in 0..n-1, NEW w \in 0..n-1, v < w,
             g \in Part(total, v, n), g \in Part(total, w, n)
      PROVE  FALSE
  <2>1. Bound(total, v + 1, n) <= Bound(total, w, n)
    BY <1>1, BoundMonotone
  <2>2. Bound(total, v + 1, n) \in Nat /\ Bound(total, w, n) \in Nat
    <3>1. v + 1 \in Nat /\ w \in Nat
      BY <1>1
    <3>. QED BY <3>1, BoundFacts
  <2>. QED BY <1>1, <2>1, <2>2 DEF Part
<1>. QED BY <1>1

(* The thread that has global row g: the one whose part ends first beyond. *)
LEMMA PartsCover ==
    ASSUME NEW total \in Nat, NEW n \in Nat \ {0}, NEW g \in 0..total-1
    PROVE  \E t \in 0..n-1 : g \in Part(total, t, n)
<1>. DEFINE x == (g + 1) * n - 1
            t == x \div total
<1>0. total \in Nat \ {0} /\ g \in Nat
  OBVIOUS
<1>1. x \in Nat /\ (g + 1) * n = x + 1
  <2>1. (g + 1) * n >= n
    BY <1>0
  <2>. QED BY <2>1, <1>0
<1>2. t \in Nat /\ total * t <= x /\ x < total * (t + 1)
  BY <1>0, <1>1, DivBounds
<1>3. t + 1 \in Nat /\ total * t \in Nat /\ total * (t + 1) \in Nat /\ (g + 1) * n = n * (g + 1)
  BY <1>0, <1>2
<1>. HIDE DEF t, x
<1>4. t < n
  <2>1. n * (g + 1) <= n * total
    BY <1>0, ScaleFactor
  <2>2. n * total = total * n /\ n * total \in Int /\ n * (g + 1) \in Int
    BY <1>0
  <2>3. total * t < total * n
    BY <1>1, <1>2, <1>3, <2>1, <2>2
  <2>. QED BY <1>0, <1>2, <2>3, CancelFactor
<1>5. Bound(total, t, n) <= g
  <2>. DEFINE a == Bound(total, t, n)
  <2>1. a \in Nat /\ n * a <= total * t
    BY <1>2, BoundFacts
  <2>. HIDE DEF a
  <2>2. n * a < n * (g + 1)
    BY <1>0, <1>1, <1>2, <1>3, <2>1
  <2>3. a < g + 1
    BY <1>0, <2>1, <2>2, CancelFactor
  <2>. QED BY <1>0, <2>1, <2>3 DEF a
<1>6. g < Bound(total, t + 1, n)
  <2>. DEFINE b == Bound(total, t + 1, n)
  <2>1. b \in Nat /\ total * (t + 1) < n * (b + 1)
    BY <1>3, BoundFacts
  <2>. HIDE DEF b
  <2>2. n * (g + 1) < n * (b + 1)
    BY <1>0, <1>1, <1>2, <1>3, <2>1
  <2>3. g + 1 < b + 1
    BY <1>0, <2>1, <2>2, CancelFactor
  <2>. QED BY <1>0, <2>1, <2>3 DEF b
<1>7. Bound(total, t, n) \in Nat /\ Bound(total, t + 1, n) \in Nat
  BY <1>2, <1>3, BoundFacts
<1>8. g \in Part(total, t, n)
  BY <1>0, <1>5, <1>6, <1>7 DEF Part
<1>. QED BY <1>2, <1>4, <1>8

-----------------------------------------------------------------------------

LEMMA JobFacts ==
    ASSUME NEW job, IsJob(job), NEW k \in Matrices(job)
    PROVE  /\ job[k] \in Nat
           /\ NRows(job, k) \in Nat /\ job[k + 1] = job[k] + NRows(job, k)
           /\ Total(job) \in Nat /\ job[k] + NRows(job, k) <= Total(job)
<1>1. job \in Seq(Nat) /\ Len(job) \in Nat /\ k \in 1..Len(job) /\ k + 1 \in 1..Len(job)
  BY DEF IsJob, Matrices
<1>2. job[k] \in Nat /\ job[k + 1] \in Nat /\ job[Len(job)] \in Nat
  BY <1>1
<1>3. job[k] <= job[k + 1] /\ job[k + 1] <= job[Len(job)]
  BY <1>1 DEF IsJob
<1>. QED BY <1>2, <1>3 DEF NRows, Total

(* What a thread computes of a matrix is its part of the global rows.      *)
LEMMA PartOfIsPart ==
    ASSUME NEW job, IsJob(job), NEW k \in Matrices(job),
           NEW n \in Nat \ {0}, NEW t \in 0..n-1, NEW r
    PROVE  r \in PartOf(job, k, t, n)
              <=> /\ r \in Rows(job, k)
                  /\ job[k] + r \in Part(Total(job), t, n)
<1>. DEFINE g0 == Bound(Total(job), t, n)
            g1 == Bound(Total(job), t + 1, n)
            m  == NRows(job, k)
<1>1. /\ job[k] \in Nat /\ m \in Nat /\ Total(job) \in Nat
      /\ job[k] + m <= Total(job)
  BY JobFacts
<1>2. t \in Nat /\ t + 1 \in Nat
  OBVIOUS
<1>3. g0 \in Nat /\ g1 \in Nat
  BY <1>1, <1>2, BoundFacts
<1>4. CASE Len(job) = 2
  <2>1. k = 1 /\ job[k] = 0 /\ Total(job) = m /\ m = NRows(job, 1)
    BY <1>1, <1>4 DEF IsJob, Matrices, Total, NRows
  <2>2. PartOf(job, k, t, n) = Part(Total(job), t, n)
    BY <1>4, <2>1 DEF PartOf, GemvRows, Part
  <2>3. Part(Total(job), t, n) \subseteq 0..Total(job)-1
    BY <1>1, PartWithin
  <2>. QED BY <1>1, <2>1, <2>2, <2>3 DEF Rows
<1>5. CASE Len(job) # 2
  <2>1. PartOf(job, k, t, n) = MultiRows(job, k, t, n)
    BY <1>5 DEF PartOf
  <2>2. MultiRows(job, k, t, n) =
            IF g1 > job[k]
            THEN (IF g0 > job[k] THEN g0 - job[k] ELSE 0) ..
                 (IF g1 - job[k] < m THEN g1 - job[k] ELSE m) - 1
            ELSE {}
    BY DEF MultiRows
  <2>3. Part(Total(job), t, n) = g0 .. g1 - 1 /\ Rows(job, k) = 0 .. m - 1
    BY DEF Part, Rows
  <2>. HIDE DEF g0, g1, m
  <2>4. PartOf(job, k, t, n) \subseteq Rows(job, k)
    BY <1>1, <1>3, <2>1, <2>2, <2>3, SMTT(40)
  <2>. DEFINE a == job[k]
  <2>5. ASSUME r \in 0 .. m - 1
        PROVE  r \in PartOf(job, k, t, n) <=> g0 <= a + r /\ a + r < g1
    <3>1. a \in Nat /\ r \in Nat /\ r <= m - 1
      BY <1>1, <2>5
    <3>2. CASE g1 > a
      <4>1. PartOf(job, k, t, n) = (IF g0 > a THEN g0 - a ELSE 0) ..
                                   (IF g1 - a < m THEN g1 - a ELSE m) - 1
        BY <2>1, <2>2, <3>2
      <4>. HIDE DEF a
      <4>. QED BY <1>1, <1>3, <3>1, <3>2, <4>1
    <3>3. CASE ~(g1 > a)
      <4>1. PartOf(job, k, t, n) = {}
        BY <2>1, <2>2, <3>3
      <4>. HIDE DEF a
      <4>. QED BY <1>3, <3>1, <3>3, <4>1
    <3>. QED BY <3>2, <3>3
  <2>6. ASSUME r \in 0 .. m - 1
        PROVE  a + r \in Part(Total(job), t, n) <=> g0 <= a + r /\ a + r < g1
    <3>1. a + r \in Int
      BY <1>1, <2>6
    <3>. HIDE DEF a
    <3>. QED BY <1>3, <2>3, <3>1
  <2>. QED BY <2>3, <2>4, <2>5, <2>6
<1>. QED BY <1>4, <1>5

(* Every row of every matrix of every job falls to one thread of n, and no *)
(* thread goes past the end of a matrix (kernels.c:608-681).               *)
THEOREM RowsSplit ==
    ASSUME NEW job, IsJob(job), NEW k \in Matrices(job), NEW n \in Nat \ {0}
    PROVE  /\ \A t \in 0..n-1 : PartOf(job, k, t, n) \subseteq Rows(job, k)
           /\ \A r \in Rows(job, k) :
                  \E t \in 0..n-1 : \A u \in 0..n-1 : r \in PartOf(job, k, u, n) <=> u = t
<1>1. \A t \in 0..n-1 : PartOf(job, k, t, n) \subseteq Rows(job, k)
  BY PartOfIsPart
<1>2. ASSUME NEW r \in Rows(job, k)
      PROVE  \E t \in 0..n-1 : \A u \in 0..n-1 : r \in PartOf(job, k, u, n) <=> u = t
  <2>1. Total(job) \in Nat /\ job[k] + r \in 0..Total(job)-1
    BY JobFacts DEF Rows
  <2>2. PICK t \in 0..n-1 : job[k] + r \in Part(Total(job), t, n)
    BY <2>1, PartsCover
  <2>3. ASSUME NEW u \in 0..n-1
        PROVE  r \in PartOf(job, k, u, n) <=> u = t
    BY <2>1, <2>2, PartOfIsPart, PartsDisjoint
  <2>. QED BY <2>3
<1>. QED BY <1>1, <1>2

-----------------------------------------------------------------------------
(* The products.                                                           *)

LEMMA CompleteCallsCompleteProducts ==
    ASSUME PoolAssumption, JobsAssumption, TypeOK, CallsComplete
    PROVE  ProductsComplete
<1>. SUFFICES ASSUME pc[0] = "idle",
                     NEW c \in 1..call, NEW job \in Jobs, NEW k \in Matrices(job)
              PROVE  /\ \A r \in Rows(job, k) :
                            \E e \in Computations(c, job, k, r) :
                                Computations(c, job, k, r) = {e}
                     /\ \A t \in Threads : PartOf(job, k, t, N) \subseteq Rows(job, k)
  BY DEF ProductsComplete
<1>1. N \in Nat \ {0} /\ Threads = 0..N-1 /\ IsJob(job) /\ call \in Nat
  BY DEF PoolAssumption, JobsAssumption, TypeOK, Threads
<1>2. \A t \in Threads : ran[t] = [i \in 1..call |-> i]
  BY DEF CallsComplete
<1>3. \A t \in Threads : PartOf(job, k, t, N) \subseteq Rows(job, k)
  BY <1>1, RowsSplit
<1>4. ASSUME NEW r \in Rows(job, k)
      PROVE  \E e \in Computations(c, job, k, r) : Computations(c, job, k, r) = {e}
  <2>0. \E t \in 0..N-1 : \A u \in 0..N-1 : r \in PartOf(job, k, u, N) <=> u = t
    <3>1. N \in Nat \ {0} /\ IsJob(job)
      BY <1>1
    <3>2. \A q \in Rows(job, k) :
              \E t \in 0..N-1 : \A u \in 0..N-1 : q \in PartOf(job, k, u, N) <=> u = t
      BY <3>1, RowsSplit
    <3>. QED BY <1>4, <3>2
  <2>1. PICK t \in Threads : \A u \in Threads : r \in PartOf(job, k, u, N) <=> u = t
    BY <1>1, <2>0
  <2>2. c \in DOMAIN ran[t] /\ ran[t][c] = c
    <3>1. ran[t] = [i \in 1..call |-> i]
      BY <1>2
    <3>. QED BY <3>1
  <2>3. <<t, c>> \in Computations(c, job, k, r)
    BY <2>1, <2>2 DEF Computations
  <2>4. ASSUME NEW e \in Computations(c, job, k, r)
        PROVE  e = <<t, c>>
    <3>1. PICK u \in Threads : e \in {u} \X DOMAIN ran[u]
      BY DEF Computations
    <3>2. e = <<u, e[2]>> /\ e[1] = u /\ e[2] \in DOMAIN ran[u]
      BY <3>1
    <3>3. ran[u][e[2]] = c /\ r \in PartOf(job, k, u, N)
      BY <3>2 DEF Computations
    <3>4. e[2] = c
      <4>1. PICK x : x = e[2]
        OBVIOUS
      <4>2. ran[u] = [i \in 1..call |-> i]
        BY <1>2
      <4>3. x \in 1..call /\ ran[u][x] = c
        BY <3>2, <3>3, <4>1, <4>2
      <4>. QED BY <4>1, <4>2, <4>3
    <3>5. u = t
      BY <2>1, <3>3
    <3>. QED BY <3>2, <3>4, <3>5
  <2>. QED BY <2>3, <2>4
<1>. QED BY <1>3, <1>4

(* When a product returns, each row of each matrix was computed once, for  *)
(* any number of threads, calls and sizes (kernels.c:601-735,              *)
(* threadpool.c:75-85).                                                    *)
THEOREM EveryProductComplete == Spec => []ProductsComplete
<1>1. TypeOK /\ CallsComplete => ProductsComplete
  BY PoolAssumption, JobsAssumption, CompleteCallsCompleteProducts
<1>. QED BY <1>1, TypeCorrect, EveryCallComplete, PTL
=============================================================================
