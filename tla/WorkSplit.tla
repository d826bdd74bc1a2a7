----------------------------- MODULE WorkSplit ------------------------------
(***************************************************************************)
(* How the kernels divide a product among n threads                        *)
(* (src/src/kernels.c:601-735).  The rows of all the matrices of a job are *)
(* numbered in a row; thread t of n takes the global rows from             *)
(* total * t / n up to total * (t + 1) / n, in integer division, and       *)
(* translates them to rows of each matrix.                                 *)
(*                                                                         *)
(* A job is given by its boundaries: matrix k has the global rows from     *)
(* job[k] up to job[k + 1], so that job[k] is the loop's acc when it       *)
(* comes to matrix k and the last boundary is total.                       *)
(***************************************************************************)
EXTENDS Integers, Sequences

IsJob(job) == /\ job \in Seq(Nat) /\ Len(job) > 1 /\ job[1] = 0
              /\ \A i, j \in 1..Len(job) : i <= j => job[i] <= job[j]

Matrices(job) == 1..Len(job)-1
NRows(job, k) == job[k + 1] - job[k]                \* Ws[k]->ne[1]
Total(job)    == job[Len(job)]
Rows(job, k)  == 0 .. NRows(job, k) - 1

(* Where the part of thread t begins; it ends where the next one begins.   *)
BugBound(total, t, n) == (total \div n) * t         \* mutant: the remainder is dropped
Bound(total, t, n) == (total * t) \div n

(* gemv: one matrix.                                                       *)
GemvRows(rows, t, n) == Bound(rows, t, n) .. Bound(rows, t + 1, n) - 1

(* gemv_multi: the loop over the matrices ends at the first one that       *)
(* begins at or after the end of the thread's part.                        *)
MultiRows(job, k, t, n) ==
    LET g0 == Bound(Total(job), t, n)
        g1 == Bound(Total(job), t + 1, n)
        r0 == IF g0 > job[k] THEN g0 - job[k] ELSE 0
        r1 == IF g1 - job[k] < NRows(job, k) THEN g1 - job[k] ELSE NRows(job, k)
    IN  IF g1 > job[k] THEN r0 .. r1 - 1 ELSE {}

(* The rows of matrix k that thread t of n computes: the callers use gemv  *)
(* for one matrix and gemv_multi for several with a common input.          *)
PartOf(job, k, t, n) ==
    IF Len(job) = 2 THEN GemvRows(NRows(job, 1), t, n) ELSE MultiRows(job, k, t, n)
=============================================================================
