-------------------------------- MODULE Gemv --------------------------------
(***************************************************************************)
(* The matrix products of src/src/kernels.c on the thread pool: call c of  *)
(* pool_run carries a job, and each thread that executes call c computes   *)
(* its part of the job.                                                    *)
(***************************************************************************)
EXTENDS ThreadPool, WorkSplit

CONSTANT Jobs            \* the jobs a call may carry

ASSUME JobsAssumption == \A job \in Jobs : IsJob(job)

(* Each time row r of matrix k was computed in call c: by which thread, at *)
(* which of its executions.                                                *)
BugComputations(c, job, k, r) ==                    \* mutant: tid counted from one
    {e \in UNION {{t} \X DOMAIN ran[t] : t \in Threads} :
        ran[e[1]][e[2]] = c /\ r \in PartOf(job, k, e[1] + 1, N)}
Computations(c, job, k, r) ==
    {e \in UNION {{t} \X DOMAIN ran[t] : t \in Threads} :
        ran[e[1]][e[2]] = c /\ r \in PartOf(job, k, e[1], N)}

(* When gemv, gemv_multi or one of their batch forms returns, every row of *)
(* every matrix has been computed by one thread and once, whatever the     *)
(* sizes and the number of threads, and no thread went past the end of a   *)
(* matrix (kernels.c:655: "Chaque ligne reste calculee entiere par un seul *)
(* thread").                                                               *)
ProductsComplete ==
    pc[0] = "idle" =>
        \A c \in 1..call, job \in Jobs : \A k \in Matrices(job) :
            /\ \A r \in Rows(job, k) :
                   \E e \in Computations(c, job, k, r) : Computations(c, job, k, r) = {e}
            /\ \A t \in Threads : PartOf(job, k, t, N) \subseteq Rows(job, k)
=============================================================================
