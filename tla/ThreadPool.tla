----------------------------- MODULE ThreadPool -----------------------------
(***************************************************************************)
(* The thread pool of src/src/threadpool.c.  Thread 0 is the caller, which *)
(* takes part in every task; threads 1 .. N-1 are workers that live for    *)
(* the whole program.  Each call is framed by two barriers: bar_start,     *)
(* after which every thread reads the task slot, and bar_end, after which  *)
(* the caller returns and may write the slot again.  A pool of one thread  *)
(* has no workers and no barriers: it runs the task in the caller          *)
(* (lines 76-79), and is left out.                                         *)
(***************************************************************************)
EXTENDS Integers, FiniteSets, Sequences

CONSTANTS N,             \* n_total
          MaxCalls,      \* bound on the calls of pool_run
          MayFail        \* whether allocations and pthread_create may fail

ASSUME PoolAssumption == /\ N \in Nat \ {0, 1}
                         /\ MaxCalls \in Nat
                         /\ MayFail \in BOOLEAN

Threads  == 0..N-1
Workers  == 1..N-1
Barriers == {"bar_start", "bar_end"}

VARIABLES pc,            \* where each thread is
          created,       \* number of workers pthread_create has started
          hasThreads,    \* p->threads is allocated
          waiting,       \* the threads blocked in each barrier
          fn, arg,       \* the task slot: the call that wrote each half
          quit,          \* p->quit
          call,          \* number of calls of pool_run made so far
          task,          \* the two halves each thread has read
          ran            \* the calls each thread has executed, in order

vars == <<pc, created, hasThreads, waiting, fn, arg, quit, call, task, ran>>

MainLocs   == {"alloc", "create", "idle", "setArg", "start", "run", "end",
               "destroy", "quitStart", "join", "free", "gone"}
WorkerLocs == {"absent", "start", "woken", "fetchFn", "fetchArg", "run", "end", "exited"}

Init ==
    /\ pc = [t \in Threads |-> IF t = 0 THEN "alloc" ELSE "absent"]
    /\ created = 0 /\ hasThreads = FALSE
    /\ waiting = [b \in Barriers |-> {}]
    /\ fn = 0 /\ arg = 0
    /\ quit = FALSE
    /\ call = 0
    /\ task = [t \in Threads |-> [fn |-> 0, arg |-> 0]]
    /\ ran = [t \in Threads |-> <<>>]

Goto(t, loc) == pc' = [pc EXCEPT ![t] = loc]

-----------------------------------------------------------------------------
(* pthread_barrier_wait, on a barrier initialised for N threads: a thread  *)
(* blocks until N threads have arrived, and then all of them continue.     *)

BugOpens(arrived) == Cardinality(arrived) = N - 1   \* mutant: the caller not counted
BugNeverOpens(arrived) == Cardinality(arrived) = N + 1 \* mutant: one thread too many expected
Opens(arrived) == Cardinality(arrived) = N

BarrierWait(t, b, after) ==
    LET arrived == waiting[b] \cup {t}
    IN  /\ t \notin waiting[b]
        /\ IF Opens(arrived)
           THEN /\ waiting' = [waiting EXCEPT ![b] = {}]
                /\ pc' = [u \in Threads |-> IF u \in arrived THEN after[u] ELSE pc[u]]
           ELSE /\ waiting' = [waiting EXCEPT ![b] = arrived]
                /\ UNCHANGED pc

(* Where a thread goes on from each barrier. *)
AfterStart(t) == IF t # 0 THEN "woken" ELSE IF pc[0] = "start" THEN "run" ELSE "join"
BugAfterEnd(t) == IF t # 0 THEN "fetchFn" ELSE "idle"  \* mutant: bar_start skipped
AfterEnd(t)   == IF t # 0 THEN "start" ELSE "idle"

-----------------------------------------------------------------------------
(* pool_create.                                                            *)

(* The barriers and the two arrays. *)
Alloc ==
    /\ pc[0] = "alloc"
    /\ hasThreads' = TRUE
    /\ Goto(0, "create")
    /\ UNCHANGED <<created, waiting, fn, arg, quit, call, task, ran>>

(* A barrier or an array is missing: p->threads may be there or not. *)
AllocFails ==
    /\ MayFail /\ pc[0] = "alloc"
    /\ hasThreads' \in BOOLEAN
    /\ Goto(0, "destroy")
    /\ UNCHANGED <<created, waiting, fn, arg, quit, call, task, ran>>

BugMoreWorkers == created < N                       \* mutant: one worker too many
MoreWorkers == created < N - 1

(* A new worker runs at once, while the caller is still creating others. *)
CreateWorker ==
    /\ pc[0] = "create" /\ MoreWorkers
    /\ created' = created + 1
    /\ Goto(created + 1, "start")
    /\ UNCHANGED <<hasThreads, waiting, fn, arg, quit, call, task, ran>>

CreateFails ==
    /\ MayFail /\ pc[0] = "create" /\ MoreWorkers
    /\ Goto(0, "destroy")
    /\ UNCHANGED <<created, hasThreads, waiting, fn, arg, quit, call, task, ran>>

Created ==
    /\ pc[0] = "create" /\ ~MoreWorkers
    /\ Goto(0, "idle")
    /\ UNCHANGED <<created, hasThreads, waiting, fn, arg, quit, call, task, ran>>

-----------------------------------------------------------------------------
(* pool_run.                                                               *)

SetFn ==
    /\ pc[0] = "idle" /\ call < MaxCalls
    /\ call' = call + 1
    /\ fn' = call + 1
    /\ task' = [task EXCEPT ![0] = [fn |-> call + 1, arg |-> call + 1]]
    /\ Goto(0, "setArg")
    /\ UNCHANGED <<created, hasThreads, waiting, arg, quit, ran>>

SetArg ==
    /\ pc[0] = "setArg"
    /\ arg' = call
    /\ Goto(0, "start")
    /\ UNCHANGED <<created, hasThreads, waiting, fn, quit, call, task, ran>>

(* A thread arrives at bar_start: a worker at the top of its loop, or the  *)
(* caller in pool_run or in pool_destroy.                                  *)
ArriveStart(t) ==
    /\ pc[t] \in {"start", "quitStart"}
    /\ BarrierWait(t, "bar_start", [u \in Threads |-> AfterStart(u)])
    /\ UNCHANGED <<created, hasThreads, fn, arg, quit, call, task, ran>>

ArriveEnd(t) ==
    /\ pc[t] = "end"
    /\ BarrierWait(t, "bar_end", [u \in Threads |-> AfterEnd(u)])
    /\ UNCHANGED <<created, hasThreads, fn, arg, quit, call, task, ran>>

(* A thread finishes its part of the task it holds. *)
Run(t) ==
    /\ pc[t] = "run"
    /\ ran' = [ran EXCEPT ![t] = Append(@, task[t].arg)]
    /\ Goto(t, "end")
    /\ UNCHANGED <<created, hasThreads, waiting, fn, arg, quit, call, task>>

-----------------------------------------------------------------------------
(* worker_main, between the barriers.                                      *)

BugQuitSeen == FALSE                                \* mutant: quit never noticed
QuitSeen == quit

CheckQuit(w) ==
    /\ pc[w] = "woken"
    /\ Goto(w, IF QuitSeen THEN "exited" ELSE "fetchFn")
    /\ UNCHANGED <<created, hasThreads, waiting, fn, arg, quit, call, task, ran>>

FetchFn(w) ==
    /\ pc[w] = "fetchFn"
    /\ task' = [task EXCEPT ![w].fn = fn]
    /\ Goto(w, "fetchArg")
    /\ UNCHANGED <<created, hasThreads, waiting, fn, arg, quit, call, ran>>

FetchArg(w) ==
    /\ pc[w] = "fetchArg"
    /\ task' = [task EXCEPT ![w].arg = arg]
    /\ Goto(w, "run")
    /\ UNCHANGED <<created, hasThreads, waiting, fn, arg, quit, call, ran>>

-----------------------------------------------------------------------------
(* pool_destroy.                                                           *)

(* The program ends between two calls, or pool_create has failed. *)
CallDestroy ==
    /\ pc[0] = "idle"
    /\ Goto(0, "destroy")
    /\ UNCHANGED <<created, hasThreads, waiting, fn, arg, quit, call, task, ran>>

SetQuit ==
    /\ pc[0] = "destroy" /\ hasThreads
    /\ quit' = TRUE
    /\ Goto(0, "quitStart")
    /\ UNCHANGED <<created, hasThreads, waiting, fn, arg, call, task, ran>>

NothingToStop ==
    /\ pc[0] = "destroy" /\ ~hasThreads
    /\ Goto(0, "free")
    /\ UNCHANGED <<created, hasThreads, waiting, fn, arg, quit, call, task, ran>>

(* pthread_join on every worker that was created. *)
BugJoinable == created < N                          \* mutant: no join
Joinable == \A w \in Workers : w <= created => pc[w] = "exited"

Join ==
    /\ pc[0] = "join" /\ Joinable
    /\ Goto(0, "free")
    /\ UNCHANGED <<created, hasThreads, waiting, fn, arg, quit, call, task, ran>>

Free ==
    /\ pc[0] = "free"
    /\ Goto(0, "gone")
    /\ UNCHANGED <<created, hasThreads, waiting, fn, arg, quit, call, task, ran>>

-----------------------------------------------------------------------------

Done == pc[0] = "gone" /\ UNCHANGED vars

Caller == \/ Alloc \/ AllocFails \/ CreateWorker \/ CreateFails \/ Created
          \/ SetFn \/ SetArg
          \/ CallDestroy \/ SetQuit \/ NothingToStop \/ Join \/ Free

Anyone(t) == ArriveStart(t) \/ ArriveEnd(t) \/ Run(t)

Worker(w) == CheckQuit(w) \/ FetchFn(w) \/ FetchArg(w)

Next == \/ Caller
        \/ \E t \in Threads : Anyone(t)
        \/ \E w \in Workers : Worker(w)
        \/ Done

Spec == Init /\ [][Next]_vars

(* Every thread that can take a step eventually takes one: the operating   *)
(* system runs them all, and tasks end.                                    *)
FairSpec == /\ Spec
            /\ WF_vars(Caller \/ Anyone(0))
            /\ \A w \in Workers : WF_vars(Anyone(w) \/ Worker(w))
-----------------------------------------------------------------------------
(* Properties.                                                             *)

(* Every thread is at a place of its own code, and only threads about to   *)
(* pass a barrier wait in it.                                              *)
TypeOK ==
    /\ pc \in [Threads -> MainLocs \cup WorkerLocs]
    /\ pc[0] \in MainLocs /\ \A w \in Workers : pc[w] \in WorkerLocs
    /\ created \in 0..N-1
    /\ hasThreads \in BOOLEAN /\ quit \in BOOLEAN
    /\ waiting \in [Barriers -> SUBSET Threads]
    /\ fn \in 0..MaxCalls /\ arg \in 0..MaxCalls /\ call \in 0..MaxCalls
    /\ task \in [Threads -> [fn : 0..MaxCalls, arg : 0..MaxCalls]]
    /\ ran \in [Threads -> Seq(0..MaxCalls)]

(* When pool_run returns, every thread has executed every task handed to   *)
(* the pool so far, exactly once and in order: gemv and the head loops     *)
(* read complete results (threadpool.c:75-85).                             *)
CallsComplete == pc[0] = "idle" => \A t \in Threads : ran[t] = [i \in 1..call |-> i]

(* A thread never runs a task of an earlier call, nor one call's function  *)
(* with another call's argument (threadpool.c:33, 80-81).                  *)
TaskIsCurrent ==
    \A t \in Threads : pc[t] = "run" => task[t] = [fn |-> call, arg |-> call]

(* The task slot is written only while every worker is before bar_start:   *)
(* the unlocked writes of pool_run race with no read (threadpool.c:80-82). *)
SlotWrittenAlone ==
    [][<<fn, arg>>' # <<fn, arg>> => \A w \in Workers : pc[w] = "start"]_vars

(* The barriers and the pool are freed only when no worker can touch them  *)
(* any more (threadpool.c:92-99).                                          *)
FreedAlone ==
    pc[0] \in {"free", "gone"} => \A w \in Workers : pc[w] \in {"absent", "exited"}

(* The pool is a fork-join: seen from its callers, a call is handed to all *)
(* the threads, done once by each, and joined.                             *)
Busy  == {"setArg", "start", "run", "end"}
Phase == IF pc[0] \in {"alloc", "create", "idle"} THEN "idle"
         ELSE IF pc[0] \in Busy THEN "busy" ELSE "gone"

(* The threads that have executed as many tasks as calls were made. *)
Did == {t \in Threads : Len(ran[t]) = call}

Abstract == INSTANCE ForkJoin WITH phase <- Phase, did <- Did

ImplementsForkJoin == Abstract!Spec

(* A call of pool_run returns: the barriers never leave a thread behind    *)
(* that the others wait for.                                               *)
CallsReturn == (pc[0] = "setArg") ~> (pc[0] = "idle")

(* pool_destroy returns, whatever the pool went through before             *)
(* (threadpool.c:71: it is called even on a partly initialised pool).      *)
DestroyReturns == (pc[0] = "destroy") ~> (pc[0] = "gone")

(* It does so when all the workers or none have a place to wait: after     *)
(* every call sequence, and after a failed allocation of the barriers.     *)
WholePoolEnds ==
    (pc[0] = "destroy" /\ (created = N - 1 \/ ~hasThreads)) ~> (pc[0] = "gone")
=============================================================================
