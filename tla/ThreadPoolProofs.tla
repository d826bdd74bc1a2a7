-------------------------- MODULE ThreadPoolProofs --------------------------
(***************************************************************************)
(* For a pool of any number of threads and any number of calls, with or    *)
(* without failures while it is created: the invariants of ThreadPool, and *)
(* that it implements ForkJoin.                                            *)
(***************************************************************************)
EXTENDS ThreadPool, FiniteSetTheorems, TLAPS

-----------------------------------------------------------------------------
(* The inductive invariant.  The location of the caller decides what the   *)
(* workers may be doing: a barrier opens for all the threads at once, so   *)
(* they enter and leave a call together.                                   *)

Upto(c) == [i \in 1..c |-> i]

BeforeCall  == {"alloc", "create", "idle", "destroy"}
Handing     == {"setArg", "start"}
InCall      == {"run", "end"}
Leaving     == {"free", "gone"}

(* Who waits in a barrier is at that barrier. *)
WaitingInv ==
    /\ \A t \in waiting["bar_start"] : pc[t] \in {"start", "quitStart"}
    /\ \A t \in waiting["bar_end"] : pc[t] = "end"

(* Which workers exist. *)
CreatedInv ==
    /\ \A w \in Workers : pc[w] = "absent" <=> w > created
    /\ pc[0] = "alloc" => created = 0
    /\ pc[0] \in {"idle", "join"} \cup Handing \cup InCall => created = N-1
    /\ created > 0 => hasThreads
    /\ pc[0] = "create" => hasThreads

(* Where the workers are, by where the caller is. *)
PhaseInv ==
    \A w \in Workers :
        /\ pc[0] \in BeforeCall \cup Handing \cup {"quitStart"} => pc[w] \in {"absent", "start"}
        /\ pc[0] \in InCall => pc[w] \in {"woken", "fetchFn", "fetchArg", "run", "end"}
        /\ pc[0] = "join" => pc[w] \in {"woken", "exited"}
        /\ pc[0] \in Leaving => pc[w] \in {"absent", "exited"}

QuitInv ==
    /\ quit => pc[0] \in {"quitStart", "join"} \cup Leaving
    /\ pc[0] \in {"quitStart", "join"} => quit

(* What the slot and the tasks read from it hold. *)
TaskInv ==
    /\ pc[0] \in Handing => fn = call
    /\ pc[0] \in {"start"} \cup InCall => fn = call /\ arg = call
    /\ pc[0] \in {"run"} \cup Handing => task[0] = [fn |-> call, arg |-> call]
    /\ \A w \in Workers : /\ pc[w] = "fetchArg" => task[w].fn = call
                          /\ pc[w] = "run" => task[w] = [fn |-> call, arg |-> call]

(* Who has executed what. *)
HasDone(t) == \/ pc[0] \in BeforeCall \cup Leaving \cup {"quitStart", "join"}
              \/ pc[0] \in InCall /\ pc[t] = "end"

RanInv ==
    /\ \A t \in Threads : IF HasDone(t) THEN ran[t] = Upto(call)
                          ELSE call > 0 /\ ran[t] = Upto(call - 1)

IInv == TypeOK /\ WaitingInv /\ CreatedInv /\ PhaseInv /\ QuitInv /\ TaskInv /\ RanInv

-----------------------------------------------------------------------------
(* A barrier that opens has seen every thread. *)
LEMMA OpensForAll ==
    ASSUME NEW S \in SUBSET Threads, Cardinality(S) = N
    PROVE  S = Threads
<1>1. IsFiniteSet(Threads) /\ Cardinality(Threads) = N
  BY FS_Interval, PoolAssumption DEF Threads
<1> QED  BY <1>1, FS_Subset

LEMMA UptoNext ==
    ASSUME NEW c \in Nat, c > 0, c <= MaxCalls
    PROVE  /\ Upto(c - 1) \in Seq(0..MaxCalls)
           /\ Append(Upto(c - 1), c) = Upto(c)
<1>1. Upto(c - 1) \in Seq(0..MaxCalls) /\ Len(Upto(c - 1)) = c - 1
  BY PoolAssumption DEF Upto
<1>2. Append(Upto(c - 1), c) = [i \in 1..c |-> IF i = c THEN c ELSE i]
  BY <1>1 DEF Upto
<1> QED  BY <1>1, <1>2 DEF Upto

LEMMA InitIInv == Init => IInv
<1> SUFFICES ASSUME Init PROVE IInv
  OBVIOUS
<1>1. /\ pc[0] = "alloc" /\ \A w \in Workers : pc[w] = "absent"
      /\ pc \in [Threads -> MainLocs \cup WorkerLocs]
  BY PoolAssumption DEF Init, Threads, Workers, MainLocs, WorkerLocs
<1>2. TypeOK
  <2>1. created \in 0..N-1 /\ fn \in 0..MaxCalls /\ arg \in 0..MaxCalls /\ call \in 0..MaxCalls
    BY PoolAssumption DEF Init
  <2>2. /\ task \in [Threads -> [fn : 0..MaxCalls, arg : 0..MaxCalls]]
        /\ ran \in [Threads -> Seq(0..MaxCalls)]
    BY PoolAssumption DEF Init
  <2> QED  BY <1>1, <2>1, <2>2 DEF Init, TypeOK, MainLocs, WorkerLocs
<1>3. WaitingInv
  BY DEF Init, WaitingInv, Barriers
<1>4. CreatedInv
  BY <1>1 DEF Init, CreatedInv, Handing, InCall, Workers
<1>5. PhaseInv /\ QuitInv /\ TaskInv
  BY <1>1 DEF Init, PhaseInv, QuitInv, TaskInv, BeforeCall, Handing, InCall, Leaving
<1>6. RanInv
  BY <1>1 DEF Init, RanInv, HasDone, Upto, BeforeCall
<1> QED  BY <1>2, <1>3, <1>4, <1>5, <1>6 DEF IInv

LEMMA CallerKeepsIInv ==
    ASSUME IInv, Caller
    PROVE  IInv'
<1> USE PoolAssumption DEF IInv
<1>1. ASSUME Alloc PROVE IInv'
  <2>1. TypeOK'
    BY SMTT(30), <1>1 DEF Alloc, Goto, TypeOK, MainLocs, WorkerLocs, Barriers, Threads, Workers
  <2>2. WaitingInv'
    BY <1>1 DEF Alloc, Goto, TypeOK, WaitingInv, Barriers, Threads, Workers
  <2>3. CreatedInv'
    <3>1. hasThreads' /\ created = 0 /\ created' = 0
      BY <1>1 DEF Alloc, CreatedInv
    <3>2. pc'[0] = "create" /\ \A w \in Workers : pc'[w] = pc[w]
      BY <1>1 DEF Alloc, Goto, TypeOK, Threads, Workers
    <3> QED  BY <3>1, <3>2 DEF CreatedInv, Handing, InCall
  <2>4. PhaseInv'
    BY <1>1 DEF Alloc, Goto, TypeOK, CreatedInv, PhaseInv, Threads, Workers, BeforeCall, Handing, InCall, Leaving
  <2>5. QuitInv'
    BY <1>1 DEF Alloc, Goto, TypeOK, QuitInv, Threads, BeforeCall, Handing, InCall, Leaving
  <2>6. TaskInv'
    BY <1>1 DEF Alloc, Goto, TypeOK, TaskInv, PhaseInv, CreatedInv, Threads, Workers, BeforeCall, Handing, InCall, Leaving
  <2>7. RanInv'
    BY <1>1 DEF Alloc, Goto, TypeOK, RanInv, HasDone, CreatedInv, PhaseInv, Threads, Workers, BeforeCall, Handing, InCall, Leaving
  <2> QED  BY <2>1, <2>2, <2>3, <2>4, <2>5, <2>6, <2>7
<1>2. ASSUME AllocFails PROVE IInv'
  <2>1. TypeOK'
    <3>1. hasThreads' \in BOOLEAN
      BY <1>2 DEF AllocFails
    <3>2. pc' = [pc EXCEPT ![0] = "destroy"]
          /\ UNCHANGED <<created, waiting, fn, arg, quit, call, task, ran>>
      BY <1>2 DEF AllocFails, Goto
    <3> QED  BY SMTT(30), <3>1, <3>2 DEF TypeOK, MainLocs, WorkerLocs, Barriers, Threads, Workers
  <2>2. WaitingInv'
    BY <1>2 DEF AllocFails, Goto, TypeOK, WaitingInv, Barriers, Threads, Workers
  <2>3. CreatedInv'
    BY <1>2 DEF AllocFails, Goto, TypeOK, CreatedInv, Threads, Workers, BeforeCall, Handing, InCall, Leaving
  <2>4. PhaseInv'
    BY <1>2 DEF AllocFails, Goto, TypeOK, CreatedInv, PhaseInv, Threads, Workers, BeforeCall, Handing, InCall, Leaving
  <2>5. QuitInv'
    BY <1>2 DEF AllocFails, Goto, TypeOK, QuitInv, Threads, BeforeCall, Handing, InCall, Leaving
  <2>6. TaskInv'
    BY <1>2 DEF AllocFails, Goto, TypeOK, TaskInv, PhaseInv, CreatedInv, Threads, Workers, BeforeCall, Handing, InCall, Leaving
  <2>7. RanInv'
    BY <1>2 DEF AllocFails, Goto, TypeOK, RanInv, HasDone, CreatedInv, PhaseInv, Threads, Workers, BeforeCall, Handing, InCall, Leaving
  <2> QED  BY <2>1, <2>2, <2>3, <2>4, <2>5, <2>6, <2>7
<1>3. ASSUME CreateWorker PROVE IInv'
  <2>0. /\ pc[0] = "create" /\ created' = created + 1
        /\ created + 1 \in Workers /\ created + 1 <= N - 1 /\ 0 \in Threads /\ created \in Nat
        /\ pc' = [pc EXCEPT ![created + 1] = "start"]
        /\ UNCHANGED <<hasThreads, waiting, fn, arg, quit, call, task, ran>>
    BY <1>3 DEF CreateWorker, Goto, MoreWorkers, TypeOK, Threads, Workers
  <2>a. /\ pc'[0] = "create"
        /\ \A w \in Workers : pc'[w] = IF w = created + 1 THEN "start" ELSE pc[w]
        /\ pc[created + 1] = "absent"
    BY <2>0 DEF TypeOK, CreatedInv, Threads, Workers
  <2>1. TypeOK'
    <3>1. pc' \in [Threads -> MainLocs \cup WorkerLocs]
      BY <2>0 DEF TypeOK, WorkerLocs, Threads, Workers
    <3>2. created' \in 0..N-1
      BY <2>0
    <3>3. pc'[0] \in MainLocs /\ \A w \in Workers : pc'[w] \in WorkerLocs
      BY <2>a DEF TypeOK, MainLocs, WorkerLocs
    <3> QED  BY <2>0, <3>1, <3>2, <3>3 DEF TypeOK
  <2>2. WaitingInv'
    <3>1. waiting["bar_start"] \subseteq Threads /\ waiting["bar_end"] \subseteq Threads
      BY DEF TypeOK, Barriers
    <3>2. created + 1 \notin waiting["bar_start"] /\ created + 1 \notin waiting["bar_end"]
      BY <2>a DEF WaitingInv
    <3>3. \A t \in Threads : t # created + 1 => pc'[t] = pc[t]
      BY <2>0 DEF TypeOK
    <3> QED  BY <2>0, <3>1, <3>2, <3>3 DEF WaitingInv
  <2>3. CreatedInv'
    <3>1. \A w \in Workers : pc'[w] = "absent" <=> w > created'
      BY <2>0, <2>a DEF CreatedInv, Workers
    <3>2. hasThreads'
      BY <2>0 DEF CreatedInv, Workers
    <3> QED  BY <2>a, <3>1, <3>2 DEF CreatedInv, Handing, InCall
  <2>4. PhaseInv'
    BY <2>0, <2>a DEF PhaseInv, BeforeCall, Handing, InCall, Leaving
  <2>5. QuitInv'
    BY SMTT(30), <1>3 DEF CreateWorker, Goto, MoreWorkers, TypeOK, QuitInv, Threads, BeforeCall, Handing, InCall, Leaving
  <2>6. TaskInv'
    BY SMTT(30), <1>3 DEF CreateWorker, Goto, MoreWorkers, TypeOK, TaskInv, PhaseInv, CreatedInv, Threads, Workers, BeforeCall, Handing, InCall, Leaving
  <2>7. RanInv'
    BY <1>3 DEF CreateWorker, Goto, MoreWorkers, TypeOK, RanInv, HasDone, CreatedInv, PhaseInv, Threads, Workers, BeforeCall, Handing, InCall, Leaving
  <2> QED  BY <2>1, <2>2, <2>3, <2>4, <2>5, <2>6, <2>7
<1>4. ASSUME CreateFails PROVE IInv'
  <2>1. TypeOK'
    BY SMTT(30), <1>4 DEF CreateFails, Goto, MoreWorkers, TypeOK, MainLocs, WorkerLocs, Barriers, Threads, Workers
  <2>2. WaitingInv'
    BY <1>4 DEF CreateFails, Goto, MoreWorkers, TypeOK, WaitingInv, Barriers, Threads, Workers
  <2>3. CreatedInv'
    BY <1>4 DEF CreateFails, Goto, MoreWorkers, TypeOK, CreatedInv, Threads, Workers, BeforeCall, Handing, InCall, Leaving
  <2>4. PhaseInv'
    BY <1>4 DEF CreateFails, Goto, MoreWorkers, TypeOK, CreatedInv, PhaseInv, Threads, Workers, BeforeCall, Handing, InCall, Leaving
  <2>5. QuitInv'
    BY <1>4 DEF CreateFails, Goto, MoreWorkers, TypeOK, QuitInv, Threads, BeforeCall, Handing, InCall, Leaving
  <2>6. TaskInv'
    BY <1>4 DEF CreateFails, Goto, MoreWorkers, TypeOK, TaskInv, PhaseInv, CreatedInv, Threads, Workers, BeforeCall, Handing, InCall, Leaving
  <2>7. RanInv'
    BY <1>4 DEF CreateFails, Goto, MoreWorkers, TypeOK, RanInv, HasDone, CreatedInv, PhaseInv, Threads, Workers, BeforeCall, Handing, InCall, Leaving
  <2> QED  BY <2>1, <2>2, <2>3, <2>4, <2>5, <2>6, <2>7
<1>5. ASSUME Created PROVE IInv'
  <2>1. TypeOK'
    BY SMTT(30), <1>5 DEF Created, Goto, MoreWorkers, TypeOK, MainLocs, WorkerLocs, Barriers, Threads, Workers
  <2>2. WaitingInv'
    BY <1>5 DEF Created, Goto, MoreWorkers, TypeOK, WaitingInv, Barriers, Threads, Workers
  <2>3. CreatedInv'
    BY <1>5 DEF Created, Goto, MoreWorkers, TypeOK, CreatedInv, Threads, Workers, BeforeCall, Handing, InCall, Leaving
  <2>4. PhaseInv'
    BY <1>5 DEF Created, Goto, MoreWorkers, TypeOK, CreatedInv, PhaseInv, Threads, Workers, BeforeCall, Handing, InCall, Leaving
  <2>5. QuitInv'
    BY <1>5 DEF Created, Goto, MoreWorkers, TypeOK, QuitInv, Threads, BeforeCall, Handing, InCall, Leaving
  <2>6. TaskInv'
    BY <1>5 DEF Created, Goto, MoreWorkers, TypeOK, TaskInv, PhaseInv, CreatedInv, Threads, Workers, BeforeCall, Handing, InCall, Leaving
  <2>7. RanInv'
    BY <1>5 DEF Created, Goto, MoreWorkers, TypeOK, RanInv, HasDone, CreatedInv, PhaseInv, Threads, Workers, BeforeCall, Handing, InCall, Leaving
  <2> QED  BY <2>1, <2>2, <2>3, <2>4, <2>5, <2>6, <2>7
<1>6. ASSUME SetFn PROVE IInv'
  <2>1. TypeOK'
    <3>1. call' \in 0..MaxCalls /\ fn' = call' /\ call' = call + 1
          /\ task' = [task EXCEPT ![0] = [fn |-> call + 1, arg |-> call + 1]]
      BY <1>6 DEF SetFn, TypeOK
    <3>2. task' \in [Threads -> [fn : 0..MaxCalls, arg : 0..MaxCalls]]
      BY <3>1 DEF TypeOK, Threads
    <3>3. pc' = [pc EXCEPT ![0] = "setArg"]
          /\ UNCHANGED <<created, hasThreads, waiting, arg, quit, ran>>
      BY <1>6 DEF SetFn, Goto
    <3>4. pc' \in [Threads -> MainLocs \cup WorkerLocs] /\ pc'[0] \in MainLocs
          /\ \A w \in Workers : pc'[w] \in WorkerLocs
      BY <3>3 DEF TypeOK, MainLocs, Threads, Workers
    <3> QED  BY <3>1, <3>2, <3>3, <3>4 DEF TypeOK
  <2>2. WaitingInv'
    BY <1>6 DEF SetFn, Goto, TypeOK, WaitingInv, Barriers, Threads, Workers
  <2>3. CreatedInv'
    BY <1>6 DEF SetFn, Goto, TypeOK, CreatedInv, Threads, Workers, BeforeCall, Handing, InCall, Leaving
  <2>4. PhaseInv'
    BY <1>6 DEF SetFn, Goto, TypeOK, CreatedInv, PhaseInv, Threads, Workers, BeforeCall, Handing, InCall, Leaving
  <2>5. QuitInv'
    BY <1>6 DEF SetFn, Goto, TypeOK, QuitInv, Threads, BeforeCall, Handing, InCall, Leaving
  <2>6. TaskInv'
    <3>1. pc[0] = "idle" /\ pc' = [pc EXCEPT ![0] = "setArg"] /\ fn' = call' /\ call' = call + 1
          /\ task' = [task EXCEPT ![0] = [fn |-> call', arg |-> call']]
      BY <1>6 DEF SetFn, Goto
    <3>2. pc'[0] = "setArg" /\ task'[0] = [fn |-> call', arg |-> call']
      BY <3>1 DEF TypeOK, Threads
    <3>3. \A w \in Workers : pc'[w] \in {"absent", "start"}
      BY <3>1 DEF TypeOK, PhaseInv, BeforeCall, Threads, Workers
    <3> QED  BY <3>1, <3>2, <3>3 DEF TaskInv, Handing, InCall
  <2>7. RanInv'
    BY <1>6 DEF SetFn, Goto, TypeOK, RanInv, HasDone, CreatedInv, PhaseInv, Threads, Workers, BeforeCall, Handing, InCall, Leaving
  <2> QED  BY <2>1, <2>2, <2>3, <2>4, <2>5, <2>6, <2>7
<1>7. ASSUME SetArg PROVE IInv'
  <2>1. TypeOK'
    <3>1. arg' \in 0..MaxCalls /\ pc' = [pc EXCEPT ![0] = "start"]
          /\ UNCHANGED <<created, hasThreads, waiting, fn, quit, call, task, ran>>
      BY <1>7 DEF SetArg, Goto, TypeOK
    <3> QED  BY SMTT(30), <3>1 DEF TypeOK, MainLocs, WorkerLocs, Threads, Workers
  <2>2. WaitingInv'
    BY <1>7 DEF SetArg, Goto, TypeOK, WaitingInv, Barriers, Threads, Workers
  <2>3. CreatedInv'
    BY <1>7 DEF SetArg, Goto, TypeOK, CreatedInv, Threads, Workers, BeforeCall, Handing, InCall, Leaving
  <2>4. PhaseInv'
    BY <1>7 DEF SetArg, Goto, TypeOK, CreatedInv, PhaseInv, Threads, Workers, BeforeCall, Handing, InCall, Leaving
  <2>5. QuitInv'
    BY <1>7 DEF SetArg, Goto, TypeOK, QuitInv, Threads, BeforeCall, Handing, InCall, Leaving
  <2>6. TaskInv'
    BY <1>7 DEF SetArg, Goto, TypeOK, TaskInv, PhaseInv, CreatedInv, Threads, Workers, BeforeCall, Handing, InCall, Leaving
  <2>7. RanInv'
    BY <1>7 DEF SetArg, Goto, TypeOK, RanInv, HasDone, CreatedInv, PhaseInv, Threads, Workers, BeforeCall, Handing, InCall, Leaving
  <2> QED  BY <2>1, <2>2, <2>3, <2>4, <2>5, <2>6, <2>7
<1>8. ASSUME CallDestroy PROVE IInv'
  <2>1. TypeOK'
    BY SMTT(30), <1>8 DEF CallDestroy, Goto, TypeOK, MainLocs, WorkerLocs, Barriers, Threads, Workers
  <2>2. WaitingInv'
    BY <1>8 DEF CallDestroy, Goto, TypeOK, WaitingInv, Barriers, Threads, Workers
  <2>3. CreatedInv'
    BY <1>8 DEF CallDestroy, Goto, TypeOK, CreatedInv, Threads, Workers, BeforeCall, Handing, InCall, Leaving
  <2>4. PhaseInv'
    BY <1>8 DEF CallDestroy, Goto, TypeOK, CreatedInv, PhaseInv, Threads, Workers, BeforeCall, Handing, InCall, Leaving
  <2>5. QuitInv'
    BY <1>8 DEF CallDestroy, Goto, TypeOK, QuitInv, Threads, BeforeCall, Handing, InCall, Leaving
  <2>6. TaskInv'
    BY <1>8 DEF CallDestroy, Goto, TypeOK, TaskInv, PhaseInv, CreatedInv, Threads, Workers, BeforeCall, Handing, InCall, Leaving
  <2>7. RanInv'
    BY <1>8 DEF CallDestroy, Goto, TypeOK, RanInv, HasDone, CreatedInv, PhaseInv, Threads, Workers, BeforeCall, Handing, InCall, Leaving
  <2> QED  BY <2>1, <2>2, <2>3, <2>4, <2>5, <2>6, <2>7
<1>9. ASSUME SetQuit PROVE IInv'
  <2>1. TypeOK'
    <3>1. pc' = [pc EXCEPT ![0] = "quitStart"] /\ quit' = TRUE
          /\ UNCHANGED <<created, hasThreads, waiting, fn, arg, call, task, ran>>
      BY <1>9 DEF SetQuit, Goto
    <3> QED  BY SMTT(30), <3>1 DEF TypeOK, MainLocs, WorkerLocs, Barriers, Threads, Workers
  <2>2. WaitingInv'
    BY <1>9 DEF SetQuit, Goto, TypeOK, WaitingInv, Barriers, Threads, Workers
  <2>3. CreatedInv'
    BY <1>9 DEF SetQuit, Goto, TypeOK, CreatedInv, Threads, Workers, BeforeCall, Handing, InCall, Leaving
  <2>4. PhaseInv'
    BY <1>9 DEF SetQuit, Goto, TypeOK, CreatedInv, PhaseInv, Threads, Workers, BeforeCall, Handing, InCall, Leaving
  <2>5. QuitInv'
    BY <1>9 DEF SetQuit, Goto, TypeOK, QuitInv, Threads, BeforeCall, Handing, InCall, Leaving
  <2>6. TaskInv'
    BY <1>9 DEF SetQuit, Goto, TypeOK, TaskInv, PhaseInv, CreatedInv, Threads, Workers, BeforeCall, Handing, InCall, Leaving
  <2>7. RanInv'
    BY <1>9 DEF SetQuit, Goto, TypeOK, RanInv, HasDone, CreatedInv, PhaseInv, Threads, Workers, BeforeCall, Handing, InCall, Leaving
  <2> QED  BY <2>1, <2>2, <2>3, <2>4, <2>5, <2>6, <2>7
<1>10. ASSUME NothingToStop PROVE IInv'
  <2>1. TypeOK'
    <3>1. pc' = [pc EXCEPT ![0] = "free"]
          /\ UNCHANGED <<created, hasThreads, waiting, fn, arg, quit, call, task, ran>>
      BY <1>10 DEF NothingToStop, Goto
    <3> QED  BY SMTT(30), <3>1 DEF TypeOK, MainLocs, WorkerLocs, Barriers, Threads, Workers
  <2>2. WaitingInv'
    BY <1>10 DEF NothingToStop, Goto, TypeOK, WaitingInv, Barriers, Threads, Workers
  <2>3. CreatedInv'
    BY <1>10 DEF NothingToStop, Goto, TypeOK, CreatedInv, Threads, Workers, BeforeCall, Handing, InCall, Leaving
  <2>4. PhaseInv'
    BY <1>10 DEF NothingToStop, Goto, TypeOK, CreatedInv, PhaseInv, Threads, Workers, BeforeCall, Handing, InCall, Leaving
  <2>5. QuitInv'
    BY <1>10 DEF NothingToStop, Goto, TypeOK, QuitInv, Threads, BeforeCall, Handing, InCall, Leaving
  <2>6. TaskInv'
    BY <1>10 DEF NothingToStop, Goto, TypeOK, TaskInv, PhaseInv, CreatedInv, Threads, Workers, BeforeCall, Handing, InCall, Leaving
  <2>7. RanInv'
    BY <1>10 DEF NothingToStop, Goto, TypeOK, RanInv, HasDone, CreatedInv, PhaseInv, Threads, Workers, BeforeCall, Handing, InCall, Leaving
  <2> QED  BY <2>1, <2>2, <2>3, <2>4, <2>5, <2>6, <2>7
<1>11. ASSUME Join PROVE IInv'
  <2>1. TypeOK'
    <3>1. pc' = [pc EXCEPT ![0] = "free"]
          /\ UNCHANGED <<created, hasThreads, waiting, fn, arg, quit, call, task, ran>>
      BY <1>11 DEF Join, Goto
    <3> QED  BY SMTT(30), <3>1 DEF TypeOK, MainLocs, WorkerLocs, Threads, Workers
  <2>2. WaitingInv'
    BY <1>11 DEF Join, Goto, Joinable, TypeOK, WaitingInv, Barriers, Threads, Workers
  <2>3. CreatedInv'
    BY <1>11 DEF Join, Goto, Joinable, TypeOK, CreatedInv, Threads, Workers, BeforeCall, Handing, InCall, Leaving
  <2>4. PhaseInv'
    BY <1>11 DEF Join, Goto, Joinable, TypeOK, CreatedInv, PhaseInv, Threads, Workers, BeforeCall, Handing, InCall, Leaving
  <2>5. QuitInv'
    BY <1>11 DEF Join, Goto, Joinable, TypeOK, QuitInv, Threads, BeforeCall, Handing, InCall, Leaving
  <2>6. TaskInv'
    BY <1>11 DEF Join, Goto, Joinable, TypeOK, TaskInv, PhaseInv, CreatedInv, Threads, Workers, BeforeCall, Handing, InCall, Leaving
  <2>7. RanInv'
    BY <1>11 DEF Join, Goto, Joinable, TypeOK, RanInv, HasDone, CreatedInv, PhaseInv, Threads, Workers, BeforeCall, Handing, InCall, Leaving
  <2> QED  BY <2>1, <2>2, <2>3, <2>4, <2>5, <2>6, <2>7
<1>12. ASSUME Free PROVE IInv'
  <2>1. TypeOK'
    BY SMTT(30), <1>12 DEF Free, Goto, TypeOK, MainLocs, WorkerLocs, Barriers, Threads, Workers
  <2>2. WaitingInv'
    BY <1>12 DEF Free, Goto, TypeOK, WaitingInv, Barriers, Threads, Workers
  <2>3. CreatedInv'
    BY <1>12 DEF Free, Goto, TypeOK, CreatedInv, Threads, Workers, BeforeCall, Handing, InCall, Leaving
  <2>4. PhaseInv'
    BY <1>12 DEF Free, Goto, TypeOK, CreatedInv, PhaseInv, Threads, Workers, BeforeCall, Handing, InCall, Leaving
  <2>5. QuitInv'
    BY <1>12 DEF Free, Goto, TypeOK, QuitInv, Threads, BeforeCall, Handing, InCall, Leaving
  <2>6. TaskInv'
    BY <1>12 DEF Free, Goto, TypeOK, TaskInv, PhaseInv, CreatedInv, Threads, Workers, BeforeCall, Handing, InCall, Leaving
  <2>7. RanInv'
    BY <1>12 DEF Free, Goto, TypeOK, RanInv, HasDone, CreatedInv, PhaseInv, Threads, Workers, BeforeCall, Handing, InCall, Leaving
  <2> QED  BY <2>1, <2>2, <2>3, <2>4, <2>5, <2>6, <2>7
<1> QED  BY <1>1, <1>2, <1>3, <1>4, <1>5, <1>6, <1>7, <1>8, <1>9, <1>10, <1>11, <1>12 DEF Caller

LEMMA ThreadsAndWorkers == Threads = Workers \cup {0} /\ 0 \notin Workers
  BY PoolAssumption DEF Threads, Workers

(* A worker between the barriers means a caller between the barriers. *)
LEMMA CallerInCall ==
    ASSUME IInv, NEW w \in Workers, pc[w] \in {"fetchFn", "fetchArg", "run", "end"}
    PROVE  pc[0] \in InCall
<1> USE DEF IInv
<1>1. pc[0] \notin BeforeCall \cup Handing \cup {"quitStart", "join"} \cup Leaving
  BY DEF PhaseInv
<1> QED  BY <1>1 DEF TypeOK, MainLocs, BeforeCall, Handing, InCall, Leaving

LEMMA WorkerKeepsIInv ==
    ASSUME IInv, NEW w \in Workers, Worker(w)
    PROVE  IInv'
<1> USE PoolAssumption DEF IInv
<1>1. ASSUME CheckQuit(w) PROVE IInv'
  <2>0. /\ pc[w] = "woken" /\ w # 0 /\ w \in Threads /\ 0 \in Threads
        /\ pc'[w] = (IF quit THEN "exited" ELSE "fetchFn") /\ pc'[0] = pc[0]
        /\ \A t \in Threads : t # w => pc'[t] = pc[t]
        /\ pc' \in [Threads -> MainLocs \cup WorkerLocs]
        /\ UNCHANGED <<created, hasThreads, waiting, fn, arg, quit, call, ran>>
    BY SMTT(30), <1>1 DEF CheckQuit, QuitSeen, Goto, TypeOK, WorkerLocs, Threads, Workers
  <2>a. IF quit THEN pc[0] = "join" ELSE pc[0] \in InCall
    <3>1. /\ pc[0] \notin BeforeCall \cup Handing \cup {"quitStart"}
          /\ pc[0] \notin Leaving /\ (pc[0] = "join" => pc[w] = "woken")
      BY <2>0 DEF PhaseInv
    <3>2. pc[0] \in {"join"} \cup InCall
      BY <3>1 DEF TypeOK, MainLocs, BeforeCall, Handing, InCall, Leaving
    <3> QED  BY <2>0, <3>1, <3>2 DEF QuitInv, InCall, Leaving
  <2>b. task' = task /\ task \in [Threads -> [fn : 0..MaxCalls, arg : 0..MaxCalls]]
    BY <1>1 DEF CheckQuit, TypeOK
  <2>1. TypeOK'
    <3>1. \A v \in Workers : pc'[v] \in WorkerLocs
      BY <2>0, ThreadsAndWorkers DEF TypeOK, WorkerLocs
    <3> QED  BY <2>0, <2>b, <3>1 DEF TypeOK
  <2>2. WaitingInv'
    BY <2>0 DEF WaitingInv, TypeOK, Barriers
  <2>3. CreatedInv'
    <3>1. \A v \in Workers : pc'[v] = "absent" <=> pc[v] = "absent"
      BY <2>0 DEF Threads, Workers
    <3> QED  BY <2>0, <3>1 DEF CreatedInv
  <2>4. PhaseInv'
    <3>1. \A v \in Workers : v # w => pc'[v] = pc[v]
      BY <2>0 DEF Threads, Workers
    <3> QED  BY <2>0, <2>a, <3>1 DEF PhaseInv, BeforeCall, Handing, InCall, Leaving
  <2>5. QuitInv'
    BY <2>0 DEF QuitInv
  <2>6. TaskInv'
    <3>1. \A v \in Workers : v # w => pc'[v] = pc[v]
      BY <2>0 DEF Threads, Workers
    <3>2. \A t \in Threads : t # w => task'[t] = task[t]
      BY <2>b
    <3>3. \A v \in Workers : v \in Threads
      BY DEF Threads, Workers
    <3> QED  BY <2>0, <2>a, <2>b, <3>1, <3>2, <3>3 DEF TaskInv, BeforeCall, Handing, InCall, Leaving
  <2>7. RanInv'
    <3>1. \A t \in Threads : HasDone(t)' <=> HasDone(t)
      BY <2>0, <2>a DEF HasDone, BeforeCall, Handing, InCall, Leaving
    <3> QED  BY <2>0, <3>1 DEF RanInv, Upto
  <2> QED  BY <2>1, <2>2, <2>3, <2>4, <2>5, <2>6, <2>7
<1>2. ASSUME FetchFn(w) PROVE IInv'
  <2>0. /\ pc[w] = "fetchFn" /\ w # 0 /\ w \in Threads /\ 0 \in Threads
        /\ pc'[w] = "fetchArg" /\ pc'[0] = pc[0]
        /\ \A t \in Threads : t # w => pc'[t] = pc[t]
        /\ pc' \in [Threads -> MainLocs \cup WorkerLocs]
        /\ UNCHANGED <<created, hasThreads, waiting, fn, arg, quit, call, ran>>
    BY SMTT(30), <1>2 DEF FetchFn, Goto, TypeOK, WorkerLocs, Threads, Workers
  <2>a. pc[0] \in InCall
    BY <2>0, CallerInCall
  <2>b. /\ task' \in [Threads -> [fn : 0..MaxCalls, arg : 0..MaxCalls]]
        /\ task'[w].fn = fn /\ \A t \in Threads : t # w => task'[t] = task[t]
    BY <1>2, <2>0 DEF FetchFn, TypeOK
  <2>1. TypeOK'
    <3>1. \A v \in Workers : pc'[v] \in WorkerLocs
      BY <2>0, ThreadsAndWorkers DEF TypeOK, WorkerLocs
    <3> QED  BY <2>0, <2>b, <3>1 DEF TypeOK
  <2>2. WaitingInv'
    BY <2>0 DEF WaitingInv, TypeOK, Barriers
  <2>3. CreatedInv'
    <3>1. \A v \in Workers : pc'[v] = "absent" <=> pc[v] = "absent"
      BY <2>0 DEF Threads, Workers
    <3> QED  BY <2>0, <3>1 DEF CreatedInv
  <2>4. PhaseInv'
    <3>1. \A v \in Workers : v # w => pc'[v] = pc[v]
      BY <2>0 DEF Threads, Workers
    <3> QED  BY <2>0, <2>a, <3>1 DEF PhaseInv, BeforeCall, Handing, InCall, Leaving
  <2>5. QuitInv'
    BY <2>0 DEF QuitInv
  <2>6. TaskInv'
    <3>1. \A v \in Workers : v # w => pc'[v] = pc[v]
      BY <2>0 DEF Threads, Workers
    <3>2. \A t \in Threads : t # w => task'[t] = task[t]
      BY <2>b
    <3>3. \A v \in Workers : v \in Threads
      BY DEF Threads, Workers
    <3> QED  BY <2>0, <2>a, <2>b, <3>1, <3>2, <3>3 DEF TaskInv, BeforeCall, Handing, InCall, Leaving
  <2>7. RanInv'
    <3>1. \A t \in Threads : HasDone(t)' <=> HasDone(t)
      BY <2>0, <2>a DEF HasDone, BeforeCall, Handing, InCall, Leaving
    <3> QED  BY <2>0, <3>1 DEF RanInv, Upto
  <2> QED  BY <2>1, <2>2, <2>3, <2>4, <2>5, <2>6, <2>7
<1>3. ASSUME FetchArg(w) PROVE IInv'
  <2>0. /\ pc[w] = "fetchArg" /\ w # 0 /\ w \in Threads /\ 0 \in Threads
        /\ pc'[w] = "run" /\ pc'[0] = pc[0]
        /\ \A t \in Threads : t # w => pc'[t] = pc[t]
        /\ pc' \in [Threads -> MainLocs \cup WorkerLocs]
        /\ UNCHANGED <<created, hasThreads, waiting, fn, arg, quit, call, ran>>
    BY <1>3 DEF FetchArg, Goto, TypeOK, WorkerLocs, Threads, Workers
  <2>a. pc[0] \in InCall
    BY <2>0, CallerInCall
  <2>b. /\ task' \in [Threads -> [fn : 0..MaxCalls, arg : 0..MaxCalls]]
        /\ task'[w] = [fn |-> task[w].fn, arg |-> arg]
        /\ \A t \in Threads : t # w => task'[t] = task[t]
    BY <1>3, <2>0 DEF FetchArg, TypeOK
  <2>1. TypeOK'
    <3>1. \A v \in Workers : pc'[v] \in WorkerLocs
      BY <2>0, ThreadsAndWorkers DEF TypeOK, WorkerLocs
    <3> QED  BY <2>0, <2>b, <3>1 DEF TypeOK
  <2>2. WaitingInv'
    BY <2>0 DEF WaitingInv, TypeOK, Barriers
  <2>3. CreatedInv'
    <3>1. \A v \in Workers : pc'[v] = "absent" <=> pc[v] = "absent"
      BY <2>0 DEF Threads, Workers
    <3> QED  BY <2>0, <3>1 DEF CreatedInv
  <2>4. PhaseInv'
    <3>1. \A v \in Workers : v # w => pc'[v] = pc[v]
      BY <2>0 DEF Threads, Workers
    <3> QED  BY <2>0, <2>a, <3>1 DEF PhaseInv, BeforeCall, Handing, InCall, Leaving
  <2>5. QuitInv'
    BY <2>0 DEF QuitInv
  <2>6. TaskInv'
    <3>1. \A v \in Workers : v # w => pc'[v] = pc[v]
      BY <2>0 DEF Threads, Workers
    <3>2. \A t \in Threads : t # w => task'[t] = task[t]
      BY <2>b
    <3>3. \A v \in Workers : v \in Threads
      BY DEF Threads, Workers
    <3> QED  BY <2>0, <2>a, <2>b, <3>1, <3>2, <3>3 DEF TaskInv, BeforeCall, Handing, InCall, Leaving
  <2>7. RanInv'
    <3>1. \A t \in Threads : HasDone(t)' <=> HasDone(t)
      BY <2>0, <2>a DEF HasDone, BeforeCall, Handing, InCall, Leaving
    <3> QED  BY <2>0, <3>1 DEF RanInv, Upto
  <2> QED  BY <2>1, <2>2, <2>3, <2>4, <2>5, <2>6, <2>7
<1> QED  BY <1>1, <1>2, <1>3 DEF Worker

(* A thread that runs its part holds the current task, and has not yet     *)
(* done it. *)
LEMMA RunStep ==
    ASSUME IInv, NEW t \in Threads, Run(t)
    PROVE  /\ pc[0] \in InCall /\ pc[t] = "run"
           /\ task[t].arg = call /\ call \in 0..MaxCalls /\ call > 0
           /\ ran[t] = Upto(call - 1)
<1> USE DEF IInv
<1>0. pc[t] = "run"
  BY DEF Run
<1>a. pc[0] \in InCall
  <2>1. CASE t = 0
    BY <1>0, <2>1 DEF InCall
  <2>2. CASE t # 0
    BY <1>0, <2>2, ThreadsAndWorkers, CallerInCall
  <2> QED  BY <2>1, <2>2
<1>b. task[t] = [fn |-> call, arg |-> call]
  BY <1>0, <1>a, ThreadsAndWorkers DEF TaskInv, InCall
<1>c. ~HasDone(t)
  BY <1>0, <1>a DEF HasDone, BeforeCall, InCall, Leaving
<1> QED  BY <1>0, <1>a, <1>b, <1>c DEF RanInv, TypeOK

LEMMA RunKeepsIInv ==
    ASSUME IInv, NEW t \in Threads, Run(t)
    PROVE  IInv'
<1> USE PoolAssumption DEF IInv
<1>0. /\ pc[t] = "run" /\ pc'[t] = "end" /\ 0 \in Threads
      /\ \A u \in Threads : u # t => pc'[u] = pc[u]
      /\ DOMAIN pc' = Threads
      /\ ran' = [ran EXCEPT ![t] = Append(@, task[t].arg)]
      /\ UNCHANGED <<created, hasThreads, waiting, fn, arg, quit, call, task>>
  BY ThreadsAndWorkers DEF Run, Goto, TypeOK
<1>a. pc[0] \in InCall /\ pc'[0] \in InCall
  BY <1>0, RunStep DEF InCall
<1>b. task[t].arg = call /\ call \in 0..MaxCalls /\ call > 0 /\ ran[t] = Upto(call - 1)
  BY RunStep
<1>c. ran'[t] = Upto(call) /\ \A u \in Threads : u # t => ran'[u] = ran[u]
  <2>1. Append(Upto(call - 1), call) = Upto(call)
    BY <1>b, UptoNext
  <2>2. ran'[t] = Append(ran[t], task[t].arg) /\ \A u \in Threads : u # t => ran'[u] = ran[u]
    BY <1>0 DEF TypeOK
  <2> QED  BY <1>b, <2>1, <2>2
<1>1. TypeOK'
  <2>1. \A w \in Workers : pc'[w] \in WorkerLocs
    BY <1>0, ThreadsAndWorkers DEF TypeOK, WorkerLocs
  <2>2. pc'[0] \in MainLocs
    BY <1>a DEF InCall, MainLocs
  <2>3. pc' \in [Threads -> MainLocs \cup WorkerLocs]
    <3>1. pc' = [u \in Threads |-> pc'[u]]
      BY <1>0 DEF Run, Goto, TypeOK
    <3> QED  BY <2>1, <2>2, <3>1, ThreadsAndWorkers
  <2>4. ran' \in [Threads -> Seq(0..MaxCalls)]
    BY <1>0, <1>b DEF TypeOK
  <2> QED  BY <1>0, <2>1, <2>2, <2>3, <2>4 DEF TypeOK
<1>2. WaitingInv'
  BY <1>0 DEF WaitingInv, TypeOK, Barriers
<1>3. CreatedInv'
  <2>1. \A w \in Workers : pc'[w] = "absent" <=> pc[w] = "absent"
    BY <1>0, ThreadsAndWorkers
  <2> QED  BY <1>0, <1>a, <2>1 DEF CreatedInv, InCall, Handing
<1>4. PhaseInv'
  <2>1. ASSUME NEW w \in Workers
        PROVE  pc'[w] \in {"woken", "fetchFn", "fetchArg", "run", "end"}
    BY <1>0, <1>a, ThreadsAndWorkers DEF PhaseInv
  <2> QED  BY <1>a, <2>1 DEF PhaseInv, BeforeCall, Handing, InCall, Leaving
<1>5. QuitInv'
  BY <1>0, <1>a DEF QuitInv, InCall, Leaving
<1>6. TaskInv'
  <2>1. pc'[0] \notin Handing /\ (pc'[0] = "run" => pc[0] = "run")
    BY <1>0, <1>a DEF Handing, InCall
  <2>2. fn' = call' /\ arg' = call'
    BY <1>0, <1>a DEF TaskInv
  <2>3. \A w \in Workers : pc'[w] \in {"fetchArg", "run"} => pc'[w] = pc[w]
    BY <1>0, ThreadsAndWorkers
  <2> QED  BY <1>0, <2>1, <2>2, <2>3 DEF TaskInv, Handing
<1>7. RanInv'
  <2>1. HasDone(t)'
    BY <1>0, <1>a DEF HasDone
  <2>2. ASSUME NEW u \in Threads, u # t
        PROVE  HasDone(u)' <=> HasDone(u)
    BY <1>0, <1>a, <2>2 DEF HasDone, BeforeCall, InCall, Leaving
  <2> QED  BY <1>0, <1>b, <1>c, <2>1, <2>2 DEF RanInv, Upto
<1> QED  BY <1>1, <1>2, <1>3, <1>4, <1>5, <1>6, <1>7

(* Arriving at a barrier that stays closed changes nothing but who waits. *)
LEMMA WaitKeepsIInv ==
    ASSUME IInv, NEW t \in Threads, NEW b \in Barriers,
           b = "bar_start" => pc[t] \in {"start", "quitStart"},
           b = "bar_end" => pc[t] = "end",
           waiting' = [waiting EXCEPT ![b] = waiting[b] \cup {t}],
           UNCHANGED <<pc, created, hasThreads, fn, arg, quit, call, task, ran>>
    PROVE  IInv'
<1> USE DEF IInv
<1>1. TypeOK'
  BY DEF TypeOK
<1>2. WaitingInv'
  <2>1. waiting'[b] = waiting[b] \cup {t} /\ \A c \in Barriers : c # b => waiting'[c] = waiting[c]
    BY DEF TypeOK
  <2> QED  BY <2>1 DEF WaitingInv, Barriers
<1>3. CreatedInv' /\ PhaseInv' /\ QuitInv' /\ TaskInv' /\ RanInv'
  BY DEF CreatedInv, PhaseInv, QuitInv, TaskInv, RanInv, HasDone, Upto
<1> QED  BY <1>1, <1>2, <1>3

LEMMA StartKeepsIInv ==
    ASSUME IInv, NEW t \in Threads, ArriveStart(t)
    PROVE  IInv'
<1> USE PoolAssumption DEF IInv
<1>0. pc[t] \in {"start", "quitStart"} /\ UNCHANGED <<created, hasThreads, fn, arg, quit, call, task, ran>>
  BY DEF ArriveStart
<1>1. CASE ~Opens(waiting["bar_start"] \cup {t})
  <2>1. waiting' = [waiting EXCEPT !["bar_start"] = waiting["bar_start"] \cup {t}] /\ pc' = pc
    BY <1>1 DEF ArriveStart, BarrierWait
  <2> QED  BY <1>0, <2>1, WaitKeepsIInv DEF Barriers
<1>2. CASE Opens(waiting["bar_start"] \cup {t})
  <2>1. waiting["bar_start"] \cup {t} = Threads
    BY <1>2, OpensForAll DEF Opens, TypeOK, Barriers
  <2>2. /\ waiting' = [waiting EXCEPT !["bar_start"] = {}]
        /\ pc' = [u \in Threads |-> AfterStart(u)]
    BY <1>2, <2>1 DEF ArriveStart, BarrierWait
  <2>3. \A u \in Threads : pc[u] \in {"start", "quitStart"}
    BY <1>0, <2>1 DEF WaitingInv
  <2>a. pc[0] \in {"start", "quitStart"} /\ pc'[0] = IF pc[0] = "start" THEN "run" ELSE "join"
    BY <2>2, <2>3, ThreadsAndWorkers DEF AfterStart
  <2>b. \A w \in Workers : pc[w] = "start" /\ pc'[w] = "woken"
    BY <2>2, <2>3, ThreadsAndWorkers DEF AfterStart, TypeOK, WorkerLocs
  <2>c. waiting' \in [Barriers -> SUBSET Threads] /\ waiting'["bar_start"] = {}
        /\ waiting'["bar_end"] = waiting["bar_end"]
    BY <2>2 DEF TypeOK, Barriers
  <2>d. created = N - 1
    <3>1. \A w \in Workers : ~(w > created)
      BY <2>b DEF CreatedInv
    <3>2. created \in 0..N-1 /\ N - 1 \in Workers
      BY DEF TypeOK, Workers
    <3> QED  BY <3>1, <3>2
  <2>3a. TypeOK'
    <3>1. pc' \in [Threads -> MainLocs \cup WorkerLocs]
      BY <2>2 DEF AfterStart, MainLocs, WorkerLocs
    <3> QED  BY <1>0, <2>a, <2>b, <2>c, <3>1 DEF TypeOK, MainLocs, WorkerLocs
  <2>4. WaitingInv'
    <3>1. waiting["bar_end"] = {}
      BY <2>3, <2>c DEF WaitingInv, TypeOK, Barriers
    <3> QED  BY <2>c, <3>1 DEF WaitingInv
  <2>5. CreatedInv'
    BY <1>0, <2>a, <2>b, <2>d DEF CreatedInv, Handing, InCall
  <2>6. PhaseInv'
    BY <2>a, <2>b DEF PhaseInv, BeforeCall, Handing, InCall, Leaving
  <2>7. QuitInv'
    BY <1>0, <2>a DEF QuitInv, Leaving
  <2>8. TaskInv'
    BY <1>0, <2>a, <2>b DEF TaskInv, Handing, InCall
  <2>9. RanInv'
    <3>1. CASE pc[0] = "start"
      <4>1. \A u \in Threads : ~HasDone(u) /\ ~HasDone(u)'
        BY <2>a, <2>b, <3>1, ThreadsAndWorkers DEF HasDone, BeforeCall, InCall, Leaving
      <4> QED  BY <1>0, <4>1 DEF RanInv, Upto
    <3>2. CASE pc[0] = "quitStart"
      <4>1. \A u \in Threads : HasDone(u) /\ HasDone(u)'
        BY <2>a, <3>2 DEF HasDone
      <4> QED  BY <1>0, <4>1 DEF RanInv, Upto
    <3> QED  BY <2>a, <3>1, <3>2
  <2> QED  BY <2>3a, <2>4, <2>5, <2>6, <2>7, <2>8, <2>9
<1> QED  BY <1>1, <1>2

LEMMA EndKeepsIInv ==
    ASSUME IInv, NEW t \in Threads, ArriveEnd(t)
    PROVE  IInv'
<1> USE PoolAssumption DEF IInv
<1>0. pc[t] = "end" /\ UNCHANGED <<created, hasThreads, fn, arg, quit, call, task, ran>>
  BY DEF ArriveEnd
<1>1. CASE ~Opens(waiting["bar_end"] \cup {t})
  <2>1. waiting' = [waiting EXCEPT !["bar_end"] = waiting["bar_end"] \cup {t}] /\ pc' = pc
    BY <1>1 DEF ArriveEnd, BarrierWait
  <2> QED  BY <1>0, <2>1, WaitKeepsIInv DEF Barriers
<1>2. CASE Opens(waiting["bar_end"] \cup {t})
  <2>1. waiting["bar_end"] \cup {t} = Threads
    BY <1>2, OpensForAll DEF Opens, TypeOK, Barriers
  <2>2. /\ waiting' = [waiting EXCEPT !["bar_end"] = {}]
        /\ pc' = [u \in Threads |-> AfterEnd(u)]
    BY <1>2, <2>1 DEF ArriveEnd, BarrierWait
  <2>3. \A u \in Threads : pc[u] = "end"
    BY <1>0, <2>1 DEF WaitingInv
  <2>a. pc[0] = "end" /\ pc'[0] = "idle"
    BY <2>2, <2>3, ThreadsAndWorkers DEF AfterEnd
  <2>b. \A w \in Workers : pc[w] = "end" /\ pc'[w] = "start"
    BY <2>2, <2>3, ThreadsAndWorkers DEF AfterEnd
  <2>c. waiting' \in [Barriers -> SUBSET Threads] /\ waiting'["bar_end"] = {}
        /\ waiting'["bar_start"] = waiting["bar_start"]
    BY <2>2 DEF TypeOK, Barriers
  <2>4. TypeOK'
    <3>1. pc' \in [Threads -> MainLocs \cup WorkerLocs]
      BY <2>2 DEF AfterEnd, MainLocs, WorkerLocs
    <3> QED  BY <1>0, <2>a, <2>b, <2>c, <3>1 DEF TypeOK, MainLocs, WorkerLocs
  <2>5. WaitingInv'
    <3>1. waiting["bar_start"] = {}
      BY <2>3, <2>c DEF WaitingInv, TypeOK, Barriers
    <3> QED  BY <2>c, <3>1 DEF WaitingInv
  <2>6. CreatedInv'
    BY <1>0, <2>a, <2>b DEF CreatedInv, Handing, InCall
  <2>7. PhaseInv'
    BY <2>a, <2>b DEF PhaseInv, BeforeCall, Handing, InCall, Leaving
  <2>8. QuitInv'
    BY <1>0, <2>a DEF QuitInv, Leaving
  <2>9. TaskInv'
    BY <1>0, <2>a, <2>b DEF TaskInv, Handing, InCall
  <2>10. RanInv'
    <3>1. \A u \in Threads : HasDone(u) /\ HasDone(u)'
      BY <2>a, <2>3 DEF HasDone, BeforeCall, InCall
    <3> QED  BY <1>0, <3>1 DEF RanInv, Upto
  <2> QED  BY <2>4, <2>5, <2>6, <2>7, <2>8, <2>9, <2>10
<1> QED  BY <1>1, <1>2

LEMMA StepIInv == IInv /\ [Next]_vars => IInv'
<1> SUFFICES ASSUME IInv, [Next]_vars PROVE IInv'
  OBVIOUS
<1>1. CASE Caller
  BY <1>1, CallerKeepsIInv
<1>2. ASSUME NEW t \in Threads, Anyone(t) PROVE IInv'
  BY <1>2, StartKeepsIInv, EndKeepsIInv, RunKeepsIInv DEF Anyone
<1>3. ASSUME NEW w \in Workers, Worker(w) PROVE IInv'
  BY <1>3, WorkerKeepsIInv
<1>4. CASE UNCHANGED vars
  BY <1>4 DEF vars, IInv, TypeOK, WaitingInv, CreatedInv, PhaseInv, QuitInv, TaskInv, RanInv,
     HasDone, Upto
<1> QED  BY <1>1, <1>2, <1>3, <1>4 DEF Next, Done

-----------------------------------------------------------------------------
(* What it gives. *)

(* The inductive invariant holds of every pool. *)
THEOREM Invariance == Spec => []IInv
  BY InitIInv, StepIInv, PTL DEF Spec

(* Every variable of the pool keeps to its values (threadpool.c:16-24).    *)
THEOREM TypeCorrect == Spec => []TypeOK
<1>1. IInv => TypeOK
  BY DEF IInv
<1> QED  BY Invariance, <1>1, PTL

(* When a call of pool_run has returned, each thread has executed every    *)
(* task exactly once and in order, for any number of threads.              *)
THEOREM EveryCallComplete == Spec => []CallsComplete
<1>1. IInv => CallsComplete
  BY DEF IInv, CallsComplete, RanInv, HasDone, BeforeCall, Upto
<1> QED  BY Invariance, <1>1, PTL

(* No thread executes a stale task or half of one.                         *)
THEOREM EveryTaskCurrent == Spec => []TaskIsCurrent
<1>1. IInv => TaskIsCurrent
  <2> SUFFICES ASSUME IInv, NEW t \in Threads, pc[t] = "run"
               PROVE  task[t] = [fn |-> call, arg |-> call]
    BY DEF TaskIsCurrent
  <2>1. CASE t = 0
    BY <2>1 DEF IInv, TaskInv
  <2>2. CASE t \in Workers
    BY <2>2 DEF IInv, TaskInv, TypeOK, WorkerLocs
  <2> QED  BY <2>1, <2>2, ThreadsAndWorkers
<1> QED  BY Invariance, <1>1, PTL

(* The pool is freed only when no worker can touch it any more.            *)
THEOREM PoolFreedAlone == Spec => []FreedAlone
<1>1. IInv => FreedAlone
  BY DEF IInv, FreedAlone, PhaseInv, Leaving
<1> QED  BY Invariance, <1>1, PTL

(* The task slot is written only while every worker is before bar_start.   *)
THEOREM SlotNeverRaces == Spec => SlotWrittenAlone
<1>1. IInv /\ [Next]_vars =>
        [<<fn, arg>>' # <<fn, arg>> => \A w \in Workers : pc[w] = "start"]_vars
  <2> SUFFICES ASSUME IInv, Next, <<fn, arg>>' # <<fn, arg>>, NEW w \in Workers
               PROVE  pc[w] = "start"
    BY DEF vars
  <2>1. SetFn \/ SetArg
    <3>1. ASSUME NEW t \in Threads, Anyone(t) PROVE UNCHANGED <<fn, arg>>
      BY <3>1 DEF Anyone, ArriveStart, ArriveEnd, Run
    <3>2. ASSUME NEW v \in Workers, Worker(v) PROVE UNCHANGED <<fn, arg>>
      BY <3>2 DEF Worker, CheckQuit, FetchFn, FetchArg
    <3>3. CASE Caller
      BY <3>3 DEF Caller, Alloc, AllocFails, CreateWorker, CreateFails, Created,
         CallDestroy, SetQuit, NothingToStop, Join, Free
    <3>4. CASE Done
      BY <3>4 DEF Done, vars
    <3> QED  BY <3>1, <3>2, <3>3, <3>4 DEF Next
  <2>2. pc[0] \in {"idle", "setArg"}
    BY <2>1 DEF SetFn, SetArg
  <2>3. created = N - 1
    BY <2>2 DEF IInv, CreatedInv, Handing
  <2> QED  BY <2>2, <2>3, PoolAssumption DEF IInv, CreatedInv, PhaseInv, BeforeCall, Handing, Workers
<1> QED  BY Invariance, <1>1, PTL DEF Spec, SlotWrittenAlone

-----------------------------------------------------------------------------
(* The pool implements the fork-join.  By RanInv the threads that have     *)
(* done the current call are exactly those that have executed as many      *)
(* tasks as calls were made.                                               *)

LEMMA DidIsHasDone ==
    ASSUME IInv
    PROVE  Did = {t \in Threads : HasDone(t)}
<1>1. call \in Nat
  BY PoolAssumption DEF IInv, TypeOK
<1>2. ASSUME NEW c \in Nat PROVE Len(Upto(c)) = c
  BY <1>2 DEF Upto
<1>3. \A t \in Threads : Len(ran[t]) = call <=> HasDone(t)
  BY <1>1, <1>2 DEF IInv, RanInv
<1> QED  BY <1>3 DEF Did

(* A step of the caller is one of the abstract steps, or none. *)
LEMMA CallerImplements ==
    ASSUME IInv, IInv', Caller
    PROVE  [Abstract!Next]_(Abstract!vars)
<1>0. 0 \in Threads /\ pc \in [Threads -> MainLocs \cup WorkerLocs]
  BY ThreadsAndWorkers DEF IInv, TypeOK
<1>1. CASE SetFn
  <2>1. pc[0] = "idle" /\ pc'[0] = "setArg" /\ call' = call + 1
    BY <1>0, <1>1 DEF SetFn, Goto
  <2>2. \A t \in Threads : ~HasDone(t)'
    BY <2>1 DEF HasDone, BeforeCall, InCall, Leaving
  <2>3. Did' = {}
    <3>1. call' \in Nat
      BY PoolAssumption DEF IInv, TypeOK
    <3>2. ASSUME NEW t \in Threads PROVE Len(ran'[t]) # call'
      <4>1. ran'[t] = Upto(call' - 1) /\ call' - 1 \in Nat
        BY <2>1, <2>2, <3>1, PoolAssumption DEF IInv, RanInv, TypeOK
      <4>2. Len(ran'[t]) = call' - 1
        BY <4>1 DEF Upto
      <4>3. \A c \in Nat : c - 1 # c
        OBVIOUS
      <4> QED  BY <3>1, <4>2, <4>3
    <3> QED  BY <3>2 DEF Did
  <2> QED  BY <2>1, <2>3 DEF Abstract!Next, Abstract!Fork, Phase, Busy
<1>2. CASE AllocFails \/ CreateFails \/ CallDestroy
  <2>1. pc[0] \in {"alloc", "create", "idle"} /\ pc'[0] = "destroy" /\ UNCHANGED <<call, ran>>
    BY <1>0, <1>2 DEF AllocFails, CreateFails, CallDestroy, Goto
  <2> QED  BY <2>1 DEF Abstract!Next, Abstract!Retire, Phase, Busy, Did
<1>3. CASE Alloc \/ CreateWorker \/ Created
  <2>1. pc[0] \in {"alloc", "create"} /\ pc'[0] \in {"create", "idle"} /\ UNCHANGED <<call, ran>>
    BY SMTT(30), <1>0, <1>3 DEF Alloc, CreateWorker, Created, Goto, IInv, TypeOK
  <2> QED  BY <2>1 DEF Abstract!vars, Phase, Did
<1>4. CASE SetArg
  <2>1. pc[0] = "setArg" /\ pc'[0] = "start" /\ UNCHANGED <<call, ran>>
    BY <1>0, <1>4 DEF SetArg, Goto
  <2> QED  BY <2>1 DEF Abstract!vars, Phase, Did, Busy
<1>5. CASE SetQuit \/ NothingToStop \/ Join \/ Free
  <2>1. /\ pc[0] \in {"destroy", "join", "free"} /\ pc'[0] \in {"quitStart", "free", "gone"}
        /\ UNCHANGED <<call, ran>>
    BY <1>0, <1>5 DEF SetQuit, NothingToStop, Join, Free, Goto
  <2> QED  BY <2>1 DEF Abstract!vars, Phase, Did, Busy
<1> QED  BY <1>1, <1>2, <1>3, <1>4, <1>5 DEF Caller

(* So is a barrier or a task. *)
LEMMA AnyoneImplements ==
    ASSUME IInv, NEW t \in Threads, Anyone(t)
    PROVE  [Abstract!Next]_(Abstract!vars)
<1>1. CASE Run(t)
  <2>1. /\ pc[0] \in InCall /\ ran[t] = Upto(call - 1)
        /\ call \in Nat /\ call > 0
    BY <1>1, RunStep, PoolAssumption
  <2>2. Len(ran[t]) = call - 1 /\ ran[t] \in Seq(0..MaxCalls)
    <3>1. call - 1 \in Nat
      BY <2>1
    <3>2. Len(Upto(call - 1)) = call - 1
      BY <3>1 DEF Upto
    <3>3. ran[t] \in Seq(0..MaxCalls)
      BY DEF IInv, TypeOK
    <3> QED  BY <2>1, <3>2, <3>3
  <2>3. /\ ran'[t] = Append(ran[t], task[t].arg) /\ call' = call
        /\ \A u \in Threads : u # t => ran'[u] = ran[u]
    BY <1>1 DEF Run, IInv, TypeOK
  <2>4. t \notin Did /\ Did' = Did \cup {t}
    BY <2>1, <2>2, <2>3 DEF Did
  <2>5. pc'[0] \in InCall
    BY <1>1, <2>1, ThreadsAndWorkers DEF Run, Goto, InCall, IInv, TypeOK
  <2> QED  BY <2>1, <2>3, <2>4, <2>5 DEF Abstract!Next, Abstract!Work, Phase, Busy, InCall
<1>2. CASE ArriveStart(t)
  <2>0. UNCHANGED <<call, ran>>
    BY <1>2 DEF ArriveStart
  <2>1. CASE ~Opens(waiting["bar_start"] \cup {t})
    BY <1>2, <2>0, <2>1 DEF ArriveStart, BarrierWait, Abstract!vars, Phase, Did
  <2>2. CASE Opens(waiting["bar_start"] \cup {t})
    <3>1. waiting["bar_start"] \cup {t} = Threads
      BY <2>2, OpensForAll DEF Opens, IInv, TypeOK, Barriers
    <3>2. pc[0] \in {"start", "quitStart"}
      BY <1>2, <3>1, ThreadsAndWorkers DEF ArriveStart, IInv, WaitingInv
    <3>3. pc'[0] = IF pc[0] = "start" THEN "run" ELSE "join"
      BY <1>2, <2>2, <3>1, ThreadsAndWorkers DEF ArriveStart, BarrierWait, AfterStart
    <3> QED  BY <2>0, <3>2, <3>3 DEF Abstract!vars, Phase, Did, Busy
  <2> QED  BY <2>1, <2>2
<1>3. CASE ArriveEnd(t)
  <2>0. UNCHANGED <<call, ran>>
    BY <1>3 DEF ArriveEnd
  <2>1. CASE ~Opens(waiting["bar_end"] \cup {t})
    BY <1>3, <2>0, <2>1 DEF ArriveEnd, BarrierWait, Abstract!vars, Phase, Did
  <2>2. CASE Opens(waiting["bar_end"] \cup {t})
    <3>1. waiting["bar_end"] \cup {t} = Threads
      BY <2>2, OpensForAll DEF Opens, IInv, TypeOK, Barriers
    <3>2. \A u \in Threads : pc[u] = "end"
      BY <1>3, <3>1 DEF ArriveEnd, IInv, WaitingInv
    <3>3. pc[0] = "end" /\ pc'[0] = "idle"
      BY <1>3, <2>2, <3>1, <3>2, ThreadsAndWorkers DEF ArriveEnd, BarrierWait, AfterEnd
    <3>4. Did = Threads
      BY <3>2, <3>3, DidIsHasDone DEF HasDone, InCall
    <3> QED  BY <2>0, <3>3, <3>4 DEF Abstract!Next, Abstract!Join, Phase, Busy, Did
  <2> QED  BY <2>1, <2>2
<1> QED  BY <1>1, <1>2, <1>3 DEF Anyone

(* A worker between the barriers does nothing its callers can see. *)
LEMMA WorkerImplements ==
    ASSUME IInv, NEW w \in Workers, Worker(w)
    PROVE  UNCHANGED Abstract!vars
<1>1. pc'[0] = pc[0] /\ UNCHANGED <<call, ran>>
  BY ThreadsAndWorkers DEF Worker, CheckQuit, FetchFn, FetchArg, Goto, IInv, TypeOK
<1> QED  BY <1>1 DEF Abstract!vars, Phase, Did

(* Seen from its callers, the pool of any number of threads is a fork-join *)
(* (threadpool.c:75-85).                                                   *)
THEOREM PoolImplementsForkJoin == Spec => ImplementsForkJoin
<1>1. Init => Abstract!Init
  BY PoolAssumption DEF Init, Abstract!Init, Phase, Did, Threads
<1>2. IInv /\ IInv' /\ [Next]_vars => [Abstract!Next]_(Abstract!vars)
  <2> SUFFICES ASSUME IInv, IInv', [Next]_vars PROVE [Abstract!Next]_(Abstract!vars)
    OBVIOUS
  <2>1. CASE Caller
    BY <2>1, CallerImplements
  <2>2. ASSUME NEW t \in Threads, Anyone(t) PROVE [Abstract!Next]_(Abstract!vars)
    BY <2>2, AnyoneImplements
  <2>3. ASSUME NEW w \in Workers, Worker(w) PROVE [Abstract!Next]_(Abstract!vars)
    BY <2>3, WorkerImplements
  <2>4. CASE UNCHANGED vars
    BY <2>4 DEF vars, Abstract!vars, Phase, Did
  <2> QED  BY <2>1, <2>2, <2>3, <2>4 DEF Next, Done
<1> QED  BY Invariance, <1>1, <1>2, PTL DEF Spec, Abstract!Spec, ImplementsForkJoin
=============================================================================
