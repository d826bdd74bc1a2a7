------------------------------ MODULE ForkJoin ------------------------------
(***************************************************************************)
(* What the thread pool promises its caller: a call hands one task to all  *)
(* the threads, every thread does its part exactly once, and the call      *)
(* returns when all the parts are done.  The pool may be retired between   *)
(* calls.                                                                  *)
(***************************************************************************)
EXTENDS Naturals

CONSTANT Threads

VARIABLES phase,     \* "idle", "busy" (inside a call) or "gone"
          call,      \* number of the current or last call
          did        \* the threads that have done their part of it

vars == <<phase, call, did>>

Init == /\ phase = "idle"
        /\ call = 0
        /\ did = Threads

Fork == /\ phase = "idle"
        /\ phase' = "busy"
        /\ call' = call + 1
        /\ did' = {}

Work(t) == /\ phase = "busy"
           /\ t \notin did
           /\ did' = did \cup {t}
           /\ UNCHANGED <<phase, call>>

Join == /\ phase = "busy"
        /\ did = Threads
        /\ phase' = "idle"
        /\ UNCHANGED <<call, did>>

Retire == /\ phase = "idle"
          /\ phase' = "gone"
          /\ UNCHANGED <<call, did>>

Next == Fork \/ Join \/ Retire \/ \E t \in Threads : Work(t)

Spec == Init /\ [][Next]_vars
=============================================================================
