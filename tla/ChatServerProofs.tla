-------------------------- MODULE ChatServerProofs --------------------------
(***************************************************************************)
(* For any number of chats, any outputs and any size of the pipe: the      *)
(* safety invariants of ChatServer.                                        *)
(***************************************************************************)
EXTENDS ChatServer, TLAPS

-----------------------------------------------------------------------------
(* The inductive invariant. *)

Before == {"idle", "headers", "entering", "spawning"}
After  == {"reading", "wait", "done"}

(* Who holds the lock, and what a handler's location says of its child. *)
LockInv ==
    /\ \A c \in Chats : pc[c] = "spawning" <=> processLock = c
    /\ processLock # None => \A p \in Chats : child[p] = "running" => p \in signalled

HandlerInv ==
    \A c \in Chats :
        /\ pc[c] \in Before => child[c] = "none" /\ proc[c] = None
        /\ pc[c] = "capture" => child[c] # "none" /\ proc[c] = None /\ currentProcess # None
        /\ pc[c] \in After => proc[c] \in Chats
        /\ pc[c] = "done" => child[proc[c]] = "exited"

(* Only a child that was started is read, is current or has printed. *)
ChildInv ==
    /\ \A c \in Chats : proc[c] # None => child[proc[c]] # "none"
    /\ currentProcess # None => child[currentProcess] # "none"
    /\ \A p \in Chats : child[p] = "none" => written[p] = 0

(* What has been read and written so far.  A handler that is the only      *)
(* reader of its own child has passed on every generated line it has read, *)
(* for the marker comes before all of them.                                *)
SentOf(c) == {sent[c][k] : k \in 1..Len(sent[c])}

Increasing(c) ==
    /\ \A k \in 1..Len(sent[c]) : sent[c][k][2] <= taken[c]
    /\ \A k, l \in 1..Len(sent[c]) : k < l => sent[c][k][2] < sent[c][l][2]

PassedOn(c) ==
    /\ \A j \in 1..taken[c] : HasMarker(output[c][j]) => headerPassed[c]
    /\ \A i \in 1..taken[c] : output[c][i] \in {"first", "text"} => <<c, i>> \in SentOf(c)
    /\ pc[c] # "reading" => taken[c] = written[c] /\ child[c] = "exited"

StreamInv ==
    \A c \in Chats :
        /\ (\A d \in Chats : proc[d] # c) => taken[c] = 0
        /\ proc[c] = None => sent[c] = <<>>
        /\ Undisturbed(c) => Increasing(c)
        /\ Undisturbed(c) /\ c \in connected /\ pc[c] \in After => PassedOn(c)

ControlInv == LockInv /\ HandlerInv /\ ChildInv /\ Cancellable /\ StrayLostItsChild

IInv == TypeOK /\ ControlInv /\ StreamInv

-----------------------------------------------------------------------------
(* The initial states and the steps. *)

(* Nothing has been started, read or sent at first. *)
LEMMA InitInv == Init => IInv
  <1> SUFFICES ASSUME Init PROVE IInv
      OBVIOUS
  <1>1. TypeOK
    BY ChatAssumption DEF Init, TypeOK, Locs
  <1>2. ControlInv
    BY ChatAssumption DEF Init, ControlInv, LockInv, HandlerInv, ChildInv, Cancellable,
       StrayLostItsChild, Before, After
  <1>3. StreamInv
    BY ChatAssumption DEF Init, StreamInv, Undisturbed, After
  <1> QED
    BY <1>1, <1>2, <1>3 DEF IInv

(* A line that is taken is a line of the child the handler reads. *)
LEMMA TakenLine ==
    ASSUME TypeOK, HandlerInv, NEW c \in Chats, TakeLine(c)
    PROVE  /\ proc[c] \in Chats
           /\ taken[proc[c]] + 1 \in 1..written[proc[c]]
           /\ taken[proc[c]] + 1 \in 1..Len(output[proc[c]])
           /\ taken' \in [Chats -> Nat]
           /\ \A p \in Chats : taken'[p] = IF p = proc[c] THEN taken[p] + 1 ELSE taken[p]
  <1>1. proc[c] \in Chats
    BY DEF TakeLine, HandlerInv, After
  <1>2. /\ output[proc[c]] \in Seq(Kinds) /\ Len(output[proc[c]]) \in Nat
        /\ taken[proc[c]] \in Nat /\ written[proc[c]] \in Nat
        /\ written[proc[c]] <= Len(output[proc[c]])
    BY <1>1, ChatAssumption DEF TypeOK
  <1>3. taken[proc[c]] < written[proc[c]]
    BY DEF TakeLine
  <1>4. taken' \in [Chats -> Nat]
    BY <1>1, <1>2 DEF TakeLine, TypeOK
  <1>5. taken' = [taken EXCEPT ![proc[c]] = @ + 1] /\ taken \in [Chats -> Nat]
    BY DEF TakeLine, TypeOK
  <1>6. taken[proc[c]] + 1 \in 1..written[proc[c]] /\ taken[proc[c]] + 1 \in 1..Len(output[proc[c]])
    BY <1>2, <1>3
  <1>7. \A p \in Chats : taken'[p] = IF p = proc[c] THEN taken[p] + 1 ELSE taken[p]
    BY <1>1, <1>5
  <1> QED
    BY <1>1, <1>4, <1>6, <1>7

(* What is written to a connection is one more line of that child. *)
LEMMA WrittenLine ==
    ASSUME TypeOK, HandlerInv, NEW c \in Chats, TakeLine(c), WriteLine(c)
    PROVE  /\ sent' \in [Chats -> Seq(Chats \X (Nat \ {0}))]
           /\ Len(sent'[c]) = Len(sent[c]) + 1
           /\ Len(sent[c]) \in Nat
           /\ sent'[c][Len(sent[c]) + 1] = <<proc[c], taken[proc[c]] + 1>>
           /\ \A k \in 1..Len(sent[c]) : sent'[c][k] = sent[c][k]
           /\ \A d \in Chats \ {c} : sent'[d] = sent[d]
  <1> DEFINE S == Chats \X (Nat \ {0})
             x == <<proc[c], taken[proc[c]] + 1>>
  <1>1. x \in S
    BY TakenLine
  <1>2. sent[c] \in Seq(S)
    BY DEF TypeOK
  <1>3. sent' = [sent EXCEPT ![c] = Append(sent[c], x)]
    BY DEF WriteLine
  <1>4. sent \in [Chats -> Seq(S)]
    BY DEF TypeOK
  <1> HIDE DEF S, x
  <1>5. Append(sent[c], x) \in Seq(S)
    BY <1>1, <1>2
  <1>6. /\ sent' \in [Chats -> Seq(S)] /\ sent'[c] = Append(sent[c], x)
        /\ \A d \in Chats \ {c} : sent'[d] = sent[d]
    BY <1>3, <1>4, <1>5
  <1>7. /\ Len(sent'[c]) = Len(sent[c]) + 1 /\ Len(sent[c]) \in Nat
        /\ sent'[c][Len(sent[c]) + 1] = x
        /\ \A k \in 1..Len(sent[c]) : sent'[c][k] = sent[c][k]
    BY <1>1, <1>2, <1>6
  <1> QED
    BY <1>6, <1>7 DEF S, x

(* Taking a line keeps the types if what is done with it does. *)
LEMMA TakeTypes ==
    ASSUME TypeOK, HandlerInv, NEW c \in Chats, TakeLine(c),
           pc' \in [Chats -> Locs], headerPassed' \in [Chats -> BOOLEAN],
           sent' \in [Chats -> Seq(Chats \X (Nat \ {0}))], signalled' \subseteq Chats
    PROVE  TypeOK'
  <1>1. UNCHANGED <<connected, processLock, currentProcess, proc, child, output, written>>
    BY DEF TakeLine, shared, children
  <1>2. \A p \in Chats : /\ taken'[p] <= written[p] /\ written[p] <= Len(output[p])
                          /\ written[p] - taken'[p] <= PipeCap
    <2> SUFFICES ASSUME NEW p \in Chats
                 PROVE  /\ taken'[p] <= written[p] /\ written[p] <= Len(output[p])
                        /\ written[p] - taken'[p] <= PipeCap
        OBVIOUS
    <2>1. /\ taken[p] \in Nat /\ written[p] \in Nat /\ taken[p] <= written[p]
          /\ written[p] <= Len(output[p]) /\ written[p] - taken[p] <= PipeCap
      BY DEF TypeOK
    <2>2. taken'[p] = IF p = proc[c] THEN taken[p] + 1 ELSE taken[p]
      BY TakenLine
    <2>3. p = proc[c] => taken[p] + 1 <= written[p]
      BY TakenLine, <2>1
    <2> QED
      BY <2>1, <2>2, <2>3, ChatAssumption
  <1> QED
    BY <1>1, <1>2, TakenLine DEF TypeOK

(* Where a handler goes. *)
LEMMA Moves ==
    ASSUME TypeOK, NEW c \in Chats, NEW loc \in Locs, Goto(c, loc)
    PROVE  /\ pc' \in [Chats -> Locs]
           /\ \A d \in Chats : pc'[d] = IF d = c THEN loc ELSE pc[d]
  <1>1. pc \in [Chats -> Locs] /\ pc' = [pc EXCEPT ![c] = loc]
    BY DEF TypeOK, Goto
  <1> QED
    BY <1>1

(* Every action keeps the types. *)
LEMMA TypeStep ==
    ASSUME IInv, Next PROVE TypeOK'
  <1> USE ChatAssumption
  <1> SUFFICES ASSUME TypeOK, HandlerInv, ChildInv, Next PROVE TypeOK'
      BY DEF IInv, ControlInv
  <1>0. \A p \in Chats : /\ output[p] \in Seq(Kinds) /\ Len(output[p]) \in Nat
                          /\ taken[p] \in Nat /\ written[p] \in Nat
    BY DEF TypeOK
  <1>a. \A p \in Chats : /\ taken[p] <= written[p] /\ written[p] <= Len(output[p])
                          /\ written[p] - taken[p] <= PipeCap
    BY DEF TypeOK
  <1>1. ASSUME NEW c \in Chats, Arrive(c) PROVE TypeOK'
    BY <1>0, <1>1 DEF Arrive, Goto, TypeOK, Locs, HandlerInv, handlers, shared, children, vars
  <1>2. ASSUME NEW c \in Chats, SendHeaders(c) PROVE TypeOK'
    <2>1. pc' \in [Chats -> Locs]
      BY <1>2, Moves DEF SendHeaders, Locs
    <2> QED
      BY <1>2, <2>1 DEF SendHeaders, TypeOK, shared, children
  <1>3. ASSUME NEW c \in Chats, Enter(c) PROVE TypeOK'
    BY <1>0, <1>3 DEF Enter, Goto, Terminated, TypeOK, Locs, HandlerInv, handlers, shared, children, vars
  <1>4. ASSUME NEW c \in Chats, Spawn(c) PROVE TypeOK'
    BY <1>0, <1>4 DEF Spawn, Goto, TypeOK, Locs, HandlerInv, handlers, shared, children, vars
  <1>5. ASSUME NEW c \in Chats, SpawnFails(c) PROVE TypeOK'
    BY <1>0, <1>5 DEF SpawnFails, Goto, TypeOK, Locs, HandlerInv, handlers, shared, children, vars
  <1>6. ASSUME NEW c \in Chats, Capture(c) PROVE TypeOK'
    BY <1>0, <1>6 DEF Capture, Goto, TypeOK, Locs, HandlerInv, handlers, shared, children, vars
  <1>7. ASSUME NEW c \in Chats, SkipHeader(c) PROVE TypeOK'
    BY <1>7, TakeTypes DEF SkipHeader, TypeOK
  <1>8. ASSUME NEW c \in Chats, FirstLine(c) PROVE TypeOK'
    <2>1. TakeLine(c)
      BY <1>8 DEF FirstLine
    <2>2. sent' \in [Chats -> Seq(Chats \X (Nat \ {0}))]
      BY <1>8, <2>1, WrittenLine DEF FirstLine, TypeOK
    <2>3. pc' \in [Chats -> Locs] /\ headerPassed' \in [Chats -> BOOLEAN] /\ signalled' \subseteq Chats
      BY <1>8, <2>1, TakenLine, Moves DEF FirstLine, Terminated, TypeOK, Locs
    <2> QED
      BY <2>1, <2>2, <2>3, TakeTypes
  <1>9. ASSUME NEW c \in Chats, DropLine(c) PROVE TypeOK'
    BY <1>9, TakeTypes DEF DropLine, TypeOK
  <1>10. ASSUME NEW c \in Chats, SendLine(c) PROVE TypeOK'
    <2>1. TakeLine(c)
      BY <1>10 DEF SendLine
    <2>2. sent' \in [Chats -> Seq(Chats \X (Nat \ {0}))]
      BY <1>10, <2>1, WrittenLine DEF SendLine, TypeOK
    <2>3. pc' \in [Chats -> Locs] /\ headerPassed' \in [Chats -> BOOLEAN] /\ signalled' \subseteq Chats
      <3>1. pc' \in [Chats -> Locs]
        BY <1>10, Moves DEF SendLine, TypeOK, Locs
      <3>2. signalled' \subseteq Chats
        <4>1. signalled \subseteq Chats /\ proc[c] \in Chats
          BY <2>1, TakenLine DEF TypeOK
        <4>2. signalled' \subseteq signalled \cup {proc[c]}
          BY <1>10 DEF SendLine, Terminated
        <4> QED
          BY <4>1, <4>2
      <3> QED
        BY <1>10, <3>1, <3>2 DEF SendLine, TypeOK
    <2> QED
      BY <2>1, <2>2, <2>3, TakeTypes
  <1>11. ASSUME NEW c \in Chats, EndOfOutput(c) PROVE TypeOK'
    BY <1>0, <1>11 DEF EndOfOutput, Goto, TypeOK, Locs, HandlerInv, handlers, shared, children, vars
  <1>12. ASSUME NEW c \in Chats, Finish(c) PROVE TypeOK'
    BY <1>0, <1>12 DEF Finish, Goto, TypeOK, Locs, HandlerInv, handlers, shared, children, vars
  <1>13. ASSUME NEW c \in Chats, Leave(c) PROVE TypeOK'
    BY <1>0, <1>13 DEF Leave, TypeOK, Locs, HandlerInv, handlers, shared, children, vars
  <1>14. ASSUME NEW c \in Chats, PrintLine(c) PROVE TypeOK'
    <2>1. /\ written[c] < Len(output[c]) /\ written[c] - taken[c] < PipeCap
          /\ written' = [written EXCEPT ![c] = @ + 1]
      BY <1>14 DEF PrintLine
    <2>2. /\ written' \in [Chats -> Nat] /\ written'[c] = written[c] + 1
          /\ \A p \in Chats \ {c} : written'[p] = written[p]
      BY <2>1 DEF TypeOK
    <2>3. \A p \in Chats : /\ taken[p] <= written'[p] /\ written'[p] <= Len(output[p])
                            /\ written'[p] - taken[p] <= PipeCap
      BY <1>0, <1>a, <2>1, <2>2
    <2> QED
      BY <1>14, <2>2, <2>3 DEF PrintLine, TypeOK, handlers, shared
  <1>15. ASSUME NEW c \in Chats, Exit(c) PROVE TypeOK'
    BY <1>0, <1>15 DEF Exit, TypeOK, Locs, HandlerInv, handlers, shared, children, vars
  <1>16. ASSUME NEW c \in Chats, Die(c) PROVE TypeOK'
    <2>1. child' \in [Chats -> {"none", "running", "exited"}]
      BY <1>16 DEF Die, TypeOK
    <2>2. CASE UNCHANGED written
      BY <1>16, <2>1, <2>2 DEF Die, TypeOK, handlers, shared
    <2>3. CASE /\ written[c] < Len(output[c]) /\ written[c] - taken[c] < PipeCap
               /\ written' = [written EXCEPT ![c] = @ + 1]
      <3>1. /\ written' \in [Chats -> Nat] /\ written'[c] = written[c] + 1
            /\ \A p \in Chats \ {c} : written'[p] = written[p]
        BY <2>3 DEF TypeOK
      <3>2. \A p \in Chats : /\ taken[p] <= written'[p] /\ written'[p] <= Len(output[p])
                              /\ written'[p] - taken[p] <= PipeCap
        BY <1>0, <1>a, <2>3, <3>1
      <3> QED
        BY <1>16, <2>1, <3>1, <3>2 DEF Die, TypeOK, handlers, shared
    <2> QED
      BY <1>16, <2>2, <2>3 DEF Die
  <1>17. ASSUME Stop PROVE TypeOK'
    BY <1>17 DEF Stop, Terminated, TypeOK, handlers, shared, children, vars
  <1> QED
    BY <1>1, <1>2, <1>3, <1>4, <1>5, <1>6, <1>7, <1>8, <1>9, <1>10, <1>11, <1>12, <1>13, <1>14, <1>15, <1>16, <1>17 DEF Next, Handler, Child

(* Every action keeps the control state consistent. *)
LEMMA ControlStep ==
    ASSUME IInv, TypeOK', Next PROVE ControlInv'
  <1> USE ChatAssumption
  <1> SUFFICES ASSUME TypeOK, TypeOK', ControlInv, Next PROVE ControlInv'
      BY DEF IInv
  <1> USE DEF ControlInv
  <1>0. /\ pc \in [Chats -> Locs] /\ proc \in [Chats -> Chats \cup {None}]
        /\ child \in [Chats -> {"none", "running", "exited"}] /\ written \in [Chats -> Nat]
        /\ currentProcess \in Chats \cup {None} /\ processLock \in Chats \cup {None}
        /\ signalled \subseteq Chats
    BY DEF TypeOK
  <1>1. ASSUME NEW c \in Chats, Arrive(c) PROVE ControlInv'
    <2>1. LockInv'
      BY <1>0, <1>1 DEF Arrive, Goto, LockInv, handlers, shared, children, vars
    <2>2. HandlerInv'
      BY <1>0, <1>1 DEF Arrive, Goto, LockInv, HandlerInv, ChildInv, Before, After, handlers, shared, children, vars
    <2>3. ChildInv'
      BY <1>0, <1>1 DEF Arrive, Goto, ChildInv, HandlerInv, Before, After, handlers, shared, children, vars
    <2>4. Cancellable'
      BY <1>0, <1>1 DEF Arrive, Goto, Cancellable, LockInv, HandlerInv, Before, handlers, shared, children, vars
    <2>5. StrayLostItsChild'
      BY <1>0, <1>1 DEF Arrive, Goto, StrayLostItsChild, Cancellable, HandlerInv, ChildInv, Before, After, handlers, shared, children, vars
    <2> QED
      BY <2>1, <2>2, <2>3, <2>4, <2>5
  <1>2. ASSUME NEW c \in Chats, SendHeaders(c) PROVE ControlInv'
    <2>1. LockInv'
      BY <1>0, <1>2 DEF SendHeaders, Goto, LockInv, handlers, shared, children, vars
    <2>2. HandlerInv'
      BY <1>0, <1>2 DEF SendHeaders, Goto, LockInv, HandlerInv, ChildInv, Before, After, handlers, shared, children, vars
    <2>3. ChildInv'
      BY <1>0, <1>2 DEF SendHeaders, Goto, ChildInv, HandlerInv, Before, After, handlers, shared, children, vars
    <2>4. Cancellable'
      BY <1>0, <1>2 DEF SendHeaders, Goto, Cancellable, LockInv, HandlerInv, Before, handlers, shared, children, vars
    <2>5. StrayLostItsChild'
      BY <1>0, <1>2 DEF SendHeaders, Goto, StrayLostItsChild, Cancellable, HandlerInv, ChildInv, Before, After, handlers, shared, children, vars
    <2> QED
      BY <2>1, <2>2, <2>3, <2>4, <2>5
  <1>3. ASSUME NEW c \in Chats, Enter(c) PROVE ControlInv'
    <2>1. LockInv'
      <3>1. \A d \in Chats : pc'[d] = IF d = c THEN "spawning" ELSE pc[d]
        BY <1>3, Moves DEF Enter, Locs
      <3>2. \A p \in Chats : child[p] = "running" => p \in signalled'
        BY <1>3 DEF Enter, Terminated, Cancellable
      <3> QED
        BY <1>3, <3>1, <3>2 DEF Enter, LockInv, children
    <2>2. HandlerInv'
      BY <1>0, <1>3 DEF Enter, Goto, Terminated, LockInv, HandlerInv, ChildInv, Before, After, handlers, shared, children, vars
    <2>3. ChildInv'
      BY <1>0, <1>3 DEF Enter, Goto, Terminated, ChildInv, HandlerInv, Before, After, handlers, shared, children, vars
    <2>4. Cancellable'
      BY <1>0, <1>3 DEF Enter, Goto, Terminated, Cancellable, LockInv, HandlerInv, Before, handlers, shared, children, vars
    <2>5. StrayLostItsChild'
      BY <1>0, <1>3 DEF Enter, Goto, Terminated, StrayLostItsChild, Cancellable, HandlerInv, ChildInv, Before, After, handlers, shared, children, vars
    <2> QED
      BY <2>1, <2>2, <2>3, <2>4, <2>5
  <1>4. ASSUME NEW c \in Chats, Spawn(c) PROVE ControlInv'
    <2>1. LockInv'
      BY <1>0, <1>4 DEF Spawn, Goto, LockInv, handlers, shared, children, vars
    <2>2. HandlerInv'
      BY <1>0, <1>4 DEF Spawn, Goto, LockInv, HandlerInv, ChildInv, Before, After, handlers, shared, children, vars
    <2>3. ChildInv'
      BY <1>0, <1>4 DEF Spawn, Goto, ChildInv, HandlerInv, Before, After, handlers, shared, children, vars
    <2>4. Cancellable'
      BY <1>0, <1>4 DEF Spawn, Goto, Cancellable, LockInv, HandlerInv, Before, handlers, shared, children, vars
    <2>5. StrayLostItsChild'
      BY <1>0, <1>4 DEF Spawn, Goto, StrayLostItsChild, Cancellable, HandlerInv, ChildInv, Before, After, handlers, shared, children, vars
    <2> QED
      BY <2>1, <2>2, <2>3, <2>4, <2>5
  <1>5. ASSUME NEW c \in Chats, SpawnFails(c) PROVE ControlInv'
    <2>1. LockInv'
      BY <1>0, <1>5 DEF SpawnFails, Goto, LockInv, handlers, shared, children, vars
    <2>2. HandlerInv'
      BY <1>0, <1>5 DEF SpawnFails, Goto, LockInv, HandlerInv, ChildInv, Before, After, handlers, shared, children, vars
    <2>3. ChildInv'
      BY <1>0, <1>5 DEF SpawnFails, Goto, ChildInv, HandlerInv, Before, After, handlers, shared, children, vars
    <2>4. Cancellable'
      BY <1>0, <1>5 DEF SpawnFails, Goto, Cancellable, LockInv, HandlerInv, Before, handlers, shared, children, vars
    <2>5. StrayLostItsChild'
      BY <1>0, <1>5 DEF SpawnFails, Goto, StrayLostItsChild, Cancellable, HandlerInv, ChildInv, Before, After, handlers, shared, children, vars
    <2> QED
      BY <2>1, <2>2, <2>3, <2>4, <2>5
  <1>6. ASSUME NEW c \in Chats, Capture(c) PROVE ControlInv'
    <2>1. LockInv'
      BY <1>0, <1>6 DEF Capture, Goto, LockInv, handlers, shared, children, vars
    <2>2. HandlerInv'
      BY <1>0, <1>6 DEF Capture, Goto, LockInv, HandlerInv, ChildInv, Before, After, handlers, shared, children, vars
    <2>3. ChildInv'
      <3>1. \A d \in Chats : proc'[d] = IF d = c THEN currentProcess ELSE proc[d]
        BY <1>0, <1>6 DEF Capture
      <3> QED
        BY <1>6, <3>1 DEF Capture, ChildInv, shared, children
    <2>4. Cancellable'
      BY <1>0, <1>6 DEF Capture, Goto, Cancellable, LockInv, HandlerInv, Before, handlers, shared, children, vars
    <2>5. StrayLostItsChild'
      BY <1>0, <1>6 DEF Capture, Goto, StrayLostItsChild, Cancellable, HandlerInv, ChildInv, Before, After, handlers, shared, children, vars
    <2> QED
      BY <2>1, <2>2, <2>3, <2>4, <2>5
  <1>7. ASSUME NEW c \in Chats, SkipHeader(c) PROVE ControlInv'
    <2>1. LockInv'
      BY <1>0, <1>7 DEF SkipHeader, TakeLine, Line, LockInv, handlers, shared, children, vars
    <2>2. HandlerInv'
      BY <1>0, <1>7 DEF SkipHeader, TakeLine, Line, LockInv, HandlerInv, ChildInv, Before, After, handlers, shared, children, vars
    <2>3. ChildInv'
      BY <1>0, <1>7 DEF SkipHeader, TakeLine, Line, ChildInv, HandlerInv, Before, After, handlers, shared, children, vars
    <2>4. Cancellable'
      BY <1>0, <1>7 DEF SkipHeader, TakeLine, Line, Cancellable, LockInv, HandlerInv, Before, handlers, shared, children, vars
    <2>5. StrayLostItsChild'
      BY <1>0, <1>7 DEF SkipHeader, TakeLine, Line, StrayLostItsChild, Cancellable, HandlerInv, ChildInv, Before, After, handlers, shared, children, vars
    <2> QED
      BY <2>1, <2>2, <2>3, <2>4, <2>5
  <1>8. ASSUME NEW c \in Chats, FirstLine(c) PROVE ControlInv'
    <2>1. pc[c] = "reading" /\ proc[c] \in Chats
      BY <1>8 DEF FirstLine, TakeLine, HandlerInv, After
    <2>2. UNCHANGED <<proc, processLock, currentProcess, child, written>>
      BY <1>8 DEF FirstLine, TakeLine, shared, children
    <2>3. UNCHANGED pc \/ Goto(c, "failed")
      BY <1>8 DEF FirstLine
    <2>4. UNCHANGED signalled
      BY <1>8 DEF FirstLine, Terminated
    <2>5. \A d \in Chats : pc'[d] = pc[d] \/ (d = c /\ pc'[d] = "failed")
      <3>1. CASE UNCHANGED pc
        BY <3>1
      <3>2. CASE Goto(c, "failed")
        BY <3>2, Moves DEF Locs
      <3> QED
        BY <2>3, <3>1, <3>2
    <2>6. LockInv'
      BY <2>1, <2>2, <2>4, <2>5 DEF LockInv
    <2>7. HandlerInv'
      BY <2>1, <2>2, <2>5 DEF HandlerInv, Before, After
    <2> QED
      BY <2>2, <2>4, <2>6, <2>7 DEF ChildInv, Cancellable, StrayLostItsChild
  <1>9. ASSUME NEW c \in Chats, DropLine(c) PROVE ControlInv'
    <2>1. LockInv'
      BY <1>0, <1>9 DEF DropLine, TakeLine, Line, LockInv, handlers, shared, children, vars
    <2>2. HandlerInv'
      BY <1>0, <1>9 DEF DropLine, TakeLine, Line, LockInv, HandlerInv, ChildInv, Before, After, handlers, shared, children, vars
    <2>3. ChildInv'
      BY <1>0, <1>9 DEF DropLine, TakeLine, Line, ChildInv, HandlerInv, Before, After, handlers, shared, children, vars
    <2>4. Cancellable'
      BY <1>0, <1>9 DEF DropLine, TakeLine, Line, Cancellable, LockInv, HandlerInv, Before, handlers, shared, children, vars
    <2>5. StrayLostItsChild'
      BY <1>0, <1>9 DEF DropLine, TakeLine, Line, StrayLostItsChild, Cancellable, HandlerInv, ChildInv, Before, After, handlers, shared, children, vars
    <2> QED
      BY <2>1, <2>2, <2>3, <2>4, <2>5
  <1>10. ASSUME NEW c \in Chats, SendLine(c) PROVE ControlInv'
    <2>1. pc[c] = "reading" /\ proc[c] \in Chats
      BY <1>10 DEF SendLine, TakeLine, HandlerInv, After
    <2>2. UNCHANGED <<proc, processLock, currentProcess, child, written>>
      BY <1>10 DEF SendLine, TakeLine, shared, children
    <2>3. UNCHANGED pc \/ Goto(c, "wait")
      BY <1>10 DEF SendLine
    <2>4. signalled \subseteq signalled'
      BY <1>10 DEF SendLine, Terminated
    <2>5. \A d \in Chats : pc'[d] = pc[d] \/ (d = c /\ pc'[d] = "wait")
      <3>1. CASE UNCHANGED pc
        BY <3>1
      <3>2. CASE Goto(c, "wait")
        BY <3>2, Moves DEF Locs
      <3> QED
        BY <2>3, <3>1, <3>2
    <2>6. LockInv'
      BY <2>1, <2>2, <2>4, <2>5 DEF LockInv
    <2>7. HandlerInv'
      BY <2>1, <2>2, <2>5 DEF HandlerInv, Before, After
    <2> QED
      BY <2>2, <2>4, <2>6, <2>7 DEF ChildInv, Cancellable, StrayLostItsChild
  <1>11. ASSUME NEW c \in Chats, EndOfOutput(c) PROVE ControlInv'
    <2>1. LockInv'
      BY <1>0, <1>11 DEF EndOfOutput, Goto, LockInv, handlers, shared, children, vars
    <2>2. HandlerInv'
      BY <1>0, <1>11 DEF EndOfOutput, Goto, LockInv, HandlerInv, ChildInv, Before, After, handlers, shared, children, vars
    <2>3. ChildInv'
      BY <1>0, <1>11 DEF EndOfOutput, Goto, ChildInv, HandlerInv, Before, After, handlers, shared, children, vars
    <2>4. Cancellable'
      BY <1>0, <1>11 DEF EndOfOutput, Goto, Cancellable, LockInv, HandlerInv, Before, handlers, shared, children, vars
    <2>5. StrayLostItsChild'
      BY <1>0, <1>11 DEF EndOfOutput, Goto, StrayLostItsChild, Cancellable, HandlerInv, ChildInv, Before, After, handlers, shared, children, vars
    <2> QED
      BY <2>1, <2>2, <2>3, <2>4, <2>5
  <1>12. ASSUME NEW c \in Chats, Finish(c) PROVE ControlInv'
    <2>1. LockInv'
      BY <1>0, <1>12 DEF Finish, Goto, LockInv, handlers, shared, children, vars
    <2>2. HandlerInv'
      BY <1>0, <1>12 DEF Finish, Goto, LockInv, HandlerInv, ChildInv, Before, After, handlers, shared, children, vars
    <2>3. ChildInv'
      BY <1>0, <1>12 DEF Finish, Goto, ChildInv, HandlerInv, Before, After, handlers, shared, children, vars
    <2>4. Cancellable'
      BY <1>0, <1>12 DEF Finish, Goto, Cancellable, LockInv, HandlerInv, Before, handlers, shared, children, vars
    <2>5. StrayLostItsChild'
      BY <1>0, <1>12 DEF Finish, Goto, StrayLostItsChild, Cancellable, HandlerInv, ChildInv, Before, After, handlers, shared, children, vars
    <2> QED
      BY <2>1, <2>2, <2>3, <2>4, <2>5
  <1>13. ASSUME NEW c \in Chats, Leave(c) PROVE ControlInv'
    <2>1. LockInv'
      BY <1>0, <1>13 DEF Leave, LockInv, handlers, shared, children, vars
    <2>2. HandlerInv'
      BY <1>0, <1>13 DEF Leave, LockInv, HandlerInv, ChildInv, Before, After, handlers, shared, children, vars
    <2>3. ChildInv'
      BY <1>0, <1>13 DEF Leave, ChildInv, HandlerInv, Before, After, handlers, shared, children, vars
    <2>4. Cancellable'
      BY <1>0, <1>13 DEF Leave, Cancellable, LockInv, HandlerInv, Before, handlers, shared, children, vars
    <2>5. StrayLostItsChild'
      BY <1>0, <1>13 DEF Leave, StrayLostItsChild, Cancellable, HandlerInv, ChildInv, Before, After, handlers, shared, children, vars
    <2> QED
      BY <2>1, <2>2, <2>3, <2>4, <2>5
  <1>14. ASSUME NEW c \in Chats, PrintLine(c) PROVE ControlInv'
    <2>1. LockInv'
      BY <1>0, <1>14 DEF PrintLine, LockInv, handlers, shared, children, vars
    <2>2. HandlerInv'
      BY <1>0, <1>14 DEF PrintLine, LockInv, HandlerInv, ChildInv, Before, After, handlers, shared, children, vars
    <2>3. ChildInv'
      BY <1>0, <1>14 DEF PrintLine, ChildInv, HandlerInv, Before, After, handlers, shared, children, vars
    <2>4. Cancellable'
      BY <1>0, <1>14 DEF PrintLine, Cancellable, LockInv, HandlerInv, Before, handlers, shared, children, vars
    <2>5. StrayLostItsChild'
      BY <1>0, <1>14 DEF PrintLine, StrayLostItsChild, Cancellable, HandlerInv, ChildInv, Before, After, handlers, shared, children, vars
    <2> QED
      BY <2>1, <2>2, <2>3, <2>4, <2>5
  <1>15. ASSUME NEW c \in Chats, Exit(c) PROVE ControlInv'
    <2>1. LockInv'
      BY <1>0, <1>15 DEF Exit, LockInv, handlers, shared, children, vars
    <2>2. HandlerInv'
      BY <1>0, <1>15 DEF Exit, LockInv, HandlerInv, ChildInv, Before, After, handlers, shared, children, vars
    <2>3. ChildInv'
      BY <1>0, <1>15 DEF Exit, ChildInv, HandlerInv, Before, After, handlers, shared, children, vars
    <2>4. Cancellable'
      BY <1>0, <1>15 DEF Exit, Cancellable, LockInv, HandlerInv, Before, handlers, shared, children, vars
    <2>5. StrayLostItsChild'
      BY <1>0, <1>15 DEF Exit, StrayLostItsChild, Cancellable, HandlerInv, ChildInv, Before, After, handlers, shared, children, vars
    <2> QED
      BY <2>1, <2>2, <2>3, <2>4, <2>5
  <1>16. ASSUME NEW c \in Chats, Die(c) PROVE ControlInv'
    <2>1. LockInv'
      BY <1>0, <1>16 DEF Die, LockInv, handlers, shared, children, vars
    <2>2. HandlerInv'
      BY <1>0, <1>16 DEF Die, LockInv, HandlerInv, ChildInv, Before, After, handlers, shared, children, vars
    <2>3. ChildInv'
      BY <1>0, <1>16 DEF Die, ChildInv, HandlerInv, Before, After, handlers, shared, children, vars
    <2>4. Cancellable'
      BY <1>0, <1>16 DEF Die, Cancellable, LockInv, HandlerInv, Before, handlers, shared, children, vars
    <2>5. StrayLostItsChild'
      BY <1>0, <1>16 DEF Die, StrayLostItsChild, Cancellable, HandlerInv, ChildInv, Before, After, handlers, shared, children, vars
    <2> QED
      BY <2>1, <2>2, <2>3, <2>4, <2>5
  <1>17. ASSUME Stop PROVE ControlInv'
    <2>1. LockInv'
      BY <1>0, <1>17 DEF Stop, Terminated, LockInv, handlers, shared, children, vars
    <2>2. HandlerInv'
      BY <1>0, <1>17 DEF Stop, Terminated, LockInv, HandlerInv, ChildInv, Before, After, handlers, shared, children, vars
    <2>3. ChildInv'
      BY <1>0, <1>17 DEF Stop, Terminated, ChildInv, HandlerInv, Before, After, handlers, shared, children, vars
    <2>4. Cancellable'
      BY <1>0, <1>17 DEF Stop, Terminated, Cancellable, LockInv, HandlerInv, Before, handlers, shared, children, vars
    <2>5. StrayLostItsChild'
      BY <1>0, <1>17 DEF Stop, Terminated, StrayLostItsChild, Cancellable, HandlerInv, ChildInv, Before, After, handlers, shared, children, vars
    <2> QED
      BY <2>1, <2>2, <2>3, <2>4, <2>5
  <1> QED
    BY <1>1, <1>2, <1>3, <1>4, <1>5, <1>6, <1>7, <1>8, <1>9, <1>10, <1>11, <1>12, <1>13, <1>14, <1>15, <1>16, <1>17 DEF Next, Handler, Child

(* Steps that neither read nor write keep the streams complete: a handler   *)
(* leaves the loop only when nothing is left to read, or without a client.  *)
LEMMA StreamKept ==
    ASSUME TypeOK, StreamInv, UNCHANGED <<proc, headerPassed, sent, output, taken>>,
           connected' \subseteq connected,
           \A d \in Chats : child[d] = "exited" => child'[d] = "exited" /\ written'[d] = written[d],
           \A d \in Chats : pc'[d] \in After =>
               /\ pc[d] \in After
               /\ \/ pc'[d] = "reading" \/ pc[d] # "reading"
                  \/ taken[proc[d]] = written[proc[d]] /\ child[proc[d]] = "exited"
    PROVE  StreamInv'
  <1> SUFFICES ASSUME NEW d \in Chats, Undisturbed(d), d \in connected', pc'[d] \in After
               PROVE  PassedOn(d)'
      BY DEF StreamInv, Undisturbed, Increasing
  <1>1. PassedOn(d) /\ proc[d] = d
    BY DEF StreamInv, Undisturbed
  <1>2. SentOf(d)' = SentOf(d) /\ taken'[d] = taken[d] /\ headerPassed'[d] = headerPassed[d]
    BY DEF SentOf
  <1>3. pc'[d] # "reading" => taken[d] = written'[d] /\ child'[d] = "exited"
    BY <1>1 DEF PassedOn
  <1> QED
    BY <1>1, <1>2, <1>3 DEF PassedOn

(* A line that a handler takes concerns no connection but its own, and no  *)
(* pipe that only another handler reads.                                   *)
LEMMA StreamTaken ==
    ASSUME TypeOK, HandlerInv, StreamInv, NEW c \in Chats, TakeLine(c),
           \A d \in Chats \ {c} : UNCHANGED <<pc[d], headerPassed[d], sent[d]>>,
           Undisturbed(c) => Increasing(c)',
           Undisturbed(c) /\ c \in connected /\ pc'[c] \in After => PassedOn(c)'
    PROVE  StreamInv'
  <1>1. UNCHANGED <<proc, connected, output, written, child>> /\ pc[c] = "reading"
    BY DEF TakeLine, children
  <1>2. proc[c] \in Chats /\ \A p \in Chats : taken'[p] = IF p = proc[c] THEN taken[p] + 1 ELSE taken[p]
    BY TakenLine
  <1>3. ASSUME NEW d \in Chats, \A e \in Chats : proc[e] # d PROVE taken'[d] = 0
    BY <1>2, <1>3 DEF StreamInv
  <1>4. ASSUME NEW d \in Chats, proc[d] = None PROVE sent'[d] = <<>>
    BY <1>2, <1>4, ChatAssumption DEF StreamInv
  <1>5. ASSUME NEW d \in Chats \ {c}, Undisturbed(d) PROVE taken'[d] = taken[d]
    BY <1>2, <1>5 DEF Undisturbed
  <1>6. ASSUME NEW d \in Chats, Undisturbed(d) PROVE Increasing(d)'
    BY <1>5, <1>6 DEF StreamInv, Increasing
  <1>7. ASSUME NEW d \in Chats, Undisturbed(d), d \in connected, pc'[d] \in After
        PROVE  PassedOn(d)'
    <2>1. CASE d = c
      BY <1>1, <1>7, <2>1
    <2>2. CASE d # c
      <3>1. PassedOn(d) /\ taken'[d] = taken[d]
        BY <1>1, <1>5, <1>7, <2>2 DEF StreamInv
      <3>2. pc'[d] = pc[d] /\ headerPassed'[d] = headerPassed[d] /\ SentOf(d)' = SentOf(d)
        BY <2>2 DEF SentOf
      <3> QED
        BY <1>1, <3>1, <3>2 DEF PassedOn
    <2> QED
      BY <2>1, <2>2
  <1>8. \A d \in Chats : Undisturbed(d)' <=> Undisturbed(d)
    BY <1>1 DEF Undisturbed
  <1> QED
    BY <1>1, <1>3, <1>4, <1>6, <1>7, <1>8 DEF StreamInv

(* One more line keeps the order, for its number is new.                   *)
LEMMA WriteKeepsOrder ==
    ASSUME TypeOK, HandlerInv, NEW c \in Chats, TakeLine(c), WriteLine(c),
           Undisturbed(c), Increasing(c)
    PROVE  /\ Increasing(c)'
           /\ SentOf(c)' = SentOf(c) \cup {<<c, taken[c] + 1>>}
  <1>1. proc[c] = c /\ taken'[c] = taken[c] + 1 /\ taken[c] \in Nat
    BY TakenLine DEF Undisturbed, TypeOK
  <1> DEFINE n == Len(sent[c])
  <1>2. /\ Len(sent'[c]) = n + 1 /\ n \in Nat /\ sent'[c][n+1] = <<c, taken[c] + 1>>
        /\ \A k \in 1..n : sent'[c][k] = sent[c][k]
    BY WrittenLine, <1>1
  <1>3. \A k \in 1..n : sent[c][k] \in Chats \X (Nat \ {0})
    BY DEF TypeOK
  <1>4. \A k \in 1..n : sent[c][k][2] \in Nat /\ sent[c][k][2] <= taken[c]
    BY <1>3 DEF Increasing
  <1> HIDE DEF n
  <1>5. \A k \in 1..Len(sent'[c]) : sent'[c][k][2] <= taken'[c]
    <2>1. ASSUME NEW k \in 1..n PROVE sent'[c][k][2] <= taken[c] + 1
      <3>1. sent'[c][k][2] = sent[c][k][2]
        BY <1>2
      <3>2. sent[c][k][2] \in Nat /\ sent[c][k][2] <= taken[c]
        BY <1>4
      <3> QED
        BY <1>1, <3>1, <3>2
    <2>2. sent'[c][n+1][2] <= taken[c] + 1
      BY <1>1, <1>2
    <2>3. \A k \in 1..n+1 : k \in 1..n \/ k = n+1
      BY <1>2
    <2> QED
      BY <1>1, <1>2, <2>1, <2>2, <2>3
  <1>6. ASSUME NEW k \in 1..Len(sent'[c]), NEW l \in 1..Len(sent'[c]), k < l
        PROVE  sent'[c][k][2] < sent'[c][l][2]
    <2>1. k \in 1..n
      BY <1>2, <1>6
    <2>2. CASE l = n+1
      <3>1. sent'[c][k][2] = sent[c][k][2] /\ sent'[c][l][2] = taken[c] + 1
        BY <1>2, <2>1, <2>2
      <3>2. sent[c][k][2] \in Nat /\ sent[c][k][2] <= taken[c]
        BY <1>4, <2>1
      <3> QED
        BY <1>1, <3>1, <3>2
    <2>3. CASE l \in 1..n
      <3>1. sent'[c][k] = sent[c][k] /\ sent'[c][l] = sent[c][l]
        BY <1>2, <2>1, <2>3
      <3>2. sent[c][k][2] < sent[c][l][2]
        BY <1>6, <2>1, <2>3 DEF Increasing, n
      <3> QED
        BY <3>1, <3>2
    <2> QED
      BY <2>2, <2>3, <1>2
  <1>7. SentOf(c)' = SentOf(c) \cup {<<c, taken[c] + 1>>}
    <2>1. SentOf(c)' = {sent'[c][k] : k \in 1..n+1}
      BY <1>2 DEF SentOf
    <2>2. SentOf(c) = {sent[c][k] : k \in 1..n}
      BY DEF SentOf, n
    <2>3. 1..n+1 = (1..n) \cup {n+1}
      BY <1>2
    <2> QED
      BY <2>1, <2>2, <2>3, <1>2
  <1> QED
    BY <1>5, <1>6, <1>7 DEF Increasing

(* A line that is not written keeps the order. *)
LEMMA TakeKeepsOrder ==
    ASSUME TypeOK, HandlerInv, NEW c \in Chats, TakeLine(c), UNCHANGED sent, Increasing(c)
    PROVE  Increasing(c)'
  <1>0. taken[c] \in Nat
    BY DEF TypeOK
  <1>1. taken'[c] \in Nat /\ taken[c] \in Nat /\ taken[c] <= taken'[c]
    BY <1>0, TakenLine
  <1>2. \A k \in 1..Len(sent[c]) : sent[c][k] \in Chats \X (Nat \ {0})
    BY DEF TypeOK
  <1>3. Len(sent'[c]) = Len(sent[c])
    OBVIOUS
  <1>4. ASSUME NEW k \in 1..Len(sent'[c]) PROVE sent'[c][k][2] <= taken'[c]
    <2>1. sent[c][k][2] \in Nat /\ sent'[c][k] = sent[c][k]
      BY <1>2
    <2>2. sent[c][k][2] <= taken[c]
      BY DEF Increasing
    <2> QED
      BY <1>1, <2>1, <2>2
  <1> QED
    BY <1>3, <1>4 DEF Increasing

(* Every action keeps the streams complete. *)
LEMMA StreamStep ==
    ASSUME IInv, TypeOK', ControlInv', Next PROVE StreamInv'
  <1> USE ChatAssumption
  <1> SUFFICES ASSUME TypeOK, TypeOK', HandlerInv, HandlerInv', StreamInv, Next PROVE StreamInv'
      BY DEF IInv, ControlInv
  <1>0. child \in [Chats -> {"none", "running", "exited"}] /\ written \in [Chats -> Nat]
    BY DEF TypeOK
  <1>1. ASSUME NEW c \in Chats, Arrive(c) PROVE StreamInv'
    <2>1. connected' \subseteq connected /\ UNCHANGED <<proc, headerPassed, sent, output, taken>>
      BY <1>1 DEF Arrive, handlers, children
    <2>2. \A d \in Chats : child[d] = "exited" => child'[d] = "exited" /\ written'[d] = written[d]
      BY <1>0, <1>1 DEF Arrive, children, HandlerInv, Before
    <2>3. \A d \in Chats : pc'[d] \in After =>
             /\ pc[d] \in After
             /\ \/ pc'[d] = "reading" \/ pc[d] # "reading"
                \/ taken[proc[d]] = written[proc[d]] /\ child[proc[d]] = "exited"
      BY <1>1, Moves DEF Arrive, After, Locs
    <2> QED
      BY <2>1, <2>2, <2>3, StreamKept
  <1>2. ASSUME NEW c \in Chats, SendHeaders(c) PROVE StreamInv'
    <2>1. connected' \subseteq connected /\ UNCHANGED <<proc, headerPassed, sent, output, taken>>
      BY <1>2 DEF SendHeaders, handlers, children
    <2>2. \A d \in Chats : child[d] = "exited" => child'[d] = "exited" /\ written'[d] = written[d]
      BY <1>0, <1>2 DEF SendHeaders, children, HandlerInv, Before
    <2>3. \A d \in Chats : pc'[d] \in After =>
             /\ pc[d] \in After
             /\ \/ pc'[d] = "reading" \/ pc[d] # "reading"
                \/ taken[proc[d]] = written[proc[d]] /\ child[proc[d]] = "exited"
      BY <1>2, Moves DEF SendHeaders, After, Locs
    <2> QED
      BY <2>1, <2>2, <2>3, StreamKept
  <1>3. ASSUME NEW c \in Chats, Enter(c) PROVE StreamInv'
    <2>1. connected' \subseteq connected /\ UNCHANGED <<proc, headerPassed, sent, output, taken>>
      BY <1>3 DEF Enter, handlers, children
    <2>2. \A d \in Chats : child[d] = "exited" => child'[d] = "exited" /\ written'[d] = written[d]
      BY <1>0, <1>3 DEF Enter, children, HandlerInv, Before
    <2>3. \A d \in Chats : pc'[d] \in After =>
             /\ pc[d] \in After
             /\ \/ pc'[d] = "reading" \/ pc[d] # "reading"
                \/ taken[proc[d]] = written[proc[d]] /\ child[proc[d]] = "exited"
      BY <1>3, Moves DEF Enter, After, Locs
    <2> QED
      BY <2>1, <2>2, <2>3, StreamKept
  <1>4. ASSUME NEW c \in Chats, Spawn(c) PROVE StreamInv'
    <2>1. connected' \subseteq connected /\ UNCHANGED <<proc, headerPassed, sent, output, taken>>
      BY <1>4 DEF Spawn, handlers, children
    <2>2. \A d \in Chats : child[d] = "exited" => child'[d] = "exited" /\ written'[d] = written[d]
      BY <1>0, <1>4 DEF Spawn, children, HandlerInv, Before
    <2>3. \A d \in Chats : pc'[d] \in After =>
             /\ pc[d] \in After
             /\ \/ pc'[d] = "reading" \/ pc[d] # "reading"
                \/ taken[proc[d]] = written[proc[d]] /\ child[proc[d]] = "exited"
      BY <1>4, Moves DEF Spawn, After, Locs
    <2> QED
      BY <2>1, <2>2, <2>3, StreamKept
  <1>5. ASSUME NEW c \in Chats, SpawnFails(c) PROVE StreamInv'
    <2>1. connected' \subseteq connected /\ UNCHANGED <<proc, headerPassed, sent, output, taken>>
      BY <1>5 DEF SpawnFails, handlers, children
    <2>2. \A d \in Chats : child[d] = "exited" => child'[d] = "exited" /\ written'[d] = written[d]
      BY <1>0, <1>5 DEF SpawnFails, children, HandlerInv, Before
    <2>3. \A d \in Chats : pc'[d] \in After =>
             /\ pc[d] \in After
             /\ \/ pc'[d] = "reading" \/ pc[d] # "reading"
                \/ taken[proc[d]] = written[proc[d]] /\ child[proc[d]] = "exited"
      BY <1>5, Moves DEF SpawnFails, After, Locs
    <2> QED
      BY <2>1, <2>2, <2>3, StreamKept
  <1>6. ASSUME NEW c \in Chats, Capture(c) PROVE StreamInv'
    <2>1. /\ pc[c] = "capture" /\ proc[c] = None /\ currentProcess \in Chats
          /\ pc' = [pc EXCEPT ![c] = "reading"] /\ proc' = [proc EXCEPT ![c] = currentProcess]
          /\ UNCHANGED <<headerPassed, sent, child, output, written, connected, taken>>
      BY <1>6 DEF Capture, Goto, TypeOK, HandlerInv, shared, children
    <2>2. \A d \in Chats \ {c} : proc'[d] = proc[d] /\ pc'[d] = pc[d]
      BY <2>1 DEF TypeOK
    <2>3. proc'[c] = currentProcess /\ pc'[c] = "reading"
      BY <2>1 DEF TypeOK
    <2>4. ASSUME NEW d \in Chats, \A e \in Chats : proc'[e] # d PROVE taken[d] = 0
      BY <2>1, <2>2, <2>4 DEF StreamInv
    <2>5. ASSUME NEW d \in Chats, proc'[d] = None PROVE sent[d] = <<>>
      BY <2>1, <2>2, <2>3, <2>5 DEF StreamInv
    <2>6. Undisturbed(c)' => taken[c] = 0 /\ sent[c] = <<>>
      BY <2>1, <2>2 DEF StreamInv, Undisturbed
    <2>7. \A d \in Chats \ {c} : Undisturbed(d)' => Undisturbed(d)
      BY <2>1, <2>2 DEF Undisturbed
    <2>8. ASSUME NEW d \in Chats, Undisturbed(d)' PROVE Increasing(d)'
      BY <2>1, <2>6, <2>7, <2>8 DEF StreamInv, Increasing
    <2>9. ASSUME NEW d \in Chats, Undisturbed(d)', d \in connected, pc'[d] \in After
          PROVE  PassedOn(d)'
      <3>1. CASE d = c
        BY <2>1, <2>3, <2>6, <2>9, <3>1 DEF PassedOn
      <3>2. CASE d # c
        <4>1. PassedOn(d)
          BY <2>1, <2>2, <2>7, <2>9, <3>2 DEF StreamInv
        <4> QED
          BY <2>1, <2>2, <3>2, <4>1 DEF PassedOn, SentOf
      <3> QED
        BY <3>1, <3>2
    <2> QED
      BY <2>1, <2>4, <2>5, <2>8, <2>9 DEF StreamInv
  <1>7. ASSUME NEW c \in Chats, SkipHeader(c) PROVE StreamInv'
    <2>1. /\ TakeLine(c) /\ UNCHANGED <<pc, headerPassed, sent>>
          /\ ~headerPassed[c] /\ ~HasMarker(output[proc[c]][taken[proc[c]] + 1])
      BY <1>7 DEF SkipHeader, Line
    <2>2. Undisturbed(c) => Increasing(c)'
      BY <2>1, TakeKeepsOrder DEF StreamInv
    <2>3. ASSUME Undisturbed(c), c \in connected, pc'[c] \in After PROVE PassedOn(c)'
      <3>1. /\ proc[c] = c /\ pc[c] = "reading" /\ UNCHANGED output
            /\ taken'[c] = taken[c] + 1 /\ taken[c] \in Nat /\ taken[c] + 1 \in 1..Len(output[c])
        BY <2>1, <2>3, TakenLine DEF Undisturbed, TakeLine, TypeOK, children
      <3>2. PassedOn(c)
        BY <2>1, <2>3 DEF StreamInv
      <3>3. output[c][taken[c] + 1] \notin {"echo", "first", "text"}
        <4>1. \A j \in 1..taken[c] : ~HasMarker(output[c][j])
          BY <2>1, <3>2 DEF PassedOn
        <4>2. output[c] \in Outputs
          BY DEF TypeOK
        <4>3. output[c][taken[c] + 1] # "text"
          BY <3>1, <4>1, <4>2, OutputAssumption
        <4> QED
          BY <2>1, <3>1, <4>3 DEF HasMarker
      <3>4. \A i \in 1..taken'[c] : i \in 1..taken[c] \/ i = taken[c] + 1
        BY <3>1
      <3>5. SentOf(c)' = SentOf(c)
        BY <2>1 DEF SentOf
      <3> QED
        BY <2>1, <3>1, <3>2, <3>3, <3>4, <3>5 DEF PassedOn, HasMarker
    <2> QED
      BY <2>1, <2>2, <2>3, StreamTaken
  <1>8. ASSUME NEW c \in Chats, FirstLine(c) PROVE StreamInv'
    <2>1. TakeLine(c) /\ headerPassed'[c] /\ \A d \in Chats \ {c} : UNCHANGED <<pc[d], headerPassed[d], sent[d]>>
      <3>1. TakeLine(c) /\ headerPassed'[c] /\ \A d \in Chats \ {c} : UNCHANGED headerPassed[d]
        BY <1>8 DEF FirstLine, TypeOK
      <3>2. ASSUME NEW d \in Chats \ {c} PROVE UNCHANGED sent[d]
        BY <1>8, <3>1, WrittenLine DEF FirstLine
      <3>3. ASSUME NEW d \in Chats \ {c} PROVE UNCHANGED pc[d]
        BY <1>8, Moves DEF FirstLine, Locs
      <3> QED
        BY <3>1, <3>2, <3>3
    <2>2. CASE WriteLine(c) /\ UNCHANGED pc
      <3>1. ASSUME Undisturbed(c), c \in connected, pc'[c] \in After PROVE PassedOn(c)'
        <4>1. /\ proc[c] = c /\ pc[c] = "reading" /\ UNCHANGED output
              /\ taken'[c] = taken[c] + 1 /\ taken[c] \in Nat
          BY <2>1, <3>1, TakenLine DEF Undisturbed, TakeLine, TypeOK, children
        <4>2. PassedOn(c) /\ SentOf(c)' = SentOf(c) \cup {<<c, taken[c] + 1>>}
          BY <2>1, <2>2, <3>1, <4>1, WriteKeepsOrder DEF StreamInv, After
        <4>3. \A i \in 1..taken'[c] : i \in 1..taken[c] \/ i = taken[c] + 1
          BY <4>1
        <4> QED
          BY <2>1, <2>2, <4>1, <4>2, <4>3 DEF PassedOn
      <3>2. Undisturbed(c) => Increasing(c)'
        BY <2>1, <2>2, WriteKeepsOrder DEF StreamInv
      <3> QED
        BY <2>1, <3>1, <3>2, StreamTaken
    <2>3. CASE c \notin connected /\ UNCHANGED sent
      <3>1. Undisturbed(c) => Increasing(c)'
        BY <2>1, <2>3, TakeKeepsOrder DEF StreamInv
      <3> QED
        BY <2>1, <2>3, <3>1, StreamTaken
    <2> QED
      BY <1>8, <2>2, <2>3 DEF FirstLine
  <1>9. ASSUME NEW c \in Chats, DropLine(c) PROVE StreamInv'
    <2>1. /\ TakeLine(c) /\ UNCHANGED <<pc, headerPassed, sent>>
          /\ headerPassed[c] /\ output[proc[c]][taken[proc[c]] + 1] = "marked"
      BY <1>9 DEF DropLine, Line
    <2>2. Undisturbed(c) => Increasing(c)'
      BY <2>1, TakeKeepsOrder DEF StreamInv
    <2>3. ASSUME Undisturbed(c), c \in connected, pc'[c] \in After PROVE PassedOn(c)'
      <3>1. /\ proc[c] = c /\ pc[c] = "reading" /\ UNCHANGED output
            /\ taken'[c] = taken[c] + 1 /\ taken[c] \in Nat
        BY <2>1, <2>3, TakenLine DEF Undisturbed, TakeLine, TypeOK, children
      <3>2. PassedOn(c)
        BY <2>1, <2>3 DEF StreamInv
      <3>3. \A i \in 1..taken'[c] : i \in 1..taken[c] \/ i = taken[c] + 1
        BY <3>1
      <3>4. SentOf(c)' = SentOf(c)
        BY <2>1 DEF SentOf
      <3> QED
        BY <2>1, <3>1, <3>2, <3>3, <3>4 DEF PassedOn, HasMarker
    <2> QED
      BY <2>1, <2>2, <2>3, StreamTaken
  <1>10. ASSUME NEW c \in Chats, SendLine(c) PROVE StreamInv'
    <2>1. TakeLine(c) /\ headerPassed'[c] /\ \A d \in Chats \ {c} : UNCHANGED <<pc[d], headerPassed[d], sent[d]>>
      <3>1. TakeLine(c) /\ headerPassed'[c] /\ \A d \in Chats \ {c} : UNCHANGED headerPassed[d]
        BY <1>10 DEF SendLine, TypeOK
      <3>2. ASSUME NEW d \in Chats \ {c} PROVE UNCHANGED sent[d]
        BY <1>10, <3>1, WrittenLine DEF SendLine
      <3>3. ASSUME NEW d \in Chats \ {c} PROVE UNCHANGED pc[d]
        BY <1>10, Moves DEF SendLine, Locs
      <3> QED
        BY <3>1, <3>2, <3>3
    <2>2. CASE WriteLine(c) /\ UNCHANGED pc
      <3>1. ASSUME Undisturbed(c), c \in connected, pc'[c] \in After PROVE PassedOn(c)'
        <4>1. /\ proc[c] = c /\ pc[c] = "reading" /\ UNCHANGED output
              /\ taken'[c] = taken[c] + 1 /\ taken[c] \in Nat
          BY <2>1, <3>1, TakenLine DEF Undisturbed, TakeLine, TypeOK, children
        <4>2. PassedOn(c) /\ SentOf(c)' = SentOf(c) \cup {<<c, taken[c] + 1>>}
          BY <2>1, <2>2, <3>1, <4>1, WriteKeepsOrder DEF StreamInv, After
        <4>3. \A i \in 1..taken'[c] : i \in 1..taken[c] \/ i = taken[c] + 1
          BY <4>1
        <4> QED
          BY <2>1, <2>2, <4>1, <4>2, <4>3 DEF PassedOn
      <3>2. Undisturbed(c) => Increasing(c)'
        BY <2>1, <2>2, WriteKeepsOrder DEF StreamInv
      <3> QED
        BY <2>1, <3>1, <3>2, StreamTaken
    <2>3. CASE c \notin connected /\ UNCHANGED sent
      <3>1. Undisturbed(c) => Increasing(c)'
        BY <2>1, <2>3, TakeKeepsOrder DEF StreamInv
      <3> QED
        BY <2>1, <2>3, <3>1, StreamTaken
    <2> QED
      BY <1>10, <2>2, <2>3 DEF SendLine
  <1>11. ASSUME NEW c \in Chats, EndOfOutput(c) PROVE StreamInv'
    <2>1. connected' \subseteq connected /\ UNCHANGED <<proc, headerPassed, sent, output, taken>>
      BY <1>11 DEF EndOfOutput, handlers, children
    <2>2. \A d \in Chats : child[d] = "exited" => child'[d] = "exited" /\ written'[d] = written[d]
      BY <1>0, <1>11 DEF EndOfOutput, children, HandlerInv, Before
    <2>3. \A d \in Chats : pc'[d] \in After =>
             /\ pc[d] \in After
             /\ \/ pc'[d] = "reading" \/ pc[d] # "reading"
                \/ taken[proc[d]] = written[proc[d]] /\ child[proc[d]] = "exited"
      BY <1>11, Moves DEF EndOfOutput, After, Locs
    <2> QED
      BY <2>1, <2>2, <2>3, StreamKept
  <1>12. ASSUME NEW c \in Chats, Finish(c) PROVE StreamInv'
    <2>1. connected' \subseteq connected /\ UNCHANGED <<proc, headerPassed, sent, output, taken>>
      BY <1>12 DEF Finish, handlers, children
    <2>2. \A d \in Chats : child[d] = "exited" => child'[d] = "exited" /\ written'[d] = written[d]
      BY <1>0, <1>12 DEF Finish, children, HandlerInv, Before
    <2>3. \A d \in Chats : pc'[d] \in After =>
             /\ pc[d] \in After
             /\ \/ pc'[d] = "reading" \/ pc[d] # "reading"
                \/ taken[proc[d]] = written[proc[d]] /\ child[proc[d]] = "exited"
      BY <1>12, Moves DEF Finish, After, Locs
    <2> QED
      BY <2>1, <2>2, <2>3, StreamKept
  <1>13. ASSUME NEW c \in Chats, Leave(c) PROVE StreamInv'
    <2>1. connected' \subseteq connected /\ UNCHANGED <<proc, headerPassed, sent, output, taken>>
      BY <1>13 DEF Leave, handlers, children
    <2>2. \A d \in Chats : child[d] = "exited" => child'[d] = "exited" /\ written'[d] = written[d]
      BY <1>0, <1>13 DEF Leave, children, HandlerInv, Before
    <2>3. \A d \in Chats : pc'[d] \in After =>
             /\ pc[d] \in After
             /\ \/ pc'[d] = "reading" \/ pc[d] # "reading"
                \/ taken[proc[d]] = written[proc[d]] /\ child[proc[d]] = "exited"
      BY <1>13 DEF Leave, After, handlers
    <2> QED
      BY <2>1, <2>2, <2>3, StreamKept
  <1>14. ASSUME NEW c \in Chats, PrintLine(c) PROVE StreamInv'
    <2>1. connected' \subseteq connected /\ UNCHANGED <<proc, headerPassed, sent, output, taken>>
      BY <1>14 DEF PrintLine, handlers, children
    <2>2. \A d \in Chats : child[d] = "exited" => child'[d] = "exited" /\ written'[d] = written[d]
      BY <1>0, <1>14 DEF PrintLine, children, HandlerInv, Before
    <2>3. \A d \in Chats : pc'[d] \in After =>
             /\ pc[d] \in After
             /\ \/ pc'[d] = "reading" \/ pc[d] # "reading"
                \/ taken[proc[d]] = written[proc[d]] /\ child[proc[d]] = "exited"
      BY <1>14 DEF PrintLine, After, handlers
    <2> QED
      BY <2>1, <2>2, <2>3, StreamKept
  <1>15. ASSUME NEW c \in Chats, Exit(c) PROVE StreamInv'
    <2>1. connected' \subseteq connected /\ UNCHANGED <<proc, headerPassed, sent, output, taken>>
      BY <1>15 DEF Exit, handlers, children
    <2>2. \A d \in Chats : child[d] = "exited" => child'[d] = "exited" /\ written'[d] = written[d]
      BY <1>0, <1>15 DEF Exit, children, HandlerInv, Before
    <2>3. \A d \in Chats : pc'[d] \in After =>
             /\ pc[d] \in After
             /\ \/ pc'[d] = "reading" \/ pc[d] # "reading"
                \/ taken[proc[d]] = written[proc[d]] /\ child[proc[d]] = "exited"
      BY <1>15 DEF Exit, After, handlers
    <2> QED
      BY <2>1, <2>2, <2>3, StreamKept
  <1>16. ASSUME NEW c \in Chats, Die(c) PROVE StreamInv'
    <2>1. connected' \subseteq connected /\ UNCHANGED <<proc, headerPassed, sent, output, taken>>
      BY <1>16 DEF Die, handlers, children
    <2>2. \A d \in Chats : child[d] = "exited" => child'[d] = "exited" /\ written'[d] = written[d]
      BY <1>0, <1>16 DEF Die, children, HandlerInv, Before
    <2>3. \A d \in Chats : pc'[d] \in After =>
             /\ pc[d] \in After
             /\ \/ pc'[d] = "reading" \/ pc[d] # "reading"
                \/ taken[proc[d]] = written[proc[d]] /\ child[proc[d]] = "exited"
      BY <1>16 DEF Die, After, handlers
    <2> QED
      BY <2>1, <2>2, <2>3, StreamKept
  <1>17. ASSUME Stop PROVE StreamInv'
    <2>1. connected' \subseteq connected /\ UNCHANGED <<proc, headerPassed, sent, output, taken>>
      BY <1>17 DEF Stop, handlers, children
    <2>2. \A d \in Chats : child[d] = "exited" => child'[d] = "exited" /\ written'[d] = written[d]
      BY <1>0, <1>17 DEF Stop, children, HandlerInv, Before
    <2>3. \A d \in Chats : pc'[d] \in After =>
             /\ pc[d] \in After
             /\ \/ pc'[d] = "reading" \/ pc[d] # "reading"
                \/ taken[proc[d]] = written[proc[d]] /\ child[proc[d]] = "exited"
      BY <1>17 DEF Stop, After, handlers
    <2> QED
      BY <2>1, <2>2, <2>3, StreamKept
  <1> QED
    BY <1>1, <1>2, <1>3, <1>4, <1>5, <1>6, <1>7, <1>8, <1>9, <1>10, <1>11, <1>12, <1>13, <1>14, <1>15, <1>16, <1>17 DEF Next, Handler, Child

(* At the end of a stream all that was printed has been taken and passed on. *)
LEMMA StreamsComplete ==
    ASSUME IInv PROVE CompleteStream
  BY ChatAssumption DEF IInv, TypeOK, ControlInv, HandlerInv, StreamInv, Increasing, PassedOn,
     SentOf, After, CompleteStream, Wanted, Undisturbed

(* A step that changes nothing keeps the invariant. *)
LEMMA StutterKeeps ==
    ASSUME IInv, UNCHANGED vars PROVE IInv'
  <1>1. /\ UNCHANGED <<pc, proc, headerPassed, sent, processLock, currentProcess>>
        /\ UNCHANGED <<child, output, written, connected, signalled, taken>>
    BY DEF handlers, shared, children, vars
  <1>2. TypeOK'
    BY <1>1 DEF IInv, TypeOK
  <1>3. ControlInv'
    BY <1>1 DEF IInv, ControlInv, LockInv, HandlerInv, ChildInv, Cancellable, StrayLostItsChild
  <1>4. StreamInv'
    BY <1>1, StreamKept DEF IInv
  <1> QED
    BY <1>2, <1>3, <1>4 DEF IInv

-----------------------------------------------------------------------------
(* The invariant of the server holds in every reachable state: the lock,   *)
(* the location of each handler and the state of each child agree, and     *)
(* what was read from a pipe was passed on.                                *)
THEOREM Invariance == Spec => []IInv
  <1>1. Init => IInv
    BY InitInv
  <1>2. IInv /\ [Next]_vars => IInv'
    BY TypeStep, ControlStep, StreamStep, StutterKeeps DEF IInv
  <1> QED
    BY <1>1, <1>2, PTL DEF Spec

(* Every variable has its type, and no pipe holds more than it can.        *)
THEOREM TypeCorrect == Spec => []TypeOK
  <1>1. IInv => TypeOK
    BY DEF IInv
  <1> QED
    BY <1>1, Invariance, PTL

(* For any number of chats, stops and failures, a child that runs and was  *)
(* not told to end is current_process, so the next request reaches it.     *)
THEOREM AlwaysCancellable == Spec => []Cancellable
  <1>1. IInv => Cancellable
    BY DEF IInv, ControlInv
  <1> QED
    BY <1>1, Invariance, PTL

(* A handler that reads another chat's child has only lost a child that    *)
(* was already told to end.                                                *)
THEOREM StrayHarmless == Spec => []StrayLostItsChild
  <1>1. IInv => StrayLostItsChild
    BY DEF IInv, ControlInv
  <1> QED
    BY <1>1, Invariance, PTL

(* A browser that stays, and whose child nobody else reads, gets every     *)
(* generated line the child has printed, in order and once.                *)
THEOREM StreamsCorrect == Spec => []CompleteStream
  <1>1. IInv => CompleteStream
    BY StreamsComplete
  <1> QED
    BY <1>1, Invariance, PTL
=============================================================================
