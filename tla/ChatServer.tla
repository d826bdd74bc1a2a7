----------------------------- MODULE ChatServer -----------------------------
(***************************************************************************)
(* The streaming server of src/server.py.  Every request to /api/chat has  *)
(* a handler thread, which terminates the child of the previous chat,      *)
(* starts a child of its own and copies the child's output, line by line,  *)
(* to the browser.  A chat names its handler, its connection and its       *)
(* child.  Requests to /api/stop and clients that leave are part of the    *)
(* environment and may come at any time.                                   *)
(*                                                                         *)
(* A line of output is its kind: "head" before the generated text, "echo"  *)
(* a head line that quotes the marker "Generation:" of the prompt, "first" *)
(* the marker with the first generated line, "text" a generated line,      *)
(* "marked" any line that the filter drops, "stats" the statistics that    *)
(* the filter does not know.                                               *)
(***************************************************************************)
EXTENDS Naturals, Sequences, FiniteSets

CONSTANTS Chats,      \* requests to /api/chat
          None,
          Outputs,    \* what a child may print, as sequences of kinds
          PipeCap     \* lines that fit into a child's pipe

Kinds == {"head", "echo", "first", "text", "marked", "stats"}

ASSUME ChatAssumption == /\ None \notin Chats
                         /\ Outputs \subseteq Seq(Kinds)
                         /\ PipeCap \in Nat \ {0}

HasMarker(kind) == kind \in {"echo", "first"}

(* The program prints the marker before it generates. *)
ASSUME OutputAssumption ==
    \A o \in Outputs : \A i \in 1..Len(o) :
        o[i] = "text" => \E j \in 1..i-1 : HasMarker(o[j])

VARIABLES
    pc,               \* where each handler is
    connected,        \* the chats whose browser still listens
    processLock,      \* the handler that holds process_lock
    currentProcess,   \* current_process, the chat whose child it is
    proc,             \* the child each handler reads
    headerPassed,     \* header_passed of each handler
    sent,             \* lines written to each connection: child and number
    child,            \* "none", "running" or "exited"
    signalled,        \* the children that were sent SIGTERM
    output,           \* all that each child would print
    written, taken    \* lines put into, and read from, each child's pipe

handlers == <<pc, proc, headerPassed, sent>>
shared   == <<processLock, currentProcess>>
children == <<child, output, written>>
vars     == <<handlers, shared, children, connected, signalled, taken>>

Locs == {"idle", "headers", "entering", "spawning", "capture", "reading", "wait", "done", "failed"}

Init ==
    /\ pc = [c \in Chats |-> "idle"]
    /\ connected = Chats
    /\ processLock = None /\ currentProcess = None
    /\ proc = [c \in Chats |-> None]
    /\ headerPassed = [c \in Chats |-> FALSE]
    /\ sent = [c \in Chats |-> <<>>]
    /\ child = [c \in Chats |-> "none"]
    /\ signalled = {}
    /\ output \in [Chats -> Outputs]
    /\ written = [c \in Chats |-> 0] /\ taken = [c \in Chats |-> 0]

Goto(c, loc) == pc' = [pc EXCEPT ![c] = loc]

-----------------------------------------------------------------------------
(* Starting a generation. *)

(* The request is read; the response headers can fail if the client left. *)
Arrive(c) ==
    /\ pc[c] = "idle" /\ Goto(c, "headers")
    /\ UNCHANGED <<proc, headerPassed, sent, shared, children, connected, signalled, taken>>

SendHeaders(c) ==
    /\ pc[c] = "headers"
    /\ \/ Goto(c, "entering")
       \/ c \notin connected /\ Goto(c, "failed")
    /\ UNCHANGED <<proc, headerPassed, sent, shared, children, connected, signalled, taken>>

\* mutant: terminate() whether or not there is a child
BugTerminated(p) == signalled \cup {p}

(* terminate() after poll(): nothing is sent to a child that has exited. *)
Terminated(p) == IF p # None /\ child[p] = "running" THEN signalled \cup {p} ELSE signalled

\* mutant: the child of the previous chat is left running
BugEnterLeavesChild(c) ==
    /\ pc[c] = "entering" /\ processLock = None
    /\ processLock' = c
    /\ Goto(c, "spawning")
    /\ UNCHANGED <<proc, headerPassed, sent, currentProcess, children, connected, signalled, taken>>

\* mutant: the lock is not waited for
BugEnterUnlocked(c) ==
    /\ pc[c] = "entering"
    /\ processLock' = c
    /\ signalled' = Terminated(currentProcess)
    /\ Goto(c, "spawning")
    /\ UNCHANGED <<proc, headerPassed, sent, currentProcess, children, connected, taken>>

Enter(c) ==
    /\ pc[c] = "entering" /\ processLock = None
    /\ processLock' = c
    /\ signalled' = Terminated(currentProcess)
    /\ Goto(c, "spawning")
    /\ UNCHANGED <<proc, headerPassed, sent, currentProcess, children, connected, taken>>

Spawn(c) ==
    /\ pc[c] = "spawning"
    /\ child' = [child EXCEPT ![c] = "running"]
    /\ currentProcess' = c
    /\ processLock' = None
    /\ Goto(c, "capture")
    /\ UNCHANGED <<proc, headerPassed, sent, output, written, connected, signalled, taken>>

SpawnFails(c) ==
    /\ pc[c] = "spawning" /\ Goto(c, "failed")
    /\ processLock' = None
    /\ UNCHANGED <<proc, headerPassed, sent, currentProcess, children, connected, signalled, taken>>

(* proc = current_process, after the lock was released. *)
Capture(c) ==
    /\ pc[c] = "capture" /\ Goto(c, "reading")
    /\ proc' = [proc EXCEPT ![c] = currentProcess]
    /\ UNCHANGED <<headerPassed, sent, shared, children, connected, signalled, taken>>

-----------------------------------------------------------------------------
(* Copying the output. *)

Line(p) == output[p][taken[p] + 1]

TakeLine(c) ==
    /\ pc[c] = "reading" /\ taken[proc[c]] < written[proc[c]]
    /\ taken' = [taken EXCEPT ![proc[c]] = @ + 1]
    /\ UNCHANGED <<proc, shared, children, connected>>

WriteLine(c) == sent' = [sent EXCEPT ![c] = Append(@, <<proc[c], taken[proc[c]] + 1>>)]

SkipHeader(c) ==
    /\ TakeLine(c)
    /\ ~headerPassed[c] /\ ~HasMarker(Line(proc[c]))
    /\ UNCHANGED <<pc, headerPassed, sent, signalled>>

(* The write of the first line is not guarded: its failure ends the thread. *)
FirstLine(c) ==
    /\ TakeLine(c)
    /\ ~headerPassed[c] /\ HasMarker(Line(proc[c]))
    /\ headerPassed' = [headerPassed EXCEPT ![c] = TRUE]
    /\ \/ WriteLine(c) /\ UNCHANGED pc
       \/ c \notin connected /\ Goto(c, "failed") /\ UNCHANGED sent
    /\ UNCHANGED signalled

DropLine(c) ==
    /\ TakeLine(c)
    /\ headerPassed[c] /\ Line(proc[c]) = "marked"
    /\ UNCHANGED <<pc, headerPassed, sent, signalled>>

\* mutant: a client that has left does not end the child
BugSendLineKeepsChild(c) ==
    /\ TakeLine(c)
    /\ headerPassed[c] /\ Line(proc[c]) # "marked"
    /\ \/ WriteLine(c) /\ UNCHANGED pc
       \/ c \notin connected /\ Goto(c, "wait") /\ UNCHANGED sent
    /\ UNCHANGED <<headerPassed, signalled>>

SendLine(c) ==
    /\ TakeLine(c)
    /\ headerPassed[c] /\ Line(proc[c]) # "marked"
    /\ \/ WriteLine(c) /\ UNCHANGED <<pc, signalled>>
       \/ /\ c \notin connected /\ Goto(c, "wait") /\ UNCHANGED sent
          /\ signalled' = Terminated(proc[c])
    /\ UNCHANGED headerPassed

\* mutant: the loop leaves as soon as poll() says that the child has ended
BugEndOfOutputEarly(c) ==
    /\ pc[c] = "reading"
    /\ child[proc[c]] = "exited"
    /\ Goto(c, "wait")
    /\ UNCHANGED <<proc, headerPassed, sent, shared, children, connected, signalled, taken>>

(* readline returns nothing: every line was read and the pipe is closed. *)
EndOfOutput(c) ==
    /\ pc[c] = "reading"
    /\ taken[proc[c]] = written[proc[c]] /\ child[proc[c]] = "exited"
    /\ Goto(c, "wait")
    /\ UNCHANGED <<proc, headerPassed, sent, shared, children, connected, signalled, taken>>

Finish(c) ==
    /\ pc[c] = "wait" /\ child[proc[c]] = "exited"
    /\ Goto(c, "done")
    /\ UNCHANGED <<proc, headerPassed, sent, shared, children, connected, signalled, taken>>

-----------------------------------------------------------------------------
(* The environment: other requests, clients and the children. *)

Stop ==
    /\ processLock = None
    /\ signalled' = Terminated(currentProcess)
    /\ UNCHANGED <<handlers, shared, children, connected, taken>>

Leave(c) ==
    /\ pc[c] # "idle" /\ c \in connected
    /\ connected' = connected \ {c}
    /\ UNCHANGED <<handlers, shared, children, signalled, taken>>

(* Printing blocks while the pipe is full. *)
PrintLine(p) ==
    /\ child[p] = "running" /\ written[p] < Len(output[p])
    /\ written[p] - taken[p] < PipeCap
    /\ written' = [written EXCEPT ![p] = @ + 1]
    /\ UNCHANGED <<handlers, shared, child, output, connected, signalled, taken>>

Exit(p) ==
    /\ child[p] = "running" /\ written[p] = Len(output[p])
    /\ child' = [child EXCEPT ![p] = "exited"]
    /\ UNCHANGED <<handlers, shared, output, written, connected, signalled, taken>>

(* SIGTERM.  The part of a generated line that was flushed is readable; the *)
(* other lines are in the buffer of stdio and are lost.                     *)
Die(p) ==
    /\ child[p] = "running" /\ p \in signalled
    /\ child' = [child EXCEPT ![p] = "exited"]
    /\ \/ UNCHANGED written
       \/ /\ written[p] < Len(output[p]) /\ output[p][written[p] + 1] \in {"first", "text"}
          /\ written[p] - taken[p] < PipeCap
          /\ written' = [written EXCEPT ![p] = @ + 1]
    /\ UNCHANGED <<handlers, shared, output, connected, signalled, taken>>

Handler(c) == \/ SendHeaders(c) \/ Enter(c) \/ Spawn(c) \/ SpawnFails(c) \/ Capture(c)
              \/ SkipHeader(c) \/ FirstLine(c) \/ DropLine(c) \/ SendLine(c)
              \/ EndOfOutput(c) \/ Finish(c)

Child(p) == PrintLine(p) \/ Exit(p) \/ Die(p)

Next == \/ \E c \in Chats : Arrive(c) \/ Handler(c) \/ Leave(c) \/ Child(c)
        \/ Stop

Spec == Init /\ [][Next]_vars

(* Threads and processes are scheduled by the operating system, and a child *)
(* that has nothing to wait for goes on; nobody is bound to send a request. *)
FairSpec == Spec /\ \A c \in Chats : WF_vars(Handler(c)) /\ WF_vars(Child(c))

-----------------------------------------------------------------------------
(* Every variable has its type, and the pipe holds what it can.             *)
TypeOK ==
    /\ pc \in [Chats -> Locs]
    /\ connected \subseteq Chats
    /\ processLock \in Chats \cup {None} /\ currentProcess \in Chats \cup {None}
    /\ proc \in [Chats -> Chats \cup {None}]
    /\ headerPassed \in [Chats -> BOOLEAN]
    /\ sent \in [Chats -> Seq(Chats \X (Nat \ {0}))]
    /\ child \in [Chats -> {"none", "running", "exited"}]
    /\ signalled \subseteq Chats
    /\ output \in [Chats -> Outputs]
    /\ written \in [Chats -> Nat] /\ taken \in [Chats -> Nat]
    /\ \A p \in Chats : /\ taken[p] <= written[p] /\ written[p] <= Len(output[p])
                        /\ written[p] - taken[p] <= PipeCap

(* Whatever requests, failures and disconnections have come together, every *)
(* child that runs and has not been told to end is current_process: the     *)
(* next /api/stop or /api/chat reaches it, and two models never run at once *)
(* except for the time a terminated one takes to die.                       *)
Cancellable ==
    \A p \in Chats : child[p] = "running" /\ p \notin signalled => currentProcess = p

(* A handler that reads the child of another chat (the race at line 94) has *)
(* lost a child that was already told to end: no wanted generation goes     *)
(* unread because its handler went astray.                                  *)
StrayLostItsChild ==
    \A c \in Chats : proc[c] \notin {None, c} => child[c] = "exited" \/ c \in signalled

(* A handler that reaches "done" leaves no child of its own running, and a  *)
(* browser that stayed to the end of a generation nobody else read has got  *)
(* every generated line the child managed to print (and that the filter     *)
(* does not take for a message of the program), in order and once.          *)
Wanted(c) == {i \in 1..written[c] : output[c][i] \in {"first", "text"}}
Undisturbed(c) == proc[c] = c /\ \A d \in Chats \ {c} : proc[d] # c
CompleteStream ==
    \A c \in Chats : pc[c] = "done" =>
        /\ child[proc[c]] = "exited"
        /\ c \in connected /\ Undisturbed(c) =>
             /\ \A i \in Wanted(c) : <<c, i>> \in {sent[c][k] : k \in 1..Len(sent[c])}
             /\ \A k, l \in 1..Len(sent[c]) : k < l => sent[c][k][2] < sent[c][l][2]

(* A handler that has answered with headers ends, whoever leaves and        *)
(* whichever child it reads: it never waits for the lock, for a line or for *)
(* the end of a child for ever.                                             *)
HandlersEnd == \A c \in Chats : pc[c] = "entering" ~> pc[c] \in {"done", "failed"}

(* README.md calls the handling of the child "thread-safe"; that would mean *)
(* that a handler streams the child it has started.                         *)
ReadsOwnChild == \A c \in Chats : proc[c] \in {None, c}
=============================================================================
