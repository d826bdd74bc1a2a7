----------------------------- MODULE WebClient ------------------------------
(***************************************************************************)
(* One page of the web interface (src/web/app.js) and the streaming server *)
(* it talks to.  Every request has a connection of its own, so requests    *)
(* reach the server in any order; a request that fetch has sent may still  *)
(* arrive after its abort.                                                 *)
(*                                                                         *)
(* abort() rejects the pending fetch or read at once, and the finally block *)
(* of the submit handler runs before the next event: it belongs to the     *)
(* step that aborts.                                                       *)
(***************************************************************************)
EXTENDS ChatServer

VARIABLES isGenerating,
          current,      \* the chat abortController belongs to
          asked,        \* the chats submitted so far
          aborted,      \* those the user has cancelled
          stops         \* requests to /api/stop on their way

page == <<isGenerating, current, asked, aborted, stops>>

PageInit ==
    /\ Init
    /\ isGenerating = FALSE /\ current = None
    /\ asked = {} /\ aborted = {} /\ stops = 0

(* Submit with a prompt while nothing is generated. *)
Submit(c) ==
    /\ ~isGenerating /\ c \notin asked
    /\ isGenerating' = TRUE /\ current' = c
    /\ asked' = asked \cup {c}
    /\ UNCHANGED <<aborted, stops, vars>>

(* abort(), and the request to /api/stop, which neither handler waits for   *)
(* before the page is ready for the next chat.                              *)
Cancel ==
    /\ aborted' = aborted \cup {current}
    /\ connected' = connected \ {current}
    /\ stops' = stops + 1
    /\ isGenerating' = FALSE
    /\ UNCHANGED <<current, asked, handlers, shared, children, signalled, taken>>

(* Submit while a chat is generated: the button shows the stop icon. *)
StopButton == isGenerating /\ Cancel

(* New Chat; while nothing is generated it only clears the page. *)
NewChat == isGenerating /\ Cancel

(* The response is complete: the read loop and the finally block end. *)
ResponseEnds ==
    /\ isGenerating /\ pc[current] \in {"done", "failed"}
    /\ isGenerating' = FALSE
    /\ UNCHANGED <<current, asked, aborted, stops, vars>>

StopArrives ==
    /\ stops > 0 /\ stops' = stops - 1
    /\ Stop
    /\ UNCHANGED <<isGenerating, current, asked, aborted>>

Server ==
    /\ \E c \in Chats : (c \in asked /\ Arrive(c)) \/ Handler(c) \/ Child(c)
    /\ UNCHANGED page

PageNext == \/ \E c \in Chats : Submit(c)
            \/ StopButton \/ NewChat \/ ResponseEnds \/ StopArrives \/ Server

PageSpec == PageInit /\ [][PageNext]_<<page, vars>>

-----------------------------------------------------------------------------
(* README.md promises cancellation through /api/stop; what is cancelled is *)
(* the chat the user has cancelled: no other child is told to end.         *)
OnlyAbortedEnds == signalled \subseteq aborted
=============================================================================
