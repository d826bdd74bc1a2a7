---------------------------- MODULE MCChatServer ----------------------------
(***************************************************************************)
(* Small instances of ChatServer.  A generation of three lines with its    *)
(* statistics, one whose prompt quotes the marker so that the header ends  *)
(* early, and a program that fails before it generates.                    *)
(***************************************************************************)
EXTENDS ChatServer

MCOutputs == {<<"head", "first", "text", "marked", "stats">>,
              <<"echo", "first", "marked", "stats">>,
              <<"head">>}
=============================================================================
