---------------------------- MODULE MCWebClient -----------------------------
(***************************************************************************)
(* A page that submits two chats; every child prints three lines.          *)
(***************************************************************************)
EXTENDS WebClient

MCOutputs == {<<"head", "first", "marked">>}
=============================================================================
