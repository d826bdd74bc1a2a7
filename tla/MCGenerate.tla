----------------------------- MODULE MCGenerate -----------------------------
(***************************************************************************)
(* Small instances of Generate.  Tokens are 0..2 with 0 the argmax of zero *)
(* logits and 2 the end of the text.  A model file is a small number from  *)
(* which the preferred token of each context is derived.                   *)
(***************************************************************************)
EXTENDS Generate, SequencesExt

MCToken   == 0..2
MCWeights == {0, 1, 4}

(* A mixing of the whole context, so that different histories of the same  *)
(* length prefer different tokens, and seldom the end of the text.         *)
MCArgmax(w, c) == LET Mix(a, t) == (3*a + t + 1) % 11
                  IN  <<0, 1, 2, 1, 0>>[1 + ((w + FoldLeft(Mix, w, c)) % 5)]

MCPrompts == {<<>>, <<1>>, <<1, 0, 1>>, <<0, 1, 2, 0, 1>>, <<1, 1, 0, 1>>}
=============================================================================
