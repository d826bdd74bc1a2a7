------------------------------- MODULE Prompt -------------------------------
(***************************************************************************)
(* The way of a prompt into the program: main opens the model file         *)
(* (Gguf), makes the tokenizer from it and encodes the prompt (Tokenizer). *)
(* The program ends when the file cannot be opened.                        *)
(***************************************************************************)
EXTENDS Gguf, Tokenizer

CONSTANT Followed      \* bound: the files with which the program is followed to its end

ASSUME FollowedAssumption == Followed \subseteq Files

allVars == <<fileVars, vars>>

(* tokenizer_init inserts the tokens and the merges that it reads; here it *)
(* reads them all first.                                                   *)
PromptInit ==
    /\ FileInit /\ Init
    /\ model.tokens = LastOf(Given(<<"tokenizer", "tokens">>, "arr"), <<>>)
    /\ model.merges = LastOf(Given(<<"tokenizer", "merges">>, "arr"), <<>>)

Load == FileStep /\ UNCHANGED vars

Tokenize == phase = "loaded" /\ file \in Followed /\ Step /\ UNCHANGED fileVars

Ended == phase = "failed" \/ pc = "done" \/ (phase = "loaded" /\ file \notin Followed)

PromptNext == Load \/ Tokenize \/ (Ended /\ UNCHANGED allVars)

PromptSpec == PromptInit /\ [][PromptNext]_allVars
=============================================================================
