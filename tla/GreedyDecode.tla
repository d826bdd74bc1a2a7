---------------------------- MODULE GreedyDecode ----------------------------
(***************************************************************************)
(* What a generation run promises, with no engine behind it: a text that   *)
(* starts as the prompt and grows by one token at a time.  In a greedy run *)
(* every token is the one the backbone prefers after the text so far; in a *)
(* sampled run it is any token.  The text never outgrows its limit.        *)
(* This is the stream that src/src/main.c:159-160 calls the "backbone      *)
(* greedy decode" and claims the speculative decoder reproduces.           *)
(***************************************************************************)
EXTENDS Naturals, Sequences

CONSTANTS Token,         \* the vocabulary
          ZeroToken,     \* token id 0, the argmax of all-zero logits
          Weights,       \* the model files that may be loaded
          Argmax(_, _)   \* Argmax(w, c): preferred token of w after context c

VARIABLES weights,       \* the model file that was loaded
          greedy,        \* whether tokens are chosen greedily
          limit,         \* the length the text may reach
          text           \* the prompt followed by the tokens emitted

vars == <<weights, greedy, limit, text>>

Preferred(c) == IF c = <<>> THEN ZeroToken ELSE Argmax(weights, c)

Init == /\ weights \in Weights
        /\ greedy \in BOOLEAN
        /\ text \in Seq(Token)
        /\ limit \in Nat

Emit(t) == /\ Len(text) < limit
           /\ greedy => t = Preferred(text)
           /\ text' = Append(text, t)
           /\ UNCHANGED <<weights, greedy, limit>>

Next == \E t \in Token : Emit(t)

Spec == Init /\ [][Next]_vars
=============================================================================
