------------------------------ MODULE MCSampler -----------------------------
(***************************************************************************)
(* Instances of the sampler for TLC: six tokens and a heap array of five    *)
(* entries, which has three levels.                                        *)
(***************************************************************************)
EXTENDS Sampler

MCLogits == {-2, 0, 4}

Call(g, k, p, r, h) == <<[greedy |-> g, top_k |-> k, top_p |-> p, penalty |-> r], h>>

(* The argmax by each of its two conditions, top_k at its default, beyond  *)
(* the array and between; top_p at one, in between and at zero; and token  *)
(* histories longer than the window, with a repeated token and with one    *)
(* outside the vocabulary.                                                 *)
MCCalls == {Call(TRUE, 3, 6, 2, <<0, 1, 1>>), Call(FALSE, 1, 6, 1, <<0>>),
            Call(FALSE, 0, 10, 1, <<>>), Call(FALSE, 9, 7, 1, <<2>>),
            Call(FALSE, 3, 6, 2, <<2, 9, 0>>), Call(FALSE, 2, 0, 3, <<4, 4>>)}

(* The weight of a token d below the best: it halves, and vanishes.        *)
MCWeight == [d \in 0..4 |-> CASE d = 0 -> 8 [] d \in 1..2 -> 4 [] OTHER -> 1]
=============================================================================
