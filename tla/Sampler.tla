------------------------------ MODULE Sampler -------------------------------
(***************************************************************************)
(* One call of sampler_sample (src/src/sampler.c): the repetition penalty, *)
(* then the argmax, or else the best K tokens in a min-heap on a fixed     *)
(* array, their order, the nucleus and the draw.                           *)
(*                                                                         *)
(* Logits are integers.  expf is abstracted to Weight[d], the weight of a  *)
(* token whose logit is d below the best one, and 0 where Weight ends:     *)
(* expf underflows.  Probabilities are compared through their weights, and *)
(* top_p and the random number are fractions of Scale.  An entry of the    *)
(* heap is a token; its key is the token's logit, which does not change    *)
(* once the heap is built.                                                 *)
(***************************************************************************)
EXTENDS Integers, Sequences, FiniteSets

Sets == INSTANCE FiniteSetsExt

CONSTANTS Vocab,         \* vocab_size
          HeapMax,       \* size of the heap array: 256
          DefaultK,      \* top_k when the option is 0: 40
          LastN,         \* repeat_last_n: 64
          Calls,         \* the options of the command line and the token history
          LogitValues,
          Scale, Weight

Tokens == 0..Vocab-1

Options == [greedy : BOOLEAN, top_k : Nat, top_p : Int, penalty : Nat \ {0}]

ASSUME SamplerAssumption ==
    /\ Vocab \in Nat \ {0} /\ HeapMax \in Nat \ {0} /\ DefaultK \in Nat \ {0}
    /\ LastN \in Nat /\ Scale \in Nat \ {0}
    /\ LogitValues \subseteq Int
    /\ Calls \subseteq Options \X Seq(Nat)

(* expf is never negative, and 1 for the best token.                       *)
ASSUME WeightAssumption ==
    Weight \in [DOMAIN Weight -> Nat] /\ 0 \in DOMAIN Weight /\ Weight[0] > 0

VARIABLES pc,
          opt,           \* the options
          tokens,        \* the token history
          pos,           \* the next entry of it to penalise, then the next token
                         \* to compare with the argmax
          logits,
          heap,          \* the array; entries from size on are not initialised
          size,          \* heap_size
          next,          \* the next token to offer to the heap
          cur,           \* the entry being sifted
          order,         \* the heap after qsort
          selected

vars == <<pc, opt, tokens, pos, logits, heap, size, next, cur, order, selected>>

-----------------------------------------------------------------------------
(* sampler_init, and the bounds of sampler_sample.                         *)

TopK == IF opt.top_k = 0 THEN DefaultK ELSE opt.top_k

Least(a, b) == IF a < b THEN a ELSE b

BugK == Least(TopK, Vocab)                          \* mutant: the array's size forgotten
K == Least(Least(TopK, HeapMax), Vocab)

WindowStart(n) == IF n > LastN THEN n - LastN + 1 ELSE 1

Init ==
    /\ pc = "penalise"
    /\ \E c \in Calls : opt = c[1] /\ tokens = c[2]
    /\ pos = WindowStart(Len(tokens))
    /\ logits \in [Tokens -> LogitValues]
    /\ heap = [j \in 0..HeapMax-1 |-> 0]
    /\ size = 0 /\ next = 0 /\ cur = 0
    /\ order = <<>>
    /\ selected = 0

-----------------------------------------------------------------------------
(* The repetition penalty: once for each occurrence in the window.  The    *)
(* penalty is at least 1; one below 1, which rewards, is not modelled.     *)

BugPenalised(x) == x \div opt.penalty               \* mutant: divided whatever its sign
Penalised(x) == IF x > 0 THEN x \div opt.penalty ELSE x * opt.penalty

Penalising == opt.penalty # 1 /\ pos <= Len(tokens)

PenaliseOne ==
    /\ pc = "penalise" /\ Penalising
    /\ pos' = pos + 1
    /\ logits' = IF tokens[pos] < Vocab
                 THEN [logits EXCEPT ![tokens[pos]] = Penalised(@)]
                 ELSE logits
    /\ UNCHANGED <<pc, opt, tokens, heap, size, next, cur, order, selected>>

PenaltyDone ==
    /\ pc = "penalise" /\ ~Penalising
    /\ pc' = IF opt.greedy \/ TopK = 1 THEN "argmax" ELSE "fill"
    /\ pos' = 1
    /\ UNCHANGED <<opt, tokens, logits, heap, size, next, cur, order, selected>>

-----------------------------------------------------------------------------
(* The argmax: selected is max_i, which begins with token 0.               *)

BugExceeds(t) == logits[t] >= logits[selected]      \* mutant: the last of equals
Exceeds(t) == logits[t] > logits[selected]

ArgmaxNext ==
    /\ pc = "argmax" /\ pos < Vocab
    /\ pos' = pos + 1
    /\ selected' = IF Exceeds(pos) THEN pos ELSE selected
    /\ UNCHANGED <<pc, opt, tokens, logits, heap, size, next, cur, order>>

ArgmaxEnds ==
    /\ pc = "argmax" /\ pos >= Vocab
    /\ pc' = "done"
    /\ UNCHANGED <<opt, tokens, pos, logits, heap, size, next, cur, order, selected>>

-----------------------------------------------------------------------------
(* The heap: entry 0 is the least of the kept tokens.                      *)

Key(j)    == logits[heap[j]]
Parent(j) == (j - 1) \div 2
Swap(a, b) == [heap EXCEPT ![a] = heap[b], ![b] = heap[a]]

(* The heap is not full: the token is appended and rises.                  *)
Append1 ==
    /\ pc = "fill" /\ next < Vocab /\ size < K
    /\ heap' = [heap EXCEPT ![size] = next]
    /\ cur' = size
    /\ size' = size + 1
    /\ next' = next + 1
    /\ pc' = "up"
    /\ UNCHANGED <<opt, tokens, pos, logits, order, selected>>

Rises == cur > 0 /\ Key(cur) < Key(Parent(cur))

SiftUp ==
    /\ pc = "up" /\ Rises
    /\ heap' = Swap(cur, Parent(cur))
    /\ cur' = Parent(cur)
    /\ UNCHANGED <<pc, opt, tokens, pos, logits, size, next, order, selected>>

SiftUpEnds ==
    /\ pc = "up" /\ ~Rises
    /\ pc' = "fill"
    /\ UNCHANGED <<opt, tokens, pos, logits, heap, size, next, cur, order, selected>>

(* The heap is full: a token better than its least one takes its place and *)
(* sinks.                                                                  *)
Replace ==
    /\ pc = "fill" /\ next < Vocab /\ size = K
    /\ logits[next] > Key(0)
    /\ heap' = [heap EXCEPT ![0] = next]
    /\ cur' = 0
    /\ next' = next + 1
    /\ pc' = "down"
    /\ UNCHANGED <<opt, tokens, pos, logits, size, order, selected>>

BugDiscard ==                                       \* mutant: i is not advanced
    /\ pc = "fill" /\ next < Vocab /\ size = K
    /\ logits[next] <= Key(0)
    /\ UNCHANGED vars
Discard ==
    /\ pc = "fill" /\ next < Vocab /\ size = K
    /\ logits[next] <= Key(0)
    /\ next' = next + 1
    /\ UNCHANGED <<pc, opt, tokens, pos, logits, heap, size, cur, order, selected>>

BugChildren(j) == {2 * j + 1} \cap 0..K-1           \* mutant: the right child forgotten
Children(j) == {2 * j + 1, 2 * j + 2} \cap 0..K-1

(* The least of the children, the left one if they are equal, when it is   *)
(* less than their parent.                                                 *)
Smallest(c) == /\ c \in Children(cur) /\ Key(c) < Key(cur)
               /\ \A d \in Children(cur) : Key(c) <= Key(d)
               /\ \A d \in Children(cur) : d < c => Key(c) < Key(d)

SiftDown ==
    /\ pc = "down"
    /\ \E c \in Children(cur) : /\ Smallest(c)
                                /\ heap' = Swap(cur, c)
                                /\ cur' = c
    /\ UNCHANGED <<pc, opt, tokens, pos, logits, size, next, order, selected>>

SiftDownEnds ==
    /\ pc = "down" /\ \A c \in Children(cur) : Key(cur) <= Key(c)
    /\ pc' = "fill"
    /\ UNCHANGED <<opt, tokens, pos, logits, heap, size, next, cur, order, selected>>

-----------------------------------------------------------------------------
(* qsort: any descending order of the kept tokens, listed one at a time.   *)

Kept   == {heap[j] : j \in 0..size-1}
Sorted == {order[a] : a \in 1..Len(order)}

Sort ==
    /\ pc = "fill" /\ next = Vocab /\ Len(order) < K
    /\ \E t \in Kept \ Sorted : /\ \A u \in Kept \ Sorted : logits[u] <= logits[t]
                                /\ order' = Append(order, t)
    /\ UNCHANGED <<pc, opt, tokens, pos, logits, heap, size, next, cur, selected>>

SortEnds ==
    /\ pc = "fill" /\ next = Vocab /\ Len(order) = K
    /\ pc' = "draw"
    /\ UNCHANGED <<opt, tokens, pos, logits, heap, size, next, cur, order, selected>>

WeightOf(t) == LET d == logits[order[1]] - logits[t]
               IN  IF d \in DOMAIN Weight THEN Weight[d] ELSE 0

(* The weight of the first n candidates.                                   *)
Mass(n) == Sets!MapThenSumSet(LAMBDA a : WeightOf(order[a]), 1..n)

(* The first n candidates reach top_p of the whole.                        *)
Reaches(n) == Mass(n) * Scale >= opt.top_p * Mass(K)

(* n_cand: the shortest prefix that reaches top_p, or all.                 *)
BugNumCand(n) ==                                    \* mutant: n_cand = last_idx + 2
    IF opt.top_p < Scale
    THEN n = K \/ (n > 1 /\ Reaches(n - 1) /\ \A m \in 1..n-2 : ~Reaches(m))
    ELSE n = K
NumCand(n) ==
    IF opt.top_p < Scale
    THEN (n = K \/ Reaches(n)) /\ \A m \in 1..n-1 : ~Reaches(m)
    ELSE n = K

(* The first of n candidates at which the accumulated weight is at least   *)
(* the random fraction of the nucleus; there always is one.                *)
Drawn(a, n, frac) ==
    /\ Mass(a) * Scale >= frac * Mass(n)
    /\ \A b \in 1..a-1 : Mass(b) * Scale < frac * Mass(n)

Draw ==
    /\ pc = "draw"
    /\ \E n \in 1..K, frac \in 0..Scale-1 :
          /\ NumCand(n)
          /\ \E a \in 1..n : Drawn(a, n, frac) /\ selected' = order[a]
    /\ pc' = "done"
    /\ UNCHANGED <<opt, tokens, pos, logits, heap, size, next, cur, order>>

-----------------------------------------------------------------------------

Done == pc = "done" /\ UNCHANGED vars

Step == \/ PenaliseOne \/ PenaltyDone \/ ArgmaxNext \/ ArgmaxEnds
        \/ Append1 \/ SiftUp \/ SiftUpEnds
        \/ Replace \/ Discard \/ SiftDown \/ SiftDownEnds
        \/ Sort \/ SortEnds \/ Draw

Next == Step \/ Done

Spec == Init /\ [][Next]_vars

(* The call is a sequential computation that nothing blocks.               *)
FairSpec == Spec /\ WF_vars(Step)
-----------------------------------------------------------------------------
(* Properties.                                                             *)

(* Every access to the heap stays within its array and its initialised     *)
(* part (sampler.c:90-93).                                                 *)
TypeOK ==
    /\ pc \in {"penalise", "argmax", "fill", "up", "down", "draw", "done"}
    /\ <<opt, tokens>> \in Calls /\ pos \in Nat \ {0}
    /\ logits \in [Tokens -> Int]
    /\ heap \in [0..HeapMax-1 -> Tokens]
    /\ size \in 0..K /\ K <= HeapMax
    /\ next \in 0..Vocab
    /\ cur \in 0..HeapMax-1 /\ (pc \in {"up", "down"} => cur < size)
    /\ order \in Seq(Tokens)
    /\ selected \in Tokens

(* Whenever a token has been dealt with, the heap holds as many of the     *)
(* tokens offered so far as it may, each once, and none that was left out  *)
(* is better than one that was kept (sampler.c:96-116).                    *)
TopKKept ==
    pc = "fill" =>
        /\ size = Least(next, K)
        /\ Kept \subseteq 0..next-1
        /\ \A a, b \in 0..size-1 : heap[a] = heap[b] => a = b
        /\ \A t \in (0..next-1) \ Kept, u \in Kept : logits[t] <= logits[u]

(* A drawn token is possible, and the tokens better than it do not reach   *)
(* top_p of the K best alone: the nucleus is no larger than it has to be,  *)
(* judged on the logits and not on the heap (sampler.c:118-161).           *)
Better(t)  == {u \in Tokens : logits[u] > logits[t]}
Sum(S)     == Sets!MapThenSumSet(WeightOf, S)
DrawnFromNucleus ==
    pc = "done" /\ ~(opt.greedy \/ TopK = 1) =>
        /\ WeightOf(selected) > 0
        /\ Cardinality(Better(selected)) < K
        /\ \/ opt.top_p >= Scale \/ Better(selected) = {}
           \/ Sum(Better(selected)) * Scale < opt.top_p * Sum(Kept)

(* Without a draw the loop ends with the first of the best tokens, however *)
(* many are equal: the speculative loop's model_sample_greedy resolves     *)
(* ties in the same way (sampler.c:77-87, model.c:746-756).                *)
GreedyAgrees ==
    pc = "done" /\ (opt.greedy \/ TopK = 1) =>
        \A u \in Tokens : \/ logits[u] < logits[selected]
                          \/ logits[u] = logits[selected] /\ selected <= u

(* The penalty never makes a token more likely, and touches no token that  *)
(* is not among the last LastN of the history (sampler.c:64-75).           *)
PenaltyLowers ==
    [][\A t \in Tokens :
          /\ logits'[t] <= logits[t]
          /\ logits'[t] # logits[t] =>
                \E a \in 1..Len(tokens) : a + LastN > Len(tokens) /\ tokens[a] = t]_vars

(* The sifts and the draw end: the call returns (sampler.c:31, 102).       *)
Returns == <>(pc = "done")
=============================================================================
