------------------------------ MODULE Generate ------------------------------
(***************************************************************************)
(* The generation driver, main() of src/src/main.c: prompt truncation,     *)
(* batched prefill, the greedy speculative loop (the MTP layer drafts, the *)
(* backbone verifies, rejected drafts are rolled back) and the standard    *)
(* one-token loop.  The engine it drives is the module Engine.             *)
(***************************************************************************)
EXTENDS Engine

CONSTANTS EosToken,      \* tok.eos_id
          Prompts,       \* encoded prompts, as token sequences
          PromptMax,     \* capacity of prompt_tokens (1024)
          HistMax,       \* capacity of all_tokens (2048)
          CtxArgs,       \* values of --ctx-size
          PredictArgs,   \* values of --n-predict
          SpecArgs,      \* values of --spec
          U32            \* 2^32, the modulus of position arithmetic

ASSUME GenerateAssumption ==
    /\ EosToken \in Token
    /\ \A p \in Prompts : p \in Seq(Token) /\ Len(p) <= PromptMax
    /\ PromptMax \in Nat /\ HistMax \in Nat /\ PromptMax < HistMax
    /\ U32 \in Nat /\ U32 > 2 /\ HistMax < U32
    /\ CtxArgs \subseteq 0..U32-1
    /\ PredictArgs \subseteq 0..U32-1
    /\ SpecArgs \subseteq 0..U32-1

VARIABLES opts,          \* what the command line asked for, frozen
          pc,            \* where main() is
          text,          \* all_tokens[0 .. n_all-1]
          generated,     \* tokens emitted
          nSpec,         \* n_spec
          lastB,         \* size of the last prefill chunk
          P, k, j,       \* the cycle's last position, drafts, drafts accepted
          cand,          \* the cycle's candidates: cand[i] is Cand(i)
          emitted,       \* the cycle's emission index i
          lastLogits     \* the buffer last_logits points to

driverVars == <<opts, pc, text, generated, nSpec, lastB, P, k, j, cand, emitted, lastLogits>>
cycleVars  == <<P, k, j, cand, emitted>>
vars       == <<engineVars, driverVars>>

MinOf(a, b) == IF a < b THEN a ELSE b
MaxOf(a, b) == IF a > b THEN a ELSE b

(* uint32_t arithmetic on a value at most one modulus out of range. *)
Wrap(x) == IF x < 0 THEN x + U32 ELSE IF x >= U32 THEN x - U32 ELSE x

Phases == {"prefill", "prefillMtp", "ready", "cycle", "draft", "accept", "emit", "settle",
           "anchor", "standard", "sample", "done"}

(* last_logits is model.logits, or row b of model.logits_b. *)
ModelLogits == -1
LastLogits == IF lastLogits = ModelLogits THEN logits ELSE logitsB[lastLogits]

Cand(n) == cand[n+1]

(* temp <= 0 and --spec: the speculative loop is taken. *)
Speculative == opts.nSpec > 0 /\ opts.tempZero

(* No random draw and no repetition penalty decides a token of this run. *)
Greedy == Speculative \/ opts.argmaxSampler

Options ==
    [allocCtx : CtxArgs,            \* n_ctx as model_init allocated it
     nCtx : Nat,                    \* n_ctx as the loops use it
     nPrompt : Nat, nPredict : Nat,
     nSpec : SpecArgs,              \* n_spec as the prefill tests it
     tempZero : BOOLEAN,            \* temp <= 0
     argmaxSampler : BOOLEAN]       \* sampler_sample returns the plain argmax

-----------------------------------------------------------------------------
(* Up to the prefill: the model is loaded with the context size asked for, *)
(* then the driver raises the size, truncates the prompt and clamps the    *)
(* number of tokens to what the history buffer holds.                      *)

RaisedCtx(c) == IF c < 2 THEN 2 ELSE c

KeptPrompt(prompt, nCtx) == SubSeq(prompt, 1, MinOf(Len(prompt), nCtx))

BugPredictBudget(nPrompt, nPredict) == nPredict     \* mutant: not clamped
PredictBudget(nPrompt, nPredict) ==
    IF nPrompt + nPredict > HistMax THEN HistMax - nPrompt ELSE nPredict

Init ==
    /\ EngineInit
    /\ \E prompt \in Prompts, c \in CtxArgs, n \in PredictArgs, s \in SpecArgs,
          tempZero \in BOOLEAN, argmaxSampler \in BOOLEAN :
          /\ text = KeptPrompt(prompt, RaisedCtx(c))
          /\ opts = [allocCtx |-> c, nCtx |-> RaisedCtx(c),
                     nPrompt |-> Len(text), nPredict |-> PredictBudget(Len(text), n),
                     nSpec |-> s, tempZero |-> tempZero, argmaxSampler |-> argmaxSampler]
          /\ nSpec = s
    /\ pc = "prefill"
    /\ generated = 0 /\ lastB = 0
    /\ P = 0 /\ k = 0 /\ j = 0 /\ cand = <<>> /\ emitted = 0
    /\ lastLogits = ModelLogits

-----------------------------------------------------------------------------
(* Prefill.                                                                *)

ChunkSize == MinOf(PrefillMaxB, opts.nPrompt - pos)
NextChunk == SubSeq(text, pos+1, pos + ChunkSize)
LastChunk == SubSeq(text, pos-lastB+1, pos)

(* The next chunk goes through the backbone, without checkpoints. *)
PrefillChunk ==
    /\ pc = "prefill" /\ pos < opts.nPrompt
    /\ ModelForwardBatch(NextChunk, pos, FALSE)
    /\ lastB' = ChunkSize
    /\ pc' = IF opts.nSpec > 0 THEN "prefillMtp" ELSE "prefill"
    /\ UNCHANGED <<opts, text, generated, nSpec, cycleVars, lastLogits>>

(* The same chunk fills the MTP rows, from the hidden states just saved. *)
PrefillMtp ==
    /\ pc = "prefillMtp"
    /\ MtpForwardBatch(LastChunk, pos - lastB, hSave)
    /\ pc' = "prefill"
    /\ UNCHANGED <<opts, text, generated, nSpec, lastB, cycleVars, lastLogits>>

(* The logits of the last prompt token become model.logits. *)
PrefillEnd ==
    /\ pc = "prefill" /\ pos >= opts.nPrompt
    /\ logits' = IF lastB > 0 THEN logitsB[lastB - 1] ELSE logits
    /\ pc' = "ready"
    /\ UNCHANGED <<weights, pos, recurrentVars, kv, logitsB, hSave, mtpVars,
                   opts, text, generated, nSpec, lastB, cycleVars, lastLogits>>

(* n_spec is clamped only where the speculative loop is entered. *)
BugClampSpec(n) == n                                \* mutant: not clamped
ClampSpec(n) == MinOf(n, SpecMaxB - 1)

Dispatch ==
    /\ pc = "ready"
    /\ pc' = IF Speculative THEN "cycle" ELSE "standard"
    /\ nSpec' = IF Speculative THEN ClampSpec(nSpec) ELSE nSpec
    /\ UNCHANGED <<engineVars, opts, text, generated, lastB, cycleVars, lastLogits>>

-----------------------------------------------------------------------------
(* The speculative loop.                                                   *)

BugStop == /\ pc' = "cycle"                         \* mutant: continue for break
           /\ UNCHANGED <<engineVars, opts, text, generated, nSpec, lastB, cycleVars, lastLogits>>

Stop == /\ pc' = "done"
        /\ UNCHANGED <<engineVars, opts, text, generated, nSpec, lastB, cycleVars, lastLogits>>

LastPos == Wrap(pos - 1)
BugRoom == Wrap(opts.nCtx - 2 - LastPos)            \* mutant: off by one
Room    == Wrap(opts.nCtx - 1 - LastPos)

(* Drafts are limited so that the batch ends inside the context. *)
BugDraftCount == nSpec                              \* mutant: not limited
DraftCount == MinOf(nSpec, Room - 1)

BudgetSpent == pc = "cycle" /\ generated >= opts.nPredict /\ Stop

NoRoom == pc = "cycle" /\ generated < opts.nPredict /\ Room < 1 /\ Stop

(* The first candidate is the end of the text. *)
EosChosen ==
    /\ pc = "cycle" /\ generated < opts.nPredict /\ Room >= 1
    /\ EosToken \in Pick(LastLogits)
    /\ Stop

StartCycle ==
    /\ pc = "cycle" /\ generated < opts.nPredict /\ Room >= 1
    /\ \E t \in Pick(LastLogits) \ {EosToken} : cand' = <<t>>
    /\ P' = LastPos
    /\ k' = DraftCount
    /\ pc' = "draft"
    /\ UNCHANGED <<engineVars, opts, text, generated, nSpec, lastB, j, emitted, lastLogits>>

(* The MTP layer proposes the next candidate: any token at all. *)
Draft ==
    /\ pc = "draft" /\ Len(cand) <= k
    /\ MtpForward(Cand(Len(cand)-1), Wrap(P + Len(cand)), mtpH, TRUE)
    /\ \E t \in Token : cand' = Append(cand, t)
    /\ UNCHANGED <<opts, pc, text, generated, nSpec, lastB, P, k, j, emitted, lastLogits>>

(* All candidates go through the backbone in one batch, with checkpoints. *)
Verify ==
    /\ pc = "draft" /\ Len(cand) > k
    /\ ModelForwardBatch(cand, Wrap(P + 1), TRUE)
    /\ pc' = "accept"
    /\ UNCHANGED <<opts, text, generated, nSpec, lastB, cycleVars, lastLogits>>

(* n drafts are accepted when each of them is the backbone's own choice    *)
(* after the candidate before it, and the next draft is not.               *)
Accepted(n) ==
    /\ \A a \in 0..n-1 : Cand(a+1) \in Pick(logitsB[a])
    /\ n < k => Pick(logitsB[n]) \ {Cand(n+1)} # {}

Accept ==
    /\ pc = "accept"
    /\ \E n \in 0..k : Accepted(n) /\ j' = n
    /\ emitted' = 0
    /\ pc' = "emit"
    /\ UNCHANGED <<engineVars, opts, text, generated, nSpec, lastB, P, k, cand, lastLogits>>

MoreToEmit == emitted <= j /\ generated < opts.nPredict

EmitCandidate ==
    /\ pc = "emit" /\ MoreToEmit
    /\ text' = Append(text, Cand(emitted))
    /\ generated' = generated + 1
    /\ emitted' = emitted + 1
    /\ UNCHANGED <<engineVars, opts, pc, nSpec, lastB, P, k, j, cand, lastLogits>>

EmitEnd ==
    /\ pc = "emit" /\ ~MoreToEmit
    /\ pc' = "settle"
    /\ UNCHANGED <<engineVars, opts, text, generated, nSpec, lastB, cycleVars, lastLogits>>

(* The batch reached the end of the context: leave, without rolling back. *)
ContextFull == pc = "settle" /\ pos >= opts.nCtx /\ Stop

KeepAll ==
    /\ pc = "settle" /\ pos < opts.nCtx /\ j >= k
    /\ pc' = "anchor"
    /\ UNCHANGED <<engineVars, opts, text, generated, nSpec, lastB, cycleVars, lastLogits>>

(* One past the last accepted candidate. *)
BugFrontier == Wrap(P + j + 1)                      \* mutant: off by one
Frontier == Wrap(P + j + 2)

Rollback ==
    /\ pc = "settle" /\ pos < opts.nCtx /\ j < k
    /\ ModelRollbackTo(j)
    /\ pos' = Frontier
    /\ pc' = "anchor"
    /\ UNCHANGED <<opts, text, generated, nSpec, lastB, cycleVars, lastLogits>>

BugAnchorHidden == mtpH                             \* mutant: no copy of h_save
AnchorHidden == hSave[j]

BugNextLogits == k                                  \* mutant: last row of the batch
NextLogits == j

(* The MTP layer restarts from the backbone's hidden state of the last     *)
(* accepted candidate, whose verification logits choose the next one.      *)
Anchor ==
    /\ pc = "anchor"
    /\ MtpForward(Cand(j), Wrap(P + j + 1), AnchorHidden, FALSE)
    /\ lastLogits' = NextLogits
    /\ pc' = "cycle"
    /\ P' = 0 /\ k' = 0 /\ j' = 0 /\ cand' = <<>> /\ emitted' = 0
    /\ UNCHANGED <<opts, text, generated, nSpec, lastB>>

-----------------------------------------------------------------------------
(* The standard loop.                                                      *)

(* sampler_sample on logits computed from context c: what it returns when  *)
(* a penalty or a random draw is involved is not constrained here.         *)
Sample(c) == IF opts.argmaxSampler THEN Pick(c) ELSE Token

EmitSample(c) ==
    /\ \E t \in Sample(c) : text' = Append(text, t)
    /\ generated' = generated + 1

(* The first token needs no forward pass, and no budget. *)
FirstToken ==
    /\ pc = "standard" /\ generated = 0
    /\ EmitSample(logits)
    /\ UNCHANGED <<engineVars, opts, pc, nSpec, lastB, cycleVars, lastLogits>>

CurToken == text[Len(text)]

BugStandardEnds == generated >= opts.nPredict \/ pos >= opts.nCtx  \* mutant: no EOS test
StandardEnds == \/ generated >= opts.nPredict
                \/ CurToken = EosToken
                \/ pos >= opts.nCtx

StandardStep ==
    /\ pc = "standard" /\ generated > 0 /\ ~StandardEnds
    /\ ModelForward(CurToken, pos)
    /\ pc' = "sample"
    /\ UNCHANGED <<opts, text, generated, nSpec, lastB, cycleVars, lastLogits>>

SampleNext ==
    /\ pc = "sample"
    /\ EmitSample(logits)
    /\ pc' = "standard"
    /\ UNCHANGED <<engineVars, opts, nSpec, lastB, cycleVars, lastLogits>>

StandardEnd == pc = "standard" /\ generated > 0 /\ StandardEnds /\ Stop

-----------------------------------------------------------------------------

Terminated == pc = "done" /\ UNCHANGED vars

Next ==
    \/ PrefillChunk \/ PrefillMtp \/ PrefillEnd \/ Dispatch
    \/ BudgetSpent \/ NoRoom \/ EosChosen \/ StartCycle
    \/ Draft \/ Verify \/ Accept \/ EmitCandidate \/ EmitEnd
    \/ ContextFull \/ KeepAll \/ Rollback \/ Anchor
    \/ FirstToken \/ StandardStep \/ SampleNext \/ StandardEnd
    \/ Terminated

Spec == Init /\ [][Next]_vars

(* main() is one thread of control that nothing blocks. *)
FairSpec == Spec /\ WF_vars(Next)
-----------------------------------------------------------------------------
(* Properties.                                                             *)

(* Every variable keeps to the values the C variable it stands for can     *)
(* hold; batch and checkpoint indices stay inside their buffers.           *)
TypeOK ==
    /\ EngineTypeOK
    /\ opts \in Options
    /\ pc \in Phases
    /\ text \in Seq(Token)
    /\ generated \in Nat
    /\ nSpec \in Nat
    /\ lastB \in 0..PrefillMaxB
    /\ P \in 0..U32-1
    /\ k \in 0..SpecMaxB-1 /\ j \in 0..k
    /\ cand \in Seq(Token) /\ Len(cand) <= SpecMaxB
    /\ emitted \in 0..SpecMaxB
    /\ lastLogits \in {ModelLogits} \cup BatchIdx

(* Whenever a cycle of the speculative loop begins, after any sequence of  *)
(* accepted and rejected drafts, the recurrent states, the K/V rows and    *)
(* the logits last_logits points to all describe the text emitted so far   *)
(* (main.c:211-223, model_rollback_to).  With its budget spent the loop    *)
(* may have kept accepted candidates it did not emit.                      *)
FrontierConsistent ==
    pc = "cycle" =>
        /\ Coherent(pos)
        /\ LastLogits = conv
        /\ Len(text) <= pos /\ text = SubSeq(conv, 1, Len(text))
        /\ generated < opts.nPredict => Len(text) = pos

(* The MTP layer is anchored on the same text: drafts are proposed from    *)
(* the frontier and never from rows left by a rejected draft               *)
(* (main.c:219-222, mtp_forward).                                          *)
MtpAnchored ==
    pc = "cycle" => /\ mtpH = conv
                    /\ RowsMatch(mtpKv, conv, pos)

(* No K/V row is written beyond the context the driver works with, by the  *)
(* backbone, by a draft or by an anchor: main.c:168-170, "never write KV   *)
(* entries beyond n_ctx-1".                                                *)
KvWithinContext == \A q \in DOMAIN kv \cup DOMAIN mtpKv : q < opts.nCtx

(* The same comment taken against the buffers that exist: no row beyond    *)
(* those model_init allocated.                                             *)
KvWithinAllocation == \A q \in DOMAIN kv \cup DOMAIN mtpKv : q < opts.allocCtx

(* all_tokens never overflows, the first unbudgeted token of the standard  *)
(* loop included (main.c:119-130, 203, 234, 243).                          *)
HistoryFits == Len(text) <= HistMax

(* The speculative loop gives up early only because the next token is the  *)
(* end of the text or because its last batch reached the end of the        *)
(* context (main.c:172, 179, 211).                                         *)
StoppedForCause ==
    pc = "done" /\ Speculative /\ generated < opts.nPredict =>
        pos >= opts.nCtx \/ EosToken \in Pick(LastLogits)

Continuation == SubSeq(text, opts.nPrompt + 1, Len(text))

EosOnlyLast == \A n \in 1..Len(Continuation)-1 : Continuation[n] # EosToken

(* The standard loop emits nothing after the end of the text (main.c:240). *)
StandardStopsAtEos == ~Speculative => EosOnlyLast

(* A greedy decode ends at the end-of-text token; a lossless speculative   *)
(* one (main.c:159-160) emits nothing after it.                            *)
NothingAfterEos == Speculative => EosOnlyLast

(* A greedy decode goes on until the budget is spent, the text ends or the *)
(* context is full; so does a lossless speculative one (main.c:159-160).   *)
StopsOnlyWhenDone ==
    pc = "done" /\ Speculative /\ generated < opts.nPredict =>
        \/ Len(text) >= opts.nCtx
        \/ EosToken \in Pick(text)
        \/ ~EosOnlyLast

(* The row of a token already in the text is never written again: neither  *)
(* a rejected draft nor a later batch reaches behind the frontier.         *)
EmittedRowsStable ==
    [][\A q \in DOMAIN kv : q < Len(text) => q \in DOMAIN kv' /\ kv'[q] = kv[q]]_vars

(* Whatever the drafts are and however many are accepted, the stream is a  *)
(* greedy decode of the prompt within its budget: every token the program  *)
(* emits is the one the backbone prefers after the text before it.         *)
Limit == opts.nPrompt + (IF Speculative THEN opts.nPredict ELSE MaxOf(1, opts.nPredict))

Abstract == INSTANCE GreedyDecode WITH greedy <- Greedy, limit <- Limit

ImplementsGreedyDecode == Abstract!Spec

(* The program ends, whatever the weights and the drafts: every cycle of   *)
(* the loop emits a token or leaves.                                       *)
Terminates == <>(pc = "done")
=============================================================================
