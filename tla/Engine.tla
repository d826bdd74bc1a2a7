------------------------------- MODULE Engine -------------------------------
(***************************************************************************)
(* The inference engine of src/src/model.c as its caller sees it: the      *)
(* recurrent (gated delta net) states, their checkpoints, the key/value    *)
(* rows of the attention layers, the MTP draft layer and the buffers that  *)
(* carry logits and hidden states from one call to the next.               *)
(*                                                                         *)
(* Numbers are abstracted to their provenance.  Every tensor is described  *)
(* by the context it was computed from: the sequence of tokens a reader of *)
(* the tensor would have to replay from an empty engine to obtain it.  A   *)
(* forward pass over states that do not all describe the same history      *)
(* computes Garbage, which describes no history.                           *)
(***************************************************************************)
EXTENDS Integers, Sequences

CONSTANTS Token, ZeroToken, Weights, Argmax(_, _),
          Junk,          \* not a token
          SpecMaxB,      \* SPEC_MAX_B, rows of a verification batch
          PrefillMaxB    \* PREFILL_MAX_B, rows of a prefill batch

ASSUME EngineAssumption ==
    /\ Junk \notin Token
    /\ ZeroToken \in Token
    /\ SpecMaxB \in Nat /\ SpecMaxB >= 2
    /\ PrefillMaxB \in Nat /\ PrefillMaxB >= SpecMaxB

VARIABLES weights,           \* the model file that was loaded
          pos,               \* m->pos, the next position
          conv, ssm,         \* recurrent states of the GDN layers
          ckptConv, ckptSsm, \* their checkpoints, by slot
          kv,                \* K/V row of the attention layers, by position
          logits, logitsB,   \* m->logits, and m->logits_b by batch index
          hSave,             \* m->h_save, hidden state by batch index
          mtpKv, mtpH        \* K/V rows and last output of the MTP layer

recurrentVars == <<conv, ssm, ckptConv, ckptSsm>>
mtpVars       == <<mtpKv, mtpH>>
engineVars    == <<weights, pos, recurrentVars, kv, logits, logitsB, hSave, mtpVars>>

Garbage  == <<Junk>>
Context  == Seq(Token) \cup {Garbage}
Slots    == 0..SpecMaxB-2
BatchIdx == 0..PrefillMaxB-1

(* A set of rows, written so far, by position. *)
RowsType(rows) == DOMAIN rows \subseteq Nat /\ \A p \in DOMAIN rows : rows[p] \in Context

EngineTypeOK ==
    /\ weights \in Weights
    /\ pos \in Nat
    /\ conv \in Context /\ ssm \in Context
    /\ ckptConv \in [Slots -> Context] /\ ckptSsm \in [Slots -> Context]
    /\ RowsType(kv) /\ RowsType(mtpKv)
    /\ logits \in Context
    /\ logitsB \in [BatchIdx -> Context]
    /\ hSave \in [BatchIdx -> Context]
    /\ mtpH \in Context

(* The freshly allocated engine: every buffer is zero. *)
EngineInit ==
    /\ weights \in Weights
    /\ pos = 0
    /\ conv = <<>> /\ ssm = <<>>
    /\ ckptConv = [b \in Slots |-> Garbage] /\ ckptSsm = ckptConv
    /\ kv = <<>> /\ mtpKv = <<>>
    /\ logits = <<>>
    /\ logitsB = [b \in BatchIdx |-> Garbage]
    /\ hSave = logitsB
    /\ mtpH = <<>>

-----------------------------------------------------------------------------
(* Reading logits.                                                         *)

Preferred(c) == IF c = <<>> THEN ZeroToken ELSE Argmax(weights, c)

(* The tokens model_sample_greedy may return on logits computed from c. *)
Pick(c) == {t \in Token : c # Garbage => t = Preferred(c)}

-----------------------------------------------------------------------------
(* The backbone.                                                           *)

(* The rows before position p are those of context c. *)
RowsMatch(rows, c, p) == \A q \in 0..p-1 : q \in DOMAIN rows /\ rows[q] = SubSeq(c, 1, q+1)

(* Every state the next token reads describes the same p tokens. *)
Coherent(p) ==
    /\ conv # Garbage /\ ssm = conv
    /\ Len(conv) = p
    /\ RowsMatch(kv, conv, p)

(* The context after the first b tokens of a batch placed at position p. *)
After(p, tokens, b) == IF Coherent(p) THEN conv \o SubSeq(tokens, 1, b) ELSE Garbage

(* Rows p, p+1, ... overwritten with new[0], new[1], ... *)
WriteRows(rows, p, new) ==
    LET written == {p + b : b \in DOMAIN new}
    IN  [q \in DOMAIN rows \cup written |-> IF q \in written THEN new[q-p] ELSE rows[q]]

(* The first entries of a buffer overwritten. *)
Overwrite(buf, new) == [b \in DOMAIN buf |-> IF b \in DOMAIN new THEN new[b] ELSE buf[b]]

(* Checkpoints are taken after the tokens b with b + 1 < NumCkpt.          *)
BugNumCkpt(ckpt, B) == IF ckpt THEN B - 1 ELSE 0    \* mutant: one slot short
NumCkpt(ckpt, B) == IF ~ckpt THEN 0 ELSE IF B < SpecMaxB THEN B ELSE SpecMaxB

(* model_forward_batch(tokens, p, Len(tokens), ckpt) *)
ModelForwardBatch(tokens, p, ckpt) ==
    LET B     == Len(tokens)
        seen  == [b \in 0..B-1 |-> After(p, tokens, b+1)]
        saved == [b \in 0..NumCkpt(ckpt, B)-2 |-> seen[b]]
    IN  /\ conv' = After(p, tokens, B) /\ ssm' = conv'
        /\ ckptConv' = Overwrite(ckptConv, saved)
        /\ ckptSsm' = Overwrite(ckptSsm, saved)
        /\ kv' = WriteRows(kv, p, seen)
        /\ hSave' = Overwrite(hSave, seen)
        /\ logitsB' = Overwrite(logitsB, seen)
        /\ pos' = p + B
        /\ UNCHANGED <<weights, logits, mtpVars>>

(* model_forward(token, p) *)
ModelForward(token, p) ==
    /\ conv' = After(p, <<token>>, 1) /\ ssm' = conv'
    /\ kv' = WriteRows(kv, p, [b \in {0} |-> conv'])
    /\ logits' = conv'
    /\ pos' = p + 1
    /\ UNCHANGED <<weights, ckptConv, ckptSsm, logitsB, hSave, mtpVars>>

(* model_rollback_to(b): the caller adjusts pos. *)
ModelRollbackTo(b) ==
    /\ conv' = ckptConv[b]
    /\ ssm' = ckptSsm[b]
    /\ UNCHANGED <<weights, ckptConv, ckptSsm, kv, logits, logitsB, hSave, mtpVars>>

-----------------------------------------------------------------------------
(* The MTP draft layer.  Fed a token at position p with a hidden state h,  *)
(* it describes p+1 tokens: h is either the backbone's hidden state of the *)
(* token itself (prefill, anchor) or the layer's own output at p-1.        *)

MtpContext(token, p, h) ==
    LET c == IF Len(h) = p THEN Append(h, token) ELSE h
    IN  IF /\ h # Garbage
           /\ Len(c) = p+1 /\ c[p+1] = token
           /\ RowsMatch(mtpKv, c, p)
        THEN c ELSE Garbage

(* mtp_forward(token, p, wantLogits) with m->mtp_h = h.  The logits it     *)
(* writes are a draft's: nothing says what the backbone would prefer.      *)
MtpForward(token, p, h, wantLogits) ==
    /\ mtpH' = MtpContext(token, p, h)
    /\ mtpKv' = WriteRows(mtpKv, p, [b \in {0} |-> mtpH'])
    /\ logits' = IF wantLogits THEN Garbage ELSE logits
    /\ UNCHANGED <<weights, pos, recurrentVars, kv, logitsB, hSave>>

(* mtp_forward_batch(tokens, p, Len(tokens), 0) right after the backbone's *)
(* own batch left the hidden states h.                                     *)
MtpForwardBatch(tokens, p, h) ==
    LET Covers(b) == /\ h[b] # Garbage /\ Len(h[b]) = p+b+1 /\ h[b][p+b+1] = tokens[b+1]
                     /\ RowsMatch(mtpKv, h[b], p)
                     /\ \A a \in 0..b-1 : h[a] = SubSeq(h[b], 1, p+a+1)
        out       == [b \in 0..Len(tokens)-1 |-> IF Covers(b) THEN h[b] ELSE Garbage]
    IN  /\ mtpKv' = WriteRows(mtpKv, p, out)
        /\ mtpH' = out[Len(tokens)-1]
        /\ UNCHANGED <<weights, pos, recurrentVars, kv, logits, logitsB, hSave>>
=============================================================================
