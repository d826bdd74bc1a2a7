--------------------------- MODULE GenerateProofs ---------------------------
(***************************************************************************)
(* Proofs about Generate, for every vocabulary, model, prompt, option and  *)
(* buffer size.  The inductive invariant IInv says, at each place of the   *)
(* driver, which text the engine's states describe; the invariants the     *)
(* runs check and the refinement of GreedyDecode follow from it.  Before   *)
(* it, what one call of the engine does to states that describe a text.    *)
(***************************************************************************)
EXTENDS Generate, SequenceTheorems, TLAPS

-----------------------------------------------------------------------------
(* Prefixes of texts.                                                      *)

(* The first n tokens of a context. *)
Prefix(c, n) == SubSeq(c, 1, n)

(* A prefix is a text of its own, with the same tokens. *)
LEMMA PrefixProperties ==
    ASSUME NEW S, NEW c \in Seq(S), NEW n \in 0..Len(c)
    PROVE  /\ Prefix(c, n) \in Seq(S)
           /\ Len(Prefix(c, n)) = n
           /\ \A i \in 1..n : Prefix(c, n)[i] = c[i]
<1>1. \A i \in 1..n : c[i] \in S
  BY ElementOfSeq
<1> QED  BY <1>1, SubSeqProperties DEF Prefix

(* Two texts with the same tokens are the same text. *)
LEMMA SameText ==
    ASSUME NEW S, NEW c \in Seq(S), NEW d \in Seq(S), Len(c) = Len(d),
           \A i \in 1..Len(c) : c[i] = d[i]
    PROVE  c = d
BY SeqEqual

(* A prefix of a prefix. *)
LEMMA PrefixOfPrefix ==
    ASSUME NEW S, NEW c \in Seq(S), NEW n \in 0..Len(c), NEW m \in 0..n
    PROVE  Prefix(Prefix(c, n), m) = Prefix(c, m)
<1>1. /\ Prefix(c, n) \in Seq(S) /\ Len(Prefix(c, n)) = n
      /\ \A i \in 1..n : Prefix(c, n)[i] = c[i]
  BY PrefixProperties
<1>2. m \in 0..Len(c)
  BY LenProperties
<1>3. /\ Prefix(c, m) \in Seq(S) /\ Len(Prefix(c, m)) = m
      /\ \A i \in 1..m : Prefix(c, m)[i] = c[i]
  BY <1>2, PrefixProperties
<1>4. /\ Prefix(Prefix(c, n), m) \in Seq(S) /\ Len(Prefix(Prefix(c, n), m)) = m
      /\ \A i \in 1..m : Prefix(Prefix(c, n), m)[i] = Prefix(c, n)[i]
  BY <1>1, PrefixProperties
<1> QED  BY <1>1, <1>3, <1>4, SameText

(* The whole text. *)
LEMMA PrefixFull ==
    ASSUME NEW S, NEW c \in Seq(S)
    PROVE  Prefix(c, Len(c)) = c
BY SubSeqFull DEF Prefix

(* A prefix of a continued text lies in the text or reaches into its      *)
(* continuation.                                                          *)
LEMMA PrefixOfConcat ==
    ASSUME NEW S, NEW c \in Seq(S), NEW t \in Seq(S)
    PROVE  /\ \A n \in 0..Len(c) : Prefix(c \o t, n) = Prefix(c, n)
           /\ \A n \in 0..Len(t) : Prefix(c \o t, Len(c) + n) = c \o Prefix(t, n)
<1>0. /\ c \o t \in Seq(S) /\ Len(c \o t) = Len(c) + Len(t)
      /\ \A i \in 1..Len(c) + Len(t) : (c \o t)[i] = IF i <= Len(c) THEN c[i] ELSE t[i - Len(c)]
      /\ Len(c) \in Nat /\ Len(t) \in Nat
  BY ConcatProperties, LenProperties
<1>1. ASSUME NEW n \in 0..Len(c) PROVE Prefix(c \o t, n) = Prefix(c, n)
  <2>1. n \in 0..Len(c \o t)
    BY <1>0
  <2>2. /\ Prefix(c \o t, n) \in Seq(S) /\ Len(Prefix(c \o t, n)) = n
        /\ \A i \in 1..n : Prefix(c \o t, n)[i] = (c \o t)[i]
    BY <1>0, <2>1, PrefixProperties
  <2>3. /\ Prefix(c, n) \in Seq(S) /\ Len(Prefix(c, n)) = n
        /\ \A i \in 1..n : Prefix(c, n)[i] = c[i]
    BY PrefixProperties
  <2>4. \A i \in 1..n : Prefix(c \o t, n)[i] = Prefix(c, n)[i]
    BY <1>0, <2>2, <2>3
  <2> QED  BY <2>2, <2>3, <2>4, SameText
<1>2. ASSUME NEW n \in 0..Len(t) PROVE Prefix(c \o t, Len(c) + n) = c \o Prefix(t, n)
  <2>1. Len(c) + n \in 0..Len(c \o t)
    BY <1>0
  <2>2. /\ Prefix(c \o t, Len(c) + n) \in Seq(S) /\ Len(Prefix(c \o t, Len(c) + n)) = Len(c) + n
        /\ \A i \in 1..Len(c) + n : Prefix(c \o t, Len(c) + n)[i] = (c \o t)[i]
    BY <1>0, <2>1, PrefixProperties
  <2>3. /\ Prefix(t, n) \in Seq(S) /\ Len(Prefix(t, n)) = n
        /\ \A i \in 1..n : Prefix(t, n)[i] = t[i]
    BY PrefixProperties
  <2>4. /\ c \o Prefix(t, n) \in Seq(S) /\ Len(c \o Prefix(t, n)) = Len(c) + n
        /\ \A i \in 1..Len(c) + n :
              (c \o Prefix(t, n))[i] = IF i <= Len(c) THEN c[i] ELSE Prefix(t, n)[i - Len(c)]
    <3>1. /\ c \o Prefix(t, n) \in Seq(S)
          /\ Len(c \o Prefix(t, n)) = Len(c) + Len(Prefix(t, n))
          /\ \A i \in 1..Len(c) + Len(Prefix(t, n)) :
                (c \o Prefix(t, n))[i] = IF i <= Len(c) THEN c[i] ELSE Prefix(t, n)[i - Len(c)]
      BY <2>3, ConcatProperties
    <3> QED  BY <2>3, <3>1
  <2>5. ASSUME NEW i \in 1..Len(c) + n
        PROVE  Prefix(c \o t, Len(c) + n)[i] = (c \o Prefix(t, n))[i]
    <3>1. Prefix(c \o t, Len(c) + n)[i] = IF i <= Len(c) THEN c[i] ELSE t[i - Len(c)]
      BY <1>0, <2>2, SMTT(40)
    <3>2. i > Len(c) => t[i - Len(c)] = Prefix(t, n)[i - Len(c)]
      BY <1>0, <2>3
    <3> QED  BY <1>0, <2>4, <3>1, <3>2
  <2> QED  BY <2>2, <2>4, <2>5, SameText
<1> QED  BY <1>1, <1>2

(* A continuation up to its token n. *)
LEMMA PrefixOfContinuation ==
    ASSUME NEW S, NEW c \in Seq(S), NEW t \in Seq(S), NEW n \in 0..Len(t)
    PROVE  Prefix(c \o t, Len(c) + n) = c \o Prefix(t, n)
BY PrefixOfConcat

(* The next token of a text extends its prefix. *)
LEMMA PrefixAppend ==
    ASSUME NEW S, NEW c \in Seq(S), NEW n \in 0..Len(c)-1
    PROVE  Append(Prefix(c, n), c[n+1]) = Prefix(c, n+1)
<1>0. Len(c) \in Nat /\ n \in 0..Len(c) /\ n+1 \in 0..Len(c) /\ c[n+1] \in S
  BY LenProperties, ElementOfSeq
<1>1. /\ Prefix(c, n) \in Seq(S) /\ Len(Prefix(c, n)) = n
      /\ \A i \in 1..n : Prefix(c, n)[i] = c[i]
  BY <1>0, PrefixProperties
<1>2. /\ Prefix(c, n+1) \in Seq(S) /\ Len(Prefix(c, n+1)) = n+1
      /\ \A i \in 1..n+1 : Prefix(c, n+1)[i] = c[i]
  BY <1>0, PrefixProperties
<1>3. /\ Append(Prefix(c, n), c[n+1]) \in Seq(S)
      /\ Len(Append(Prefix(c, n), c[n+1])) = n+1
      /\ \A i \in 1..n+1 : Append(Prefix(c, n), c[n+1])[i] = c[i]
  BY <1>0, <1>1
<1> QED  BY <1>2, <1>3, SameText

(* A text continued by one token keeps its prefixes. *)
LEMMA PrefixOfAppend ==
    ASSUME NEW S, NEW c \in Seq(S), NEW e \in S, NEW n \in 0..Len(c)
    PROVE  Prefix(Append(c, e), n) = Prefix(c, n)
<1>0. /\ Append(c, e) \in Seq(S) /\ Len(Append(c, e)) = Len(c) + 1
      /\ \A i \in 1..Len(c) : Append(c, e)[i] = c[i]
      /\ Len(c) \in Nat /\ n \in 0..Len(Append(c, e))
  BY LenProperties
<1>1. /\ Prefix(c, n) \in Seq(S) /\ Len(Prefix(c, n)) = n
      /\ \A i \in 1..n : Prefix(c, n)[i] = c[i]
  BY PrefixProperties
<1>2. /\ Prefix(Append(c, e), n) \in Seq(S) /\ Len(Prefix(Append(c, e), n)) = n
      /\ \A i \in 1..n : Prefix(Append(c, e), n)[i] = Append(c, e)[i]
  BY <1>0, PrefixProperties
<1> QED  BY <1>0, <1>1, <1>2, SameText

(* Continuing a text by the next prefix of a continuation. *)
LEMMA ConcatAppend ==
    ASSUME NEW S, NEW c \in Seq(S), NEW t \in Seq(S), NEW e \in S
    PROVE  /\ Append(c \o t, e) = c \o Append(t, e)
           /\ Append(c, e) = c \o <<e>>
<1>1. /\ c \o t \in Seq(S) /\ Len(c \o t) = Len(c) + Len(t)
      /\ \A i \in 1..Len(c) + Len(t) : (c \o t)[i] = IF i <= Len(c) THEN c[i] ELSE t[i - Len(c)]
      /\ Len(c) \in Nat /\ Len(t) \in Nat
  BY ConcatProperties, LenProperties
<1>2. /\ Append(t, e) \in Seq(S) /\ Len(Append(t, e)) = Len(t) + 1
      /\ \A i \in 1..Len(t) : Append(t, e)[i] = t[i]
      /\ Append(t, e)[Len(t) + 1] = e
  OBVIOUS
<1>3. /\ c \o Append(t, e) \in Seq(S) /\ Len(c \o Append(t, e)) = Len(c) + Len(t) + 1
      /\ \A i \in 1..Len(c) + Len(t) + 1 :
            (c \o Append(t, e))[i] = IF i <= Len(c) THEN c[i] ELSE Append(t, e)[i - Len(c)]
  BY <1>1, <1>2, ConcatProperties
<1>4. /\ Append(c \o t, e) \in Seq(S) /\ Len(Append(c \o t, e)) = Len(c) + Len(t) + 1
      /\ \A i \in 1..Len(c) + Len(t) : Append(c \o t, e)[i] = (c \o t)[i]
      /\ Append(c \o t, e)[Len(c) + Len(t) + 1] = e
  BY <1>1
<1>5. \A i \in 1..Len(c) + Len(t) + 1 : Append(c \o t, e)[i] = (c \o Append(t, e))[i]
  BY <1>1, <1>2, <1>3, <1>4
<1> QED  BY <1>3, <1>4, <1>5, SameText, AppendIsConcat

-----------------------------------------------------------------------------
(* Calls of the engine.                                                    *)

(* Garbage describes no text. *)
LEMMA GarbageIsNoText == Garbage \notin Seq(Token)
<1>1. Garbage[1] = Junk /\ Len(Garbage) = 1
  BY DEF Garbage
<1>2. Garbage \in Seq(Token) => Garbage[1] \in Token
  BY <1>1, ElementOfSeq
<1> QED  BY <1>1, <1>2, EngineAssumption

(* States that agree describe a text. *)
LEMMA CoherentText ==
    ASSUME EngineTypeOK, NEW p, Coherent(p)
    PROVE  /\ conv \in Seq(Token) /\ ssm = conv /\ Len(conv) = p /\ p \in Nat
           /\ RowsMatch(kv, conv, p)
BY LenProperties DEF EngineTypeOK, Coherent, Context

(* Whatever the states are, a pass leaves a context or garbage. *)
LEMMA AfterContext ==
    ASSUME EngineTypeOK, NEW p, NEW tokens \in Seq(Token), NEW b \in 0..Len(tokens)
    PROVE  After(p, tokens, b) \in Context
<1>1. CASE Coherent(p)
  <2>1. conv \in Seq(Token)
    BY <1>1, CoherentText
  <2>2. SubSeq(tokens, 1, b) \in Seq(Token)
    BY PrefixProperties DEF Prefix
  <2>3. conv \o SubSeq(tokens, 1, b) \in Seq(Token)
    BY <2>1, <2>2, ConcatProperties
  <2> QED  BY <1>1, <2>3 DEF After, Context
<1>2. CASE ~Coherent(p)
  BY <1>2 DEF After, Context
<1> QED  BY <1>1, <1>2

(* w is the rows with new[0..n-1] written from position p on. *)
Written(w, rows, p, n, new) ==
    /\ DOMAIN w = DOMAIN rows \cup (p..p+n-1)
    /\ \A b \in 0..n-1 : w[p+b] = new[b]
    /\ \A q \in DOMAIN rows : q \notin p..p+n-1 => w[q] = rows[q]

(* Rows are added or replaced where they are written, and nowhere else. *)
LEMMA WriteRowsProperties ==
    ASSUME NEW rows, NEW p \in Nat, NEW n \in Nat, NEW new, DOMAIN new = 0..n-1
    PROVE  Written(WriteRows(rows, p, new), rows, p, n, new)
<1>1. {p + b : b \in DOMAIN new} = p..p+n-1
  <2>1. ASSUME NEW q \in p..p+n-1 PROVE q \in {p + b : b \in DOMAIN new}
    <3>1. q - p \in DOMAIN new /\ q = p + (q - p)
      BY <2>1
    <3> QED  BY <3>1
  <2> QED  BY <2>1
<1>2. \A b \in 0..n-1 : p + b \in p..p+n-1 /\ p + b - p = b
  OBVIOUS
<1>3. WriteRows(rows, p, new) =
        [q \in DOMAIN rows \cup (p..p+n-1) |-> IF q \in p..p+n-1 THEN new[q-p] ELSE rows[q]]
  BY <1>1 DEF WriteRows
<1> QED  BY <1>2, <1>3 DEF Written

(* Rows stay rows of contexts. *)
LEMMA WriteRowsType ==
    ASSUME NEW rows, RowsType(rows), NEW p \in Nat, NEW n \in Nat, NEW new,
           DOMAIN new = 0..n-1, \A b \in 0..n-1 : new[b] \in Context
    PROVE  RowsType(WriteRows(rows, p, new))
<1> DEFINE w == WriteRows(rows, p, new)
<1>1. /\ DOMAIN w = DOMAIN rows \cup (p..p+n-1)
      /\ \A b \in 0..n-1 : w[p+b] = new[b]
      /\ \A q \in DOMAIN rows : q \notin p..p+n-1 => w[q] = rows[q]
  <2>1. Written(w, rows, p, n, new)
    BY WriteRowsProperties
  <2> QED  BY <2>1 DEF Written
<1>2. DOMAIN w \subseteq Nat
  BY <1>1 DEF RowsType
<1>3. ASSUME NEW q \in DOMAIN w PROVE w[q] \in Context
  <2>1. CASE q \in p..p+n-1
    <3>1. q - p \in 0..n-1 /\ p + (q - p) = q
      BY <2>1
    <3>2. w[p + (q - p)] = new[q - p]
      BY <1>1, <3>1
    <3> QED  BY <3>1, <3>2
  <2>2. CASE q \notin p..p+n-1
    BY <1>1, <2>2 DEF RowsType
  <2> QED  BY <2>1, <2>2
<1> QED  BY <1>2, <1>3 DEF RowsType

(* Rows that match the first p tokens of c, continued by its next n. *)
LEMMA WriteRowsMatch ==
    ASSUME NEW rows, NEW p \in Nat, NEW n \in Nat, NEW new, DOMAIN new = 0..n-1,
           NEW c, RowsMatch(rows, c, p), \A b \in 0..n-1 : new[b] = SubSeq(c, 1, p+b+1)
    PROVE  RowsMatch(WriteRows(rows, p, new), c, p+n)
<1> DEFINE w == WriteRows(rows, p, new)
<1>1. /\ DOMAIN w = DOMAIN rows \cup (p..p+n-1)
      /\ \A b \in 0..n-1 : w[p+b] = new[b]
      /\ \A q \in DOMAIN rows : q \notin p..p+n-1 => w[q] = rows[q]
  <2>1. Written(w, rows, p, n, new)
    BY WriteRowsProperties
  <2> QED  BY <2>1 DEF Written
<1>2. ASSUME NEW q \in 0..p+n-1 PROVE q \in DOMAIN w /\ w[q] = SubSeq(c, 1, q+1)
  <2>1. CASE q < p
    <3>1. q \in 0..p-1 /\ q \notin p..p+n-1
      BY <2>1
    <3> QED  BY <1>1, <3>1 DEF RowsMatch
  <2>2. CASE q >= p
    <3>1. q - p \in 0..n-1 /\ p + (q - p) = q /\ q \in p..p+n-1
      BY <2>2
    <3>2. w[p + (q - p)] = new[q - p] /\ new[q - p] = SubSeq(c, 1, p + (q - p) + 1)
      BY <1>1, <3>1
    <3> QED  BY <1>1, <3>1, <3>2
  <2> QED  BY <2>1, <2>2
<1> QED  BY <1>2 DEF RowsMatch

(* Rows that match a text match what its first tokens are a prefix of. *)
LEMMA RowsMatchPrefix ==
    ASSUME NEW rows, NEW c \in Seq(Token), NEW d \in Seq(Token), NEW p \in Nat,
           p <= Len(c), p <= Len(d), Prefix(c, p) = Prefix(d, p), RowsMatch(rows, c, p)
    PROVE  RowsMatch(rows, d, p)
<1>0. Len(c) \in Nat /\ Len(d) \in Nat
  BY LenProperties
<1>1. ASSUME NEW q \in 0..p-1 PROVE Prefix(c, q+1) = Prefix(d, q+1)
  <2>1. p \in 0..Len(c) /\ p \in 0..Len(d) /\ q+1 \in 0..p
    BY <1>0
  <2>2. Prefix(Prefix(c, p), q+1) = Prefix(c, q+1)
    BY <2>1, PrefixOfPrefix
  <2>3. Prefix(Prefix(d, p), q+1) = Prefix(d, q+1)
    BY <2>1, PrefixOfPrefix
  <2> QED  BY <2>2, <2>3
<1> QED  BY <1>1 DEF RowsMatch, Prefix


-----------------------------------------------------------------------------
(* Batches.                                                                *)

(* Overwriting keeps a buffer a buffer. *)
LEMMA OverwriteType ==
    ASSUME NEW I, NEW buf \in [I -> Context], NEW new, \A b \in DOMAIN new : new[b] \in Context
    PROVE  Overwrite(buf, new) \in [I -> Context]
BY DEF Overwrite

(* A batch keeps every buffer of the engine within its type. *)
LEMMA BatchType ==
    ASSUME EngineTypeOK, NEW p \in Nat, NEW tokens \in Seq(Token), NEW ckpt \in BOOLEAN,
           ModelForwardBatch(tokens, p, ckpt)
    PROVE  EngineTypeOK'
<1> DEFINE n     == Len(tokens)
           seen  == [b \in 0..n-1 |-> After(p, tokens, b+1)]
           saved == [b \in 0..NumCkpt(ckpt, n)-2 |-> seen[b]]
<1>1. n \in Nat /\ NumCkpt(ckpt, n) \in 0..n
  BY LenProperties, EngineAssumption DEF NumCkpt
<1>2. /\ conv' = After(p, tokens, n) /\ ssm' = conv'
      /\ ckptConv' = Overwrite(ckptConv, saved) /\ ckptSsm' = Overwrite(ckptSsm, saved)
      /\ kv' = WriteRows(kv, p, seen)
      /\ hSave' = Overwrite(hSave, seen) /\ logitsB' = Overwrite(logitsB, seen)
      /\ pos' = p + n /\ UNCHANGED <<weights, logits, mtpKv, mtpH>>
  BY DEF ModelForwardBatch, mtpVars
<1>3. \A b \in 0..n : After(p, tokens, b) \in Context
  BY AfterContext
<1>4. \A b \in DOMAIN seen : seen[b] \in Context
  BY <1>1, <1>3
<1>5. \A b \in DOMAIN saved : saved[b] \in Context
  BY <1>1, <1>4
<1>6. DOMAIN seen = 0..n-1 /\ \A b \in 0..n-1 : seen[b] \in Context
  BY <1>4
<1> HIDE DEF n, seen, saved
<1>7. conv' \in Context /\ ssm' \in Context /\ pos' \in Nat
  BY <1>1, <1>2, <1>3
<1>8. ckptConv' \in [Slots -> Context] /\ ckptSsm' \in [Slots -> Context]
  BY <1>2, <1>5, OverwriteType DEF EngineTypeOK
<1>9. hSave' \in [BatchIdx -> Context] /\ logitsB' \in [BatchIdx -> Context]
  BY <1>2, <1>4, OverwriteType DEF EngineTypeOK
<1>10. RowsType(kv')
  BY <1>1, <1>2, <1>6, WriteRowsType DEF EngineTypeOK
<1> QED  BY <1>2, <1>7, <1>8, <1>9, <1>10 DEF EngineTypeOK

(* A batch over coherent states continues the text by its tokens; every    *)
(* row, logits and checkpoint of it describes the text up to its token.    *)
LEMMA BatchStep ==
    ASSUME EngineTypeOK, NEW p, Coherent(p), NEW tokens \in Seq(Token),
           Len(tokens) \in 1..PrefillMaxB,
           NEW ckpt \in BOOLEAN, ckpt => Len(tokens) <= SpecMaxB,
           ModelForwardBatch(tokens, p, ckpt)
    PROVE  /\ conv' \in Seq(Token) /\ conv' = conv \o tokens /\ ssm' = conv'
           /\ Len(conv') = p + Len(tokens) /\ pos' = p + Len(tokens)
           /\ RowsMatch(kv', conv', p + Len(tokens))
           /\ DOMAIN kv' = DOMAIN kv \cup (p..p+Len(tokens)-1)
           /\ \A q \in DOMAIN kv : q < p => kv'[q] = kv[q]
           /\ \A b \in 0..Len(tokens)-1 : /\ logitsB'[b] = Prefix(conv', p+b+1)
                                          /\ hSave'[b] = logitsB'[b]
           /\ ckpt => \A b \in 0..Len(tokens)-2 : /\ ckptConv'[b] = Prefix(conv', p+b+1)
                                                  /\ ckptSsm'[b] = ckptConv'[b]
<1> DEFINE n     == Len(tokens)
           seen  == [b \in 0..n-1 |-> After(p, tokens, b+1)]
           saved == [b \in 0..NumCkpt(ckpt, n)-2 |-> seen[b]]
           c     == conv \o tokens
<1>0. /\ conv \in Seq(Token) /\ Len(conv) = p /\ p \in Nat /\ n \in Nat /\ n > 0
      /\ RowsMatch(kv, conv, p)
  BY CoherentText, LenProperties
<1>1. c \in Seq(Token) /\ Len(c) = p + n
  BY <1>0, ConcatProperties
<1>2. \A b \in 0..n : After(p, tokens, b) = Prefix(c, p + b)
  <2>1. ASSUME NEW b \in 0..Len(tokens)
        PROVE  Prefix(conv \o tokens, Len(conv) + b) = conv \o Prefix(tokens, b)
    BY <1>0, PrefixOfContinuation
  <2> QED  BY <1>0, <2>1 DEF After, Prefix
<1>3. /\ conv' = After(p, tokens, n) /\ ssm' = conv'
      /\ ckptConv' = Overwrite(ckptConv, saved) /\ ckptSsm' = Overwrite(ckptSsm, saved)
      /\ kv' = WriteRows(kv, p, seen)
      /\ hSave' = Overwrite(hSave, seen) /\ logitsB' = Overwrite(logitsB, seen)
      /\ pos' = p + n
  BY DEF ModelForwardBatch
<1>4. conv' = c
  <2>1. After(p, tokens, n) = Prefix(c, p + n)
    BY <1>0, <1>2
  <2>2. Prefix(c, Len(c)) = c
    BY <1>1, PrefixFull
  <2> QED  BY <1>1, <1>3, <2>1, <2>2
<1>5. DOMAIN seen = 0..n-1 /\ \A b \in 0..n-1 : seen[b] = Prefix(c, p+b+1)
  <2>1. ASSUME NEW b \in 0..n-1 PROVE seen[b] = Prefix(c, p+b+1)
    <3>1. b+1 \in 0..n /\ p + (b+1) = p+b+1
      BY <1>0
    <3>2. seen[b] = After(p, tokens, b+1)
      OBVIOUS
    <3> QED  BY <1>2, <3>1, <3>2
  <2> QED  BY <2>1
<1>6. ckpt => DOMAIN saved = 0..n-2 /\ \A b \in 0..n-2 : saved[b] = seen[b]
  BY <1>0, EngineAssumption DEF NumCkpt
<1> HIDE DEF n, seen, saved, c
<1>7. Written(kv', kv, p, n, seen)
  BY <1>0, <1>3, <1>5, WriteRowsProperties
<1>8. RowsMatch(kv', c, p + n)
  <2>1. RowsMatch(kv, c, p)
    <3>1. Prefix(c, p) = Prefix(conv, p)
      BY <1>0, PrefixOfConcat DEF c
    <3> QED  BY <1>0, <1>1, <3>1, RowsMatchPrefix
  <2>2. \A b \in 0..n-1 : seen[b] = SubSeq(c, 1, p+b+1)
    BY <1>5 DEF Prefix
  <2> QED  BY <1>0, <1>3, <1>5, <2>1, <2>2, WriteRowsMatch
<1>9. \A b \in 0..n-1 : logitsB'[b] = Prefix(c, p+b+1) /\ hSave'[b] = logitsB'[b]
  <2>1. n \in 1..PrefillMaxB
    BY DEF n
  <2> QED  BY <1>3, <1>5, <2>1, EngineAssumption DEF Overwrite, EngineTypeOK, BatchIdx
<1>10. ASSUME ckpt, NEW b \in 0..n-2
       PROVE  ckptConv'[b] = Prefix(c, p+b+1) /\ ckptSsm'[b] = ckptConv'[b]
  <2>1. n <= SpecMaxB /\ b \in 0..n-1 /\ b \in Slots
    BY <1>0, <1>10, EngineAssumption DEF n, Slots
  <2>2. saved[b] = Prefix(c, p+b+1) /\ b \in DOMAIN saved
    BY <1>5, <1>6, <1>10, <2>1
  <2> QED  BY <1>3, <2>1, <2>2 DEF Overwrite, EngineTypeOK
<1>11. DOMAIN kv' = DOMAIN kv \cup (p..p+n-1) /\ \A q \in DOMAIN kv : q < p => kv'[q] = kv[q]
  BY <1>0, <1>7 DEF Written
<1> QED  BY <1>1, <1>3, <1>4, <1>8, <1>9, <1>10, <1>11 DEF n, c


-----------------------------------------------------------------------------
(* Single tokens.                                                          *)

(* One row. *)
LEMMA OneRow ==
    ASSUME NEW c
    PROVE  DOMAIN [b \in {0} |-> c] = 0..1-1 /\ \A b \in 0..1-1 : [a \in {0} |-> c][b] = c
OBVIOUS

(* A single forward pass keeps every buffer within its type. *)
LEMMA ForwardType ==
    ASSUME EngineTypeOK, NEW p \in Nat, NEW token \in Token, ModelForward(token, p)
    PROVE  EngineTypeOK'
<1>1. /\ conv' = After(p, <<token>>, 1) /\ ssm' = conv'
      /\ kv' = WriteRows(kv, p, [b \in {0} |-> conv']) /\ logits' = conv' /\ pos' = p + 1
      /\ UNCHANGED <<weights, ckptConv, ckptSsm, logitsB, hSave, mtpKv, mtpH>>
  BY DEF ModelForward, mtpVars
<1>2. <<token>> \in Seq(Token) /\ 1 \in 0..Len(<<token>>)
  OBVIOUS
<1>3. conv' \in Context
  BY <1>1, <1>2, AfterContext
<1>4. RowsType(kv')
  <2> DEFINE new == [b \in {0} |-> conv']
  <2>1. DOMAIN new = 0..1-1 /\ \A b \in 0..1-1 : new[b] \in Context
    BY <1>3
  <2> HIDE DEF new
  <2>2. RowsType(WriteRows(kv, p, new))
    BY <2>1, WriteRowsType DEF EngineTypeOK
  <2> QED  BY <1>1, <2>2 DEF new
<1> QED  BY <1>1, <1>3, <1>4 DEF EngineTypeOK

(* A single forward pass over coherent states continues the text by its    *)
(* token.                                                                  *)
LEMMA ForwardStep ==
    ASSUME EngineTypeOK, NEW p, Coherent(p), NEW token \in Token, ModelForward(token, p)
    PROVE  /\ conv' \in Seq(Token) /\ conv' = Append(conv, token) /\ ssm' = conv'
           /\ logits' = conv' /\ Len(conv') = p + 1 /\ pos' = p + 1
           /\ RowsMatch(kv', conv', p + 1)
           /\ DOMAIN kv' = DOMAIN kv \cup {p}
           /\ \A q \in DOMAIN kv : q < p => kv'[q] = kv[q]
<1> DEFINE c == Append(conv, token)
           new == [b \in {0} |-> c]
<1>0. conv \in Seq(Token) /\ Len(conv) = p /\ p \in Nat /\ RowsMatch(kv, conv, p)
  BY CoherentText
<1>1. /\ conv' = After(p, <<token>>, 1) /\ ssm' = conv' /\ logits' = conv' /\ pos' = p + 1
      /\ kv' = WriteRows(kv, p, [b \in {0} |-> conv'])
  BY DEF ModelForward
<1>2. c \in Seq(Token) /\ Len(c) = p + 1
  BY <1>0
<1>3. conv' = c
  <2>1. <<token>> \in Seq(Token) /\ SubSeq(<<token>>, 1, 1) = <<token>>
    <3>1. <<token>> \in Seq(Token) /\ Len(<<token>>) = 1
      OBVIOUS
    <3> QED  BY <3>1, PrefixFull DEF Prefix
  <2>2. After(p, <<token>>, 1) = conv \o <<token>>
    BY <2>1 DEF After
  <2> QED  BY <1>0, <1>1, <2>2, ConcatAppend
<1>4. DOMAIN new = 0..1-1 /\ \A b \in 0..1-1 : new[b] = SubSeq(c, 1, p+b+1)
  <2>1. Prefix(c, Len(c)) = c
    BY <1>2, PrefixFull
  <2> QED  BY <1>0, <1>2, <2>1 DEF Prefix
<1> HIDE DEF new
<1>5. kv' = WriteRows(kv, p, new)
  BY <1>1, <1>3 DEF new
<1>c. c = Append(conv, token)
  OBVIOUS
<1> HIDE DEF c
<1>6. RowsMatch(kv, c, p)
  <2>1. Prefix(c, p) = Prefix(conv, p)
    <3>1. p \in 0..Len(conv)
      BY <1>0
    <3> QED  BY <1>0, <1>c, <3>1, PrefixOfAppend
  <2> QED  BY <1>0, <1>2, <2>1, RowsMatchPrefix
<1>7. RowsMatch(kv', c, p + 1)
  BY <1>0, <1>4, <1>5, <1>6, WriteRowsMatch
<1>8. Written(kv', kv, p, 1, new)
  BY <1>0, <1>4, <1>5, WriteRowsProperties
<1>9. p..p+1-1 = {p}
  BY <1>0
<1>10. DOMAIN kv' = DOMAIN kv \cup {p}
  BY <1>8, <1>9 DEF Written
<1>11. \A q \in DOMAIN kv : q < p => kv'[q] = kv[q]
  BY <1>0, <1>8 DEF Written
<1> QED  BY <1>0, <1>1, <1>2, <1>3, <1>c, <1>7, <1>10, <1>11

(* A step of the MTP layer keeps every buffer within its type. *)
LEMMA MtpType ==
    ASSUME EngineTypeOK, NEW p \in Nat, NEW token \in Token, NEW h \in Context,
           NEW wantLogits \in BOOLEAN, MtpForward(token, p, h, wantLogits)
    PROVE  EngineTypeOK'
<1>1. /\ mtpH' = MtpContext(token, p, h)
      /\ mtpKv' = WriteRows(mtpKv, p, [b \in {0} |-> mtpH'])
      /\ logits' = IF wantLogits THEN Garbage ELSE logits
      /\ UNCHANGED <<weights, pos, conv, ssm, ckptConv, ckptSsm, kv, logitsB, hSave>>
  BY DEF MtpForward, recurrentVars
<1>2. mtpH' \in Context
  <2>1. h # Garbage => h \in Seq(Token) /\ Append(h, token) \in Seq(Token)
    BY DEF Context
  <2> QED  BY <1>1, <2>1 DEF MtpContext, Context
<1>3. logits' \in Context
  BY <1>1 DEF EngineTypeOK, Context
<1>4. RowsType(mtpKv')
  <2> DEFINE new == [b \in {0} |-> mtpH']
  <2>1. DOMAIN new = 0..1-1 /\ \A b \in 0..1-1 : new[b] \in Context
    BY <1>2
  <2> HIDE DEF new
  <2>2. RowsType(WriteRows(mtpKv, p, new))
    BY <2>1, WriteRowsType DEF EngineTypeOK
  <2> QED  BY <1>1, <2>2 DEF new
<1> QED  BY <1>1, <1>2, <1>3, <1>4 DEF EngineTypeOK

(* Fed the last token of a text at its position, with a hidden state that  *)
(* describes the text with or without it, the MTP layer describes the text.*)
LEMMA MtpStep ==
    ASSUME NEW p \in Nat, NEW c \in Seq(Token), Len(c) = p + 1, NEW token, token = c[p+1],
           NEW h, h = c \/ h = Prefix(c, p), RowsMatch(mtpKv, c, p),
           NEW wantLogits, MtpForward(token, p, h, wantLogits)
    PROVE  /\ mtpH' = c /\ RowsMatch(mtpKv', c, p + 1)
           /\ DOMAIN mtpKv' = DOMAIN mtpKv \cup {p}
           /\ \A q \in DOMAIN mtpKv : q # p => mtpKv'[q] = mtpKv[q]
<1>1. mtpH' = MtpContext(token, p, h) /\ mtpKv' = WriteRows(mtpKv, p, [b \in {0} |-> mtpH'])
  BY DEF MtpForward
<1>2. Prefix(c, p) \in Seq(Token) /\ Len(Prefix(c, p)) = p
  BY PrefixProperties
<1>3. Append(Prefix(c, p), c[p+1]) = c
  <2>1. Append(Prefix(c, p), c[p+1]) = Prefix(c, p+1)
    BY PrefixAppend
  <2> QED  BY <2>1, PrefixFull
<1>4. h # Garbage /\ (IF Len(h) = p THEN Append(h, token) ELSE h) = c
  BY <1>2, <1>3, GarbageIsNoText
<1>5. mtpH' = c
  BY <1>1, <1>4 DEF MtpContext
<1> DEFINE new == [b \in {0} |-> c]
<1>6. DOMAIN new = 0..1-1 /\ \A b \in 0..1-1 : new[b] = SubSeq(c, 1, p+b+1)
  <2>1. Prefix(c, Len(c)) = c
    BY PrefixFull
  <2> QED  BY <2>1 DEF Prefix
<1> HIDE DEF new
<1>7. mtpKv' = WriteRows(mtpKv, p, new)
  BY <1>1, <1>5 DEF new
<1>8. RowsMatch(mtpKv', c, p + 1)
  BY <1>6, <1>7, WriteRowsMatch
<1>9. Written(mtpKv', mtpKv, p, 1, new)
  BY <1>6, <1>7, WriteRowsProperties
<1> QED  BY <1>5, <1>8, <1>9 DEF Written

(* Whatever it is fed, the MTP layer writes one row. *)
LEMMA MtpRow ==
    ASSUME NEW p \in Nat, NEW token, NEW h, NEW wantLogits, MtpForward(token, p, h, wantLogits)
    PROVE  DOMAIN mtpKv' = DOMAIN mtpKv \cup {p}
<1> DEFINE new == [b \in {0} |-> mtpH']
<1>1. DOMAIN new = 0..1-1
  OBVIOUS
<1>2. mtpKv' = WriteRows(mtpKv, p, new)
  BY DEF MtpForward
<1> HIDE DEF new
<1>3. Written(mtpKv', mtpKv, p, 1, new)
  BY <1>1, <1>2, WriteRowsProperties
<1> QED  BY <1>3 DEF Written


-----------------------------------------------------------------------------
(* The prompt's batches on the MTP layer, and rollbacks.                   *)

(* A batch on the MTP layer keeps every buffer within its type. *)
LEMMA MtpBatchType ==
    ASSUME EngineTypeOK, NEW p \in Nat, NEW tokens \in Seq(Token), Len(tokens) \in 1..PrefillMaxB,
           MtpForwardBatch(tokens, p, hSave)
    PROVE  EngineTypeOK'
<1> DEFINE n         == Len(tokens)
           Covers(b) == /\ hSave[b] # Garbage /\ Len(hSave[b]) = p+b+1
                        /\ hSave[b][p+b+1] = tokens[b+1]
                        /\ RowsMatch(mtpKv, hSave[b], p)
                        /\ \A a \in 0..b-1 : hSave[a] = SubSeq(hSave[b], 1, p+a+1)
           out       == [b \in 0..n-1 |-> IF Covers(b) THEN hSave[b] ELSE Garbage]
<1>1. /\ mtpKv' = WriteRows(mtpKv, p, out) /\ mtpH' = out[n-1]
      /\ UNCHANGED <<weights, pos, conv, ssm, ckptConv, ckptSsm, kv, logits, logitsB, hSave>>
  BY DEF MtpForwardBatch, recurrentVars
<1>2. n \in Nat /\ n - 1 \in 0..n-1 /\ \A b \in 0..n-1 : b \in BatchIdx
  BY LenProperties, EngineAssumption DEF BatchIdx
<1> HIDE DEF Covers
<1>3. DOMAIN out = 0..n-1 /\ \A b \in 0..n-1 : out[b] \in Context
  BY <1>2 DEF EngineTypeOK, Context
<1> HIDE DEF n, out
<1>4. RowsType(mtpKv')
  BY <1>1, <1>2, <1>3, WriteRowsType DEF EngineTypeOK
<1> QED  BY <1>1, <1>2, <1>3, <1>4 DEF EngineTypeOK

(* Fed the next tokens of a text with the hidden states the backbone left  *)
(* for them, the MTP layer describes the text up to the last of them.      *)
LEMMA MtpBatchStep ==
    ASSUME NEW p \in Nat, NEW tokens \in Seq(Token), Len(tokens) > 0,
           NEW c \in Seq(Token), Len(c) = p + Len(tokens),
           \A b \in 0..Len(tokens)-1 : hSave[b] = Prefix(c, p+b+1) /\ tokens[b+1] = c[p+b+1],
           RowsMatch(mtpKv, c, p), MtpForwardBatch(tokens, p, hSave)
    PROVE  /\ mtpH' = c /\ RowsMatch(mtpKv', c, p + Len(tokens))
           /\ DOMAIN mtpKv' = DOMAIN mtpKv \cup (p..p+Len(tokens)-1)
<1> DEFINE n         == Len(tokens)
           Covers(b) == /\ hSave[b] # Garbage /\ Len(hSave[b]) = p+b+1
                        /\ hSave[b][p+b+1] = tokens[b+1]
                        /\ RowsMatch(mtpKv, hSave[b], p)
                        /\ \A a \in 0..b-1 : hSave[a] = SubSeq(hSave[b], 1, p+a+1)
           out       == [b \in 0..n-1 |-> IF Covers(b) THEN hSave[b] ELSE Garbage]
<1>1. mtpKv' = WriteRows(mtpKv, p, out) /\ mtpH' = out[n-1]
  BY DEF MtpForwardBatch
<1>2. n \in Nat /\ n > 0
  BY LenProperties
<1>3. ASSUME NEW b \in 0..n-1 PROVE Covers(b)
  <2>1. p+b+1 \in 0..Len(c) /\ p+b+1 \in 1..p+b+1 /\ b \in Nat
    BY <1>2
  <2>2. /\ Prefix(c, p+b+1) \in Seq(Token) /\ Len(Prefix(c, p+b+1)) = p+b+1
        /\ \A i \in 1..p+b+1 : Prefix(c, p+b+1)[i] = c[i]
    BY <2>1, PrefixProperties
  <2>3. hSave[b] = Prefix(c, p+b+1) /\ tokens[b+1] = c[p+b+1]
    OBVIOUS
  <2>4. RowsMatch(mtpKv, hSave[b], p)
    <3>1. p \in 0..p+b+1
      BY <2>1
    <3>2. Prefix(Prefix(c, p+b+1), p) = Prefix(c, p)
      BY <2>1, <3>1, PrefixOfPrefix
    <3>3. p <= Len(c) /\ p <= Len(hSave[b]) /\ hSave[b] \in Seq(Token) /\ Prefix(c, p) = Prefix(hSave[b], p)
      BY <2>1, <2>2, <2>3, <3>2
    <3> QED  BY <3>3, RowsMatchPrefix
  <2>5. ASSUME NEW a \in 0..b-1 PROVE hSave[a] = SubSeq(hSave[b], 1, p+a+1)
    <3>1. a \in 0..n-1 /\ p+a+1 \in 0..p+b+1
      BY <1>2
    <3>2. Prefix(Prefix(c, p+b+1), p+a+1) = Prefix(c, p+a+1)
      BY <2>1, <3>1, PrefixOfPrefix
    <3>3. hSave[a] = Prefix(c, p+a+1)
      BY <3>1
    <3> QED  BY <2>3, <3>2, <3>3 DEF Prefix
  <2>6. hSave[b] # Garbage
    BY <2>2, <2>3, GarbageIsNoText
  <2> QED  BY <2>1, <2>2, <2>3, <2>4, <2>5, <2>6
<1>4. DOMAIN out = 0..n-1 /\ \A b \in 0..n-1 : out[b] = SubSeq(c, 1, p+b+1)
  <2>1. ASSUME NEW b \in 0..n-1 PROVE out[b] = Prefix(c, p+b+1)
    <3>1. out[b] = IF Covers(b) THEN hSave[b] ELSE Garbage
      OBVIOUS
    <3> HIDE DEF Covers, out
    <3> QED  BY <1>3, <3>1
  <2> QED  BY <2>1 DEF Prefix
<1>5. out[n-1] = c
  <2>1. n-1 \in 0..n-1 /\ p+(n-1)+1 = Len(c)
    BY <1>2
  <2>2. out[n-1] = SubSeq(c, 1, p+(n-1)+1)
    BY <1>4, <2>1
  <2>3. SubSeq(c, 1, Len(c)) = c
    BY PrefixFull DEF Prefix
  <2> QED  BY <2>1, <2>2, <2>3
<1>6. n = Len(tokens)
  OBVIOUS
<1> HIDE DEF n, out, Covers
<1>7. RowsMatch(mtpKv', c, p + n)
  BY <1>1, <1>2, <1>4, WriteRowsMatch
<1>8. Written(mtpKv', mtpKv, p, n, out)
  BY <1>1, <1>2, <1>4, WriteRowsProperties
<1> QED  BY <1>1, <1>5, <1>6, <1>7, <1>8 DEF Written

(* A rollback to a checkpoint keeps every buffer within its type. *)
LEMMA RollbackType ==
    ASSUME EngineTypeOK, NEW b \in Slots, ModelRollbackTo(b), pos' \in Nat
    PROVE  EngineTypeOK'
BY DEF EngineTypeOK, ModelRollbackTo, mtpVars

(* A rollback to token b of a verified batch leaves the text up to it.     *)
LEMMA RollbackStep ==
    ASSUME EngineTypeOK, NEW p, Coherent(p), NEW b, NEW n \in 0..p,
           ckptConv[b] = Prefix(conv, n), ckptSsm[b] = ckptConv[b], ModelRollbackTo(b)
    PROVE  /\ conv' = Prefix(conv, n) /\ conv' \in Seq(Token) /\ Len(conv') = n /\ ssm' = conv'
           /\ RowsMatch(kv', conv', n)
<1>1. conv \in Seq(Token) /\ Len(conv) = p /\ p \in Nat /\ RowsMatch(kv, conv, p)
  BY CoherentText
<1>2. Prefix(conv, n) \in Seq(Token) /\ Len(Prefix(conv, n)) = n
  BY <1>1, PrefixProperties
<1>3. conv' = Prefix(conv, n) /\ ssm' = conv' /\ kv' = kv
  BY DEF ModelRollbackTo
<1>4. RowsMatch(kv, conv, n)
  BY <1>1 DEF RowsMatch
<1>5. n \in 0..Len(conv) /\ n \in 0..n /\ n \in Nat
  BY <1>1
<1>6. Prefix(Prefix(conv, n), n) = Prefix(conv, n)
  BY <1>1, <1>5, PrefixOfPrefix
<1>7. RowsMatch(kv, Prefix(conv, n), n)
  BY <1>1, <1>2, <1>4, <1>5, <1>6, RowsMatchPrefix
<1> QED  BY <1>2, <1>3, <1>7

-----------------------------------------------------------------------------
(* The inductive invariant.                                                *)

(* The position of the cycle's first candidate. *)
Base == Wrap(P + 1)

Prefilling  == {"prefill", "prefillMtp"}
Cycling     == {"cycle", "draft", "accept", "emit", "settle", "anchor"}
Sequential  == {"prefill", "prefillMtp", "ready", "standard", "sample"}

(* What the options guarantee; they never change. *)
OptsInv ==
    /\ opts.nCtx >= 2 /\ opts.nCtx < U32
    /\ opts.nPrompt <= opts.nCtx /\ opts.nPrompt <= PromptMax
    /\ opts.nPrompt + opts.nPredict <= HistMax
    /\ pc \in Cycling => Speculative /\ nSpec <= SpecMaxB - 1
    /\ pc \in {"standard", "sample"} => ~Speculative

(* The text grows with the count of generated tokens. *)
CountInv ==
    /\ Len(text) = opts.nPrompt + generated
    /\ generated <= IF Speculative THEN opts.nPredict ELSE MaxOf(1, opts.nPredict)

(* Positions and rows stay inside the context; outside the speculative     *)
(* loop no row lies ahead of the frontier.                                 *)
RowsInv ==
    /\ pos <= opts.nCtx
    /\ KvWithinContext
    /\ pc \in Sequential => \A q \in DOMAIN kv : q < pos

(* The MTP layer describes the first p tokens of c. *)
MtpAt(c, p) == Len(c) = p /\ mtpH = c /\ RowsMatch(mtpKv, c, p)

PrefillInv ==
    pc \in Prefilling =>
        /\ generated = 0 /\ j = 0 /\ lastLogits = ModelLogits
        /\ pos <= Len(text) /\ Coherent(pos) /\ conv = Prefix(text, pos)
        /\ lastB <= pos /\ (lastB = 0 => pos = 0 /\ logits = <<>>)
        /\ \A b \in 0..lastB-1 : /\ logitsB[b] = Prefix(text, pos - lastB + b + 1)
                                 /\ hSave[b] = logitsB[b]
        /\ pc = "prefill" /\ opts.nSpec > 0 => MtpAt(conv, pos)
        /\ pc = "prefillMtp" => lastB > 0 /\ RowsMatch(mtpKv, conv, pos - lastB)

ReadyInv ==
    pc = "ready" =>
        /\ generated = 0 /\ j = 0 /\ lastLogits = ModelLogits
        /\ Coherent(pos) /\ conv = text /\ logits = text
        /\ opts.nSpec > 0 => MtpAt(conv, pos)

CycleInv == pc = "cycle" => j = 0 /\ FrontierConsistent /\ MtpAt(conv, pos)

DraftInv ==
    pc = "draft" =>
        /\ generated < opts.nPredict /\ j = 0
        /\ Coherent(pos) /\ text = conv
        /\ Base = pos /\ pos + k + 1 <= opts.nCtx
        /\ Len(cand) \in 1..k+1 /\ Cand(0) \in Pick(conv)
        /\ mtpH = conv \o Prefix(cand, Len(cand) - 1)
        /\ RowsMatch(mtpKv, conv \o cand, pos + Len(cand) - 1)

(* The batch has been verified: row b of its buffers describes the text    *)
(* up to candidate b.                                                      *)
VerifiedInv ==
    pc \in {"accept", "emit", "settle"} =>
        /\ Coherent(pos) /\ pos = Base + k + 1 /\ Len(cand) = k + 1
        /\ \A b \in 0..k : /\ logitsB[b] = Prefix(conv, Base + b + 1)
                           /\ hSave[b] = logitsB[b]
                           /\ conv[Base + b + 1] = Cand(b)
        /\ \A b \in 0..k-1 : /\ ckptConv[b] = Prefix(conv, Base + b + 1)
                             /\ ckptSsm[b] = ckptConv[b]
        /\ RowsMatch(mtpKv, conv, Base + k)
        /\ text = Prefix(conv, Len(text))
        /\ Cand(0) \in Pick(Prefix(conv, Base))

AcceptInv == pc = "accept" => j = 0 /\ generated < opts.nPredict /\ Len(text) = Base

EmitInv ==
    pc \in {"emit", "settle"} =>
        /\ Len(text) = Base + emitted /\ emitted <= j + 1
        /\ \A i \in 1..j : Cand(i) \in Pick(Prefix(conv, Base + i))
        /\ pc = "settle" /\ generated < opts.nPredict => emitted = j + 1

AnchorInv ==
    pc = "anchor" =>
        /\ Coherent(pos) /\ pos = Base + j + 1 /\ pos < opts.nCtx
        /\ hSave[j] = conv /\ logitsB[j] = conv /\ Cand(j) = conv[pos]
        /\ Len(cand) = k + 1
        /\ RowsMatch(mtpKv, conv, pos - 1)
        /\ Len(text) <= pos /\ text = Prefix(conv, Len(text))
        /\ generated < opts.nPredict => Len(text) = pos

StandardInv ==
    /\ pc = "standard" =>
        /\ Coherent(pos) /\ conv = Prefix(text, pos)
        /\ Len(text) = pos + (IF generated = 0 THEN 0 ELSE 1)
        /\ generated = 0 => logits = text
    /\ pc = "sample" =>
        /\ Coherent(pos) /\ conv = text /\ logits = text
        /\ 0 < generated /\ generated < opts.nPredict

EosInv ==
    ~Speculative =>
        \A n \in opts.nPrompt+1..Len(text) :
            text[n] = EosToken => n = Len(text) /\ pc # "sample"

IInv == /\ TypeOK /\ OptsInv /\ CountInv /\ RowsInv
        /\ PrefillInv /\ ReadyInv /\ CycleInv /\ DraftInv /\ VerifiedInv
        /\ AcceptInv /\ EmitInv /\ AnchorInv /\ StandardInv /\ EosInv /\ StoppedForCause

-----------------------------------------------------------------------------
(* Facts about the options and about position arithmetic.                  *)

(* The types of what the options are compared with. *)
LEMMA OptsFacts ==
    ASSUME TypeOK
    PROVE  /\ opts.nCtx \in Nat /\ opts.nPrompt \in Nat /\ opts.nPredict \in Nat /\ opts.nSpec \in Nat
           /\ opts.tempZero \in BOOLEAN /\ opts.argmaxSampler \in BOOLEAN
           /\ pos \in Nat /\ generated \in Nat /\ lastB \in Nat /\ nSpec \in Nat
           /\ text \in Seq(Token) /\ Len(text) \in Nat /\ cand \in Seq(Token) /\ Len(cand) \in Nat
           /\ k \in Nat /\ j \in Nat /\ j <= k /\ k <= SpecMaxB - 1 /\ emitted \in Nat
           /\ U32 \in Nat /\ U32 > 2 /\ HistMax \in Nat /\ PromptMax \in Nat /\ PromptMax < HistMax
           /\ HistMax < U32
           /\ SpecMaxB \in Nat /\ SpecMaxB >= 2 /\ PrefillMaxB \in Nat /\ PrefillMaxB >= SpecMaxB
           /\ P \in 0..U32-1 /\ P \in Nat /\ Base \in Nat
<1>1. U32 \in Nat /\ U32 > 2 /\ HistMax \in Nat /\ PromptMax \in Nat /\ PromptMax < HistMax
      /\ HistMax < U32 /\ \A n \in SpecArgs : n \in Nat
  BY GenerateAssumption
<1>2. SpecMaxB \in Nat /\ SpecMaxB >= 2 /\ PrefillMaxB \in Nat /\ PrefillMaxB >= SpecMaxB
  BY EngineAssumption
<1>3. /\ opts.nCtx \in Nat /\ opts.nPrompt \in Nat /\ opts.nPredict \in Nat /\ opts.nSpec \in SpecArgs
      /\ opts.tempZero \in BOOLEAN /\ opts.argmaxSampler \in BOOLEAN
  BY DEF TypeOK, Options
<1>4. Len(text) \in Nat /\ Len(cand) \in Nat
  BY LenProperties DEF TypeOK
<1>5. P \in 0..U32-1
  BY DEF TypeOK
<1>6. P \in Nat /\ Base \in Nat
  BY <1>1, <1>5 DEF Base, Wrap
<1> QED  BY <1>1, <1>2, <1>3, <1>4, <1>5, <1>6 DEF TypeOK, EngineTypeOK

(* The cycle starts at the frontier, however P = pos - 1 wraps. *)
LEMMA CycleStart ==
    ASSUME TypeOK, OptsInv, pos <= opts.nCtx
    PROVE  LastPos \in 0..U32-1 /\ Wrap(LastPos + 1) = pos /\ Room = opts.nCtx - pos
<1>1. /\ opts.nCtx \in Nat /\ pos \in Nat /\ U32 \in Nat /\ U32 > 2
      /\ opts.nCtx >= 2 /\ opts.nCtx < U32
  BY OptsFacts DEF OptsInv
<1>2. CASE pos = 0
  <2>1. LastPos = U32 - 1
    BY <1>1, <1>2 DEF LastPos, Wrap
  <2>2. Wrap(LastPos + 1) = 0
    BY <1>1, <2>1 DEF Wrap
  <2>3. Room = opts.nCtx
    BY <1>1, <2>1 DEF Room, Wrap
  <2> QED  BY <1>1, <1>2, <2>1, <2>2, <2>3
<1>3. CASE pos > 0
  <2>1. LastPos = pos - 1
    BY <1>1, <1>3 DEF LastPos, Wrap
  <2>2. Wrap(LastPos + 1) = pos
    BY <1>1, <2>1 DEF Wrap
  <2>3. opts.nCtx - 1 - (pos - 1) = opts.nCtx - pos /\ opts.nCtx - pos \in 0..U32-1
    BY <1>1, <1>3
  <2>4. Room = Wrap(opts.nCtx - pos)
    BY <2>1, <2>3 DEF Room
  <2>5. Room = opts.nCtx - pos
    BY <1>1, <2>3, <2>4 DEF Wrap
  <2> QED  BY <1>1, <1>3, <2>1, <2>2, <2>5
<1> QED  BY <1>1, <1>2, <1>3

(* Positions ahead of P are positions ahead of the base. *)
LEMMA Ahead ==
    ASSUME TypeOK, NEW s \in Nat, s > 0, Base + s - 1 < U32
    PROVE  Base \in Nat /\ Wrap(P + s) = Base + s - 1
<1>1. P \in 0..U32-1 /\ U32 \in Nat /\ U32 > 2
  BY OptsFacts
<1>2. CASE P = U32 - 1
  <2>1. Base = 0
    BY <1>1, <1>2 DEF Base, Wrap
  <2> QED  BY <1>1, <1>2, <2>1 DEF Wrap
<1>3. CASE P < U32 - 1
  <2>1. Base = P + 1
    BY <1>1, <1>3 DEF Base, Wrap
  <2> QED  BY <1>1, <2>1 DEF Wrap
<1> QED  BY <1>1, <1>2, <1>3

(* What the choice of a token depends on. *)
LEMMA PickUnchanged ==
    ASSUME NEW c, weights' = weights
    PROVE  Pick(c)' = Pick(c)
BY DEF Pick, Preferred

-----------------------------------------------------------------------------
(* The initial states.                                                     *)

(* Init establishes the invariant. *)
LEMMA InitInv == Init => IInv
<1> SUFFICES ASSUME Init PROVE IInv
  OBVIOUS
<1> USE DEF ModelLogits
<1>1. PICK prompt \in Prompts, c \in CtxArgs, n \in PredictArgs, s \in SpecArgs,
           tempZero \in BOOLEAN, argmaxSampler \in BOOLEAN :
        /\ text = KeptPrompt(prompt, RaisedCtx(c))
        /\ opts = [allocCtx |-> c, nCtx |-> RaisedCtx(c),
                   nPrompt |-> Len(text), nPredict |-> PredictBudget(Len(text), n),
                   nSpec |-> s, tempZero |-> tempZero, argmaxSampler |-> argmaxSampler]
        /\ nSpec = s
  BY DEF Init
<1>2. /\ pc = "prefill" /\ generated = 0 /\ lastB = 0 /\ P = 0 /\ k = 0 /\ j = 0
      /\ cand = <<>> /\ emitted = 0 /\ lastLogits = -1
  BY DEF Init
<1>3. /\ weights \in Weights /\ pos = 0 /\ conv = <<>> /\ ssm = <<>>
      /\ ckptConv = [b \in Slots |-> Garbage] /\ ckptSsm = ckptConv
      /\ kv = <<>> /\ mtpKv = <<>> /\ logits = <<>>
      /\ logitsB = [b \in BatchIdx |-> Garbage] /\ hSave = logitsB /\ mtpH = <<>>
  BY DEF Init, EngineInit
<1>4. /\ c \in Nat /\ c < U32 /\ n \in Nat /\ s \in Nat /\ U32 \in Nat /\ U32 > 2
      /\ prompt \in Seq(Token) /\ Len(prompt) <= PromptMax /\ Len(prompt) \in Nat
      /\ PromptMax \in Nat /\ HistMax \in Nat /\ PromptMax < HistMax
  BY GenerateAssumption, LenProperties
<1>5. RaisedCtx(c) \in Nat /\ RaisedCtx(c) >= 2 /\ RaisedCtx(c) < U32
  BY <1>4 DEF RaisedCtx
<1>6. text \in Seq(Token) /\ Len(text) \in Nat /\ Len(text) <= PromptMax /\ Len(text) <= RaisedCtx(c)
  <2> DEFINE m == MinOf(Len(prompt), RaisedCtx(c))
  <2>1. m \in 0..Len(prompt) /\ m <= RaisedCtx(c)
    BY <1>4, <1>5 DEF MinOf
  <2>2. text = Prefix(prompt, m)
    BY <1>1 DEF KeptPrompt, Prefix
  <2> HIDE DEF m
  <2> QED  BY <1>4, <1>5, <2>1, <2>2, PrefixProperties
<1>7. PredictBudget(Len(text), n) \in Nat /\ Len(text) + PredictBudget(Len(text), n) <= HistMax
  BY <1>4, <1>6 DEF PredictBudget
<1>8. /\ opts.nCtx = RaisedCtx(c) /\ opts.nPrompt = Len(text)
      /\ opts.nPredict = PredictBudget(Len(text), n) /\ opts \in Options
  BY <1>1, <1>5, <1>6, <1>7 DEF Options
<1>9. <<>> \in Seq(Token) /\ Len(<<>>) = 0 /\ DOMAIN <<>> = {} /\ <<>> # Garbage
  BY EmptySeq DEF Garbage
<1>10. TypeOK
  <2>1. EngineTypeOK
    BY <1>3, <1>9 DEF EngineTypeOK, Context, RowsType
  <2> QED  BY <1>1, <1>2, <1>4, <1>6, <1>8, <1>9, <2>1, EngineAssumption DEF TypeOK, Phases
<1>11. Coherent(pos) /\ conv = Prefix(text, pos) /\ MtpAt(conv, pos)
  <2>1. Prefix(text, 0) = <<>>
    BY SubSeqEmpty DEF Prefix
  <2> QED  BY <1>3, <1>9, <2>1 DEF Coherent, RowsMatch, MtpAt
<1>12. OptsInv /\ CountInv /\ RowsInv
  BY <1>2, <1>3, <1>5, <1>6, <1>7, <1>8, <1>9
     DEF OptsInv, CountInv, RowsInv, Cycling, KvWithinContext, MaxOf
<1>13. PrefillInv
  BY <1>2, <1>3, <1>6, <1>11 DEF PrefillInv, Prefilling
<1>14. EosInv
  BY <1>6, <1>8 DEF EosInv
<1> QED  BY <1>2, <1>10, <1>12, <1>13, <1>14
     DEF IInv, ReadyInv, CycleInv, DraftInv, VerifiedInv, AcceptInv, EmitInv, AnchorInv,
         StandardInv, StoppedForCause

-----------------------------------------------------------------------------
(* Steps that leave the engine, or the text, as they are.                  *)

(* The engine's type survives a step that does not touch it. *)
LEMMA EngineKept ==
    ASSUME EngineTypeOK, UNCHANGED engineVars
    PROVE  EngineTypeOK'
BY DEF EngineTypeOK, engineVars, recurrentVars, mtpVars

(* What does not depend on the engine survives a step that emits nothing.  *)
LEMMA TextKept ==
    ASSUME OptsInv, CountInv, EosInv, UNCHANGED <<opts, text, generated>>, pc' # "sample",
           pc' \in Cycling => Speculative /\ nSpec' <= SpecMaxB - 1,
           pc' = "standard" => ~Speculative
    PROVE  OptsInv' /\ CountInv' /\ EosInv'
<1>1. OptsInv'
  BY DEF OptsInv, Speculative, Cycling
<1>2. CountInv'
  BY DEF CountInv, Speculative, MaxOf
<1>3. EosInv'
  BY DEF EosInv, Speculative
<1> QED  BY <1>1, <1>2, <1>3

(* Leaving the loop, for a cause, keeps the invariant. *)
LEMMA StopKeeps ==
    ASSUME IInv, Stop, StoppedForCause'
    PROVE  IInv'
<1>1. pc' = "done" /\ UNCHANGED <<engineVars, opts, text, generated, nSpec, lastB, cycleVars, lastLogits>>
  BY DEF Stop
<1>2. TypeOK'
  BY <1>1, EngineKept DEF IInv, TypeOK, Phases, cycleVars
<1>3. OptsInv' /\ CountInv' /\ EosInv'
  BY <1>1, TextKept DEF IInv, Cycling
<1>4. RowsInv'
  BY <1>1 DEF IInv, RowsInv, KvWithinContext, Sequential, engineVars, mtpVars
<1> QED  BY <1>1, <1>2, <1>3, <1>4
     DEF IInv, PrefillInv, Prefilling, ReadyInv, CycleInv, DraftInv, VerifiedInv, AcceptInv,
         EmitInv, AnchorInv, StandardInv

-----------------------------------------------------------------------------
(* Prefill.                                                                *)

(* The n tokens of a text after its first m. *)
Chunk(c, m, n) == SubSeq(c, m+1, m+n)

(* A slice of a text continues the prefix before it. *)
LEMMA Slice ==
    ASSUME NEW c \in Seq(Token), NEW m \in Nat, NEW n \in Nat, m + n <= Len(c)
    PROVE  /\ Chunk(c, m, n) \in Seq(Token)
           /\ Len(Chunk(c, m, n)) = n
           /\ \A b \in 1..n : Chunk(c, m, n)[b] = c[m+b]
           /\ Prefix(c, m) \o Chunk(c, m, n) = Prefix(c, m+n)
<1>0. Len(c) \in Nat
  BY LenProperties
<1> DEFINE a == m+1
           z == m+n
<1>1. a \in Int /\ z \in Int /\ \A i \in a..z : c[i] \in Token
  BY <1>0, ElementOfSeq
<1>2. /\ SubSeq(c, a, z) \in Seq(Token)
      /\ Len(SubSeq(c, a, z)) = IF a <= z THEN z-a+1 ELSE 0
      /\ \A i \in 1..z-a+1 : SubSeq(c, a, z)[i] = c[a+i-1]
  <2> HIDE DEF a, z
  <2> QED  BY <1>1, SubSeqProperties, SMTT(40)
<1>3. SubSeq(c, 1, m) \o SubSeq(c, m+1, m+n) = SubSeq(c, 1, m+n)
  <2>1. 1 \in 1..Len(c)+1 /\ m \in 1-1..Len(c) /\ m+n \in m..Len(c)
    BY <1>0
  <2> QED  BY <2>1, ConcatAdjacentSubSeq
<1>4. (IF m+1 <= m+n THEN m+n-(m+1)+1 ELSE 0) = n /\ m+n-(m+1)+1 = n
      /\ \A i \in 1..n : m+1+i-1 = m+i
  OBVIOUS
<1> QED  BY <1>2, <1>3, <1>4 DEF Prefix, Chunk

(* A chunk of the prompt through the backbone keeps the invariant. *)
LEMMA PrefillChunkKeeps ==
    ASSUME IInv, PrefillChunk
    PROVE  IInv'
<1> DEFINE B == ChunkSize
           tokens == NextChunk
<1>1. /\ pc = "prefill" /\ pos < opts.nPrompt /\ ModelForwardBatch(tokens, pos, FALSE)
      /\ lastB' = B /\ pc' = (IF opts.nSpec > 0 THEN "prefillMtp" ELSE "prefill")
      /\ UNCHANGED <<opts, text, generated, nSpec, P, k, j, cand, emitted, lastLogits>>
  BY DEF PrefillChunk, cycleVars
<1>2. /\ TypeOK /\ EngineTypeOK /\ generated = 0 /\ j = 0 /\ lastLogits = ModelLogits
      /\ Coherent(pos) /\ conv = Prefix(text, pos) /\ Len(text) = opts.nPrompt
      /\ opts.nSpec > 0 => MtpAt(conv, pos)
  <2>1. TypeOK /\ EngineTypeOK /\ PrefillInv /\ CountInv /\ pc \in Prefilling
    BY <1>1 DEF IInv, TypeOK, Prefilling
  <2>2. opts.nPrompt \in Nat
    BY <2>1, OptsFacts
  <2>3. generated = 0
    BY <2>1 DEF PrefillInv
  <2>4. Len(text) = opts.nPrompt
    BY <2>1, <2>2, <2>3 DEF CountInv
  <2> QED  BY <1>1, <2>1, <2>4 DEF PrefillInv
<1>3. /\ text \in Seq(Token) /\ pos \in Nat /\ opts.nPrompt \in Nat /\ PrefillMaxB \in Nat
      /\ PrefillMaxB >= 2 /\ opts.nCtx \in Nat /\ opts.nPrompt <= opts.nCtx /\ opts.nSpec \in Nat
  BY <1>2, OptsFacts, SMTT(40) DEF IInv, OptsInv
<1>4. B \in 1..PrefillMaxB /\ pos + B <= Len(text) /\ B \in Nat
  BY <1>1, <1>2, <1>3 DEF ChunkSize, MinOf
<1>5. /\ tokens \in Seq(Token) /\ Len(tokens) = B
      /\ Prefix(text, pos) \o tokens = Prefix(text, pos + B)
  <2>1. tokens = Chunk(text, pos, B)
    BY DEF NextChunk, Chunk
  <2> HIDE DEF B, tokens
  <2>2. text \in Seq(Token) /\ pos \in Nat /\ B \in Nat /\ pos + B <= Len(text)
    BY <1>3, <1>4
  <2>3. Chunk(text, pos, B) \in Seq(Token)
    BY <2>2, Slice
  <2>4. Len(Chunk(text, pos, B)) = B
    BY <2>2, Slice
  <2>5. Prefix(text, pos) \o Chunk(text, pos, B) = Prefix(text, pos + B)
    BY <2>2, Slice
  <2> QED  BY <2>1, <2>3, <2>4, <2>5
<1> HIDE DEF B, tokens
<1>6. /\ conv' \in Seq(Token) /\ conv' = conv \o tokens /\ ssm' = conv'
      /\ Len(conv') = pos + B /\ pos' = pos + B
      /\ RowsMatch(kv', conv', pos + B)
      /\ DOMAIN kv' = DOMAIN kv \cup (pos..pos+B-1)
      /\ \A b \in 0..B-1 : logitsB'[b] = Prefix(conv', pos+b+1) /\ hSave'[b] = logitsB'[b]
  BY <1>1, <1>2, <1>4, <1>5, BatchStep
<1>7. conv' = Prefix(text, pos + B)
  BY <1>2, <1>5, <1>6
<1>8. mtpKv' = mtpKv /\ mtpH' = mtpH
  BY <1>1 DEF ModelForwardBatch, mtpVars
<1>9. EngineTypeOK'
  BY <1>1, <1>2, <1>3, <1>5, BatchType
<1>10. TypeOK'
  BY <1>1, <1>2, <1>4, <1>9 DEF TypeOK, Phases
<1>11. OptsInv' /\ CountInv' /\ EosInv'
  BY <1>1, TextKept DEF IInv, Cycling
<1>12. RowsInv'
  <2>1. pos' \in Nat /\ pos' <= opts.nCtx
    BY <1>2, <1>3, <1>4, <1>6
  <2>2. \A q \in DOMAIN kv : q < pos /\ q \in Nat
    BY <1>1, <1>2 DEF IInv, RowsInv, Sequential, EngineTypeOK, RowsType
  <2>3. \A q \in DOMAIN kv' : q < pos'
    BY <1>3, <1>4, <1>6, <2>2
  <2>4. \A q \in DOMAIN kv' : q < opts.nCtx
    BY <1>2, <1>3, <1>6, <1>9, <2>1, <2>3 DEF EngineTypeOK, RowsType
  <2> QED  BY <1>1, <1>8, <2>1, <2>3, <2>4 DEF IInv, RowsInv, KvWithinContext
<1>13. PrefillInv'
  <2>1. pos' <= Len(text) /\ B <= pos' /\ B > 0
    BY <1>3, <1>4, <1>6
  <2>2. Coherent(pos)'
    BY <1>6, GarbageIsNoText DEF Coherent
  <2>3. ASSUME NEW b \in 0..B-1
        PROVE  logitsB'[b] = Prefix(text, pos' - B + b + 1) /\ hSave'[b] = logitsB'[b]
    <3>1. pos + B \in 0..Len(text) /\ pos + b + 1 \in 0..pos + B /\ pos' - B + b + 1 = pos + b + 1
      BY <1>2, <1>3, <1>4, <1>6
    <3>2. Prefix(Prefix(text, pos + B), pos + b + 1) = Prefix(text, pos + b + 1)
      BY <1>3, <3>1, PrefixOfPrefix
    <3> QED  BY <1>6, <1>7, <3>1, <3>2
  <2>4. ASSUME pc' = "prefillMtp" PROVE RowsMatch(mtpKv', conv', pos' - B)
    <3>1. RowsMatch(mtpKv, conv, pos) /\ Len(conv) = pos /\ conv \in Seq(Token)
      BY <1>1, <1>2, <2>4, CoherentText DEF MtpAt
    <3>2. tokens \in Seq(Token) /\ pos \in 0..Len(conv)
      BY <1>3, <1>5, <3>1
    <3>3. Prefix(conv \o tokens, pos) = Prefix(conv, pos)
      BY <3>1, <3>2, PrefixOfConcat
    <3>4. RowsMatch(mtpKv, conv', pos)
      <4>1. pos <= Len(conv) /\ pos <= Len(conv') /\ Prefix(conv, pos) = Prefix(conv', pos)
        BY <1>3, <1>4, <1>6, <3>1, <3>3
      <4> QED  BY <1>3, <1>6, <3>1, <4>1, RowsMatchPrefix
    <3>5. pos' - B = pos
      BY <1>3, <1>4, <1>6
    <3> QED  BY <1>8, <3>4, <3>5
  <2>5. pc' = "prefill" => ~(opts'.nSpec > 0)
    BY <1>1
  <2> QED  BY <1>1, <1>2, <1>6, <1>7, <2>1, <2>2, <2>3, <2>4, <2>5 DEF PrefillInv, ModelLogits
<1> QED  BY <1>1, <1>10, <1>11, <1>12, <1>13
     DEF IInv, ReadyInv, CycleInv, DraftInv, VerifiedInv, AcceptInv,
         EmitInv, AnchorInv, StandardInv, StoppedForCause

(* The MTP rows of the chunk keep the invariant. *)
LEMMA PrefillMtpKeeps ==
    ASSUME IInv, PrefillMtp
    PROVE  IInv'
<1> DEFINE p == pos - lastB
           tokens == LastChunk
<1>1. /\ pc = "prefillMtp" /\ MtpForwardBatch(tokens, p, hSave) /\ pc' = "prefill"
      /\ UNCHANGED <<opts, text, generated, nSpec, lastB, P, k, j, cand, emitted, lastLogits>>
  BY DEF PrefillMtp, cycleVars
<1>2. /\ TypeOK /\ EngineTypeOK /\ generated = 0 /\ j = 0 /\ lastLogits = ModelLogits
      /\ Coherent(pos) /\ conv = Prefix(text, pos) /\ Len(text) = opts.nPrompt
      /\ pos <= Len(text) /\ lastB <= pos /\ lastB > 0 /\ RowsMatch(mtpKv, conv, p)
      /\ \A b \in 0..lastB-1 : logitsB[b] = Prefix(text, p + b + 1) /\ hSave[b] = logitsB[b]
  <2>1. TypeOK /\ EngineTypeOK /\ PrefillInv /\ CountInv /\ pc \in Prefilling
    BY <1>1 DEF IInv, TypeOK, Prefilling
  <2>2. opts.nPrompt \in Nat
    BY <2>1, OptsFacts
  <2>3. generated = 0
    BY <2>1 DEF PrefillInv
  <2>4. Len(text) = opts.nPrompt
    BY <2>1, <2>2, <2>3 DEF CountInv
  <2> QED  BY <1>1, <2>1, <2>4 DEF PrefillInv
<1>3. /\ text \in Seq(Token) /\ Len(text) \in Nat /\ pos \in Nat /\ lastB \in 1..PrefillMaxB /\ lastB \in Nat
      /\ p \in Nat /\ p + lastB = pos /\ p + lastB <= Len(text) /\ opts.nCtx \in Nat
  <2>1. /\ text \in Seq(Token) /\ Len(text) \in Nat /\ pos \in Nat /\ lastB \in Nat /\ opts.nCtx \in Nat
        /\ PrefillMaxB \in Nat /\ lastB <= PrefillMaxB
    BY <1>2, OptsFacts DEF TypeOK
  <2> QED  BY <1>2, <2>1
<1>4. conv \in Seq(Token) /\ Len(conv) = pos
  BY <1>2, CoherentText
<1>5. /\ tokens \in Seq(Token) /\ Len(tokens) = lastB
      /\ \A b \in 1..lastB : tokens[b] = text[p + b]
  <2>1. tokens = Chunk(text, p, lastB)
    BY <1>3 DEF LastChunk, Chunk
  <2> HIDE DEF p, tokens
  <2>2. Chunk(text, p, lastB) \in Seq(Token)
    BY <1>3, Slice
  <2>3. Len(Chunk(text, p, lastB)) = lastB
    BY <1>3, Slice
  <2>4. \A b \in 1..lastB : Chunk(text, p, lastB)[b] = text[p + b]
    BY <1>3, Slice
  <2> QED  BY <2>1, <2>2, <2>3, <2>4
<1> HIDE DEF p, tokens
<1>6. ASSUME NEW b \in 0..lastB-1
      PROVE  hSave[b] = Prefix(conv, p + b + 1) /\ tokens[b+1] = conv[p + b + 1]
  <2>1. /\ pos \in 0..Len(text) /\ p + b + 1 \in 0..pos /\ p + b + 1 \in 1..pos
        /\ b + 1 \in 1..lastB /\ p + (b + 1) = p + b + 1
    BY <1>2, <1>3
  <2>2. Prefix(Prefix(text, pos), p + b + 1) = Prefix(text, p + b + 1)
    BY <1>3, <2>1, PrefixOfPrefix
  <2>3. Prefix(text, pos)[p + b + 1] = text[p + b + 1]
    BY <1>3, <2>1, PrefixProperties
  <2>4. tokens[b+1] = text[p + (b + 1)]
    BY <1>5, <2>1
  <2> QED  BY <1>2, <2>1, <2>2, <2>3, <2>4
<1>7. /\ mtpH' = conv /\ RowsMatch(mtpKv', conv, pos)
      /\ DOMAIN mtpKv' = DOMAIN mtpKv \cup (p..pos-1)
  <2>1. Len(tokens) > 0 /\ Len(conv) = p + Len(tokens) /\ p \in Nat /\ RowsMatch(mtpKv, conv, p)
    BY <1>2, <1>3, <1>4, <1>5
  <2>2. \A b \in 0..Len(tokens)-1 : hSave[b] = Prefix(conv, p + b + 1) /\ tokens[b+1] = conv[p + b + 1]
    BY <1>5, <1>6
  <2>3. /\ mtpH' = conv /\ RowsMatch(mtpKv', conv, p + Len(tokens))
        /\ DOMAIN mtpKv' = DOMAIN mtpKv \cup (p..p+Len(tokens)-1)
    BY <1>1, <1>4, <1>5, <2>1, <2>2, MtpBatchStep
  <2> QED  BY <1>3, <1>5, <2>3
<1>8. UNCHANGED <<weights, pos, conv, ssm, ckptConv, ckptSsm, kv, logits, logitsB, hSave>>
  BY <1>1 DEF MtpForwardBatch, recurrentVars
<1>9. EngineTypeOK'
  BY <1>1, <1>2, <1>3, <1>5, MtpBatchType
<1>10. TypeOK'
  BY <1>1, <1>2, <1>9 DEF TypeOK, Phases
<1>11. OptsInv' /\ CountInv' /\ EosInv'
  BY <1>1, TextKept DEF IInv, Cycling
<1>12. RowsInv'
  <2>1. pos <= opts.nCtx /\ \A q \in p..pos-1 : q < opts.nCtx
    BY <1>3 DEF IInv, RowsInv
  <2> QED  BY <1>1, <1>7, <1>8, <2>1 DEF IInv, RowsInv, KvWithinContext, Sequential
<1>13. PrefillInv'
  <2>1. Coherent(pos)'
    BY <1>2, <1>8 DEF Coherent
  <2>2. ~(lastB = 0)
    BY <1>2, <1>3
  <2> QED  BY <1>1, <1>2, <1>4, <1>7, <1>8, <2>1, <2>2 DEF PrefillInv, ModelLogits, MtpAt, p
<1> QED  BY <1>1, <1>10, <1>11, <1>12, <1>13
     DEF IInv, ReadyInv, CycleInv, DraftInv, VerifiedInv, AcceptInv,
         EmitInv, AnchorInv, StandardInv, StoppedForCause

(* With the whole prompt read, the logits of its last token are kept. *)
LEMMA PrefillEndKeeps ==
    ASSUME IInv, PrefillEnd
    PROVE  IInv'
<1>1. /\ pc = "prefill" /\ pos >= opts.nPrompt /\ pc' = "ready"
      /\ logits' = IF lastB > 0 THEN logitsB[lastB - 1] ELSE logits
      /\ UNCHANGED <<weights, pos, conv, ssm, ckptConv, ckptSsm, kv, logitsB, hSave, mtpKv, mtpH>>
      /\ UNCHANGED <<opts, text, generated, nSpec, lastB, P, k, j, cand, emitted, lastLogits>>
  BY DEF PrefillEnd, cycleVars, recurrentVars, mtpVars
<1>2. /\ TypeOK /\ EngineTypeOK /\ generated = 0 /\ j = 0 /\ lastLogits = ModelLogits
      /\ Coherent(pos) /\ conv = Prefix(text, pos) /\ Len(text) = opts.nPrompt
      /\ pos <= Len(text) /\ lastB <= pos /\ (lastB = 0 => pos = 0 /\ logits = <<>>)
      /\ \A b \in 0..lastB-1 : logitsB[b] = Prefix(text, pos - lastB + b + 1)
      /\ opts.nSpec > 0 => MtpAt(conv, pos)
  <2>1. TypeOK /\ EngineTypeOK /\ PrefillInv /\ CountInv /\ pc \in Prefilling
    BY <1>1 DEF IInv, TypeOK, Prefilling
  <2>2. opts.nPrompt \in Nat
    BY <2>1, OptsFacts
  <2>3. generated = 0
    BY <2>1 DEF PrefillInv
  <2>4. Len(text) = opts.nPrompt
    BY <2>1, <2>2, <2>3 DEF CountInv
  <2> QED  BY <1>1, <2>1, <2>4 DEF PrefillInv
<1>3. /\ text \in Seq(Token) /\ Len(text) \in Nat /\ pos \in Nat /\ lastB \in Nat /\ lastB <= PrefillMaxB
      /\ PrefillMaxB \in Nat
  BY <1>2, OptsFacts DEF TypeOK
<1>4. pos = Len(text)
  BY <1>1, <1>2, <1>3
<1>5. conv = text
  BY <1>2, <1>3, <1>4, PrefixFull
<1>6. logits' = text
  <2>1. CASE lastB > 0
    <3>1. lastB - 1 \in 0..lastB-1 /\ pos - lastB + (lastB - 1) + 1 = pos
      BY <1>3, <2>1
    <3>2. logitsB[lastB - 1] = Prefix(text, pos - lastB + (lastB - 1) + 1)
      BY <1>2, <3>1
    <3> QED  BY <1>1, <1>2, <1>5, <2>1, <3>1, <3>2
  <2>2. CASE ~(lastB > 0)
    <3>1. lastB = 0
      BY <1>3, <2>2
    <3>2. text = <<>>
      BY <1>2, <1>3, <1>4, <3>1, EmptySeq
    <3> QED  BY <1>1, <1>2, <2>2, <3>1, <3>2
  <2> QED  BY <2>1, <2>2
<1>7. EngineTypeOK'
  BY <1>1, <1>2, <1>3, <1>6 DEF EngineTypeOK, Context
<1>8. TypeOK'
  BY <1>1, <1>2, <1>7 DEF TypeOK, Phases
<1>9. OptsInv' /\ CountInv' /\ EosInv'
  BY <1>1, TextKept DEF IInv, Cycling
<1>10. RowsInv'
  BY <1>1 DEF IInv, RowsInv, KvWithinContext, Sequential
<1>11. ReadyInv'
  <2>1. Coherent(pos)'
    BY <1>1, <1>2 DEF Coherent
  <2> QED  BY <1>1, <1>2, <1>5, <1>6, <2>1 DEF ReadyInv, ModelLogits, MtpAt
<1> QED  BY <1>1, <1>8, <1>9, <1>10, <1>11
     DEF IInv, PrefillInv, Prefilling, CycleInv, DraftInv, VerifiedInv, AcceptInv,
         EmitInv, AnchorInv, StandardInv, StoppedForCause

(* The first cycle, or the standard loop, starts from the whole prompt. *)
LEMMA DispatchKeeps ==
    ASSUME IInv, Dispatch
    PROVE  IInv'
<1>1. /\ pc = "ready" /\ pc' = (IF Speculative THEN "cycle" ELSE "standard")
      /\ nSpec' = (IF Speculative THEN ClampSpec(nSpec) ELSE nSpec)
      /\ UNCHANGED <<weights, pos, conv, ssm, ckptConv, ckptSsm, kv, logits, logitsB, hSave, mtpKv, mtpH>>
      /\ UNCHANGED <<opts, text, generated, lastB, P, k, j, cand, emitted, lastLogits>>
  BY DEF Dispatch, cycleVars, engineVars, recurrentVars, mtpVars
<1>2. /\ TypeOK /\ EngineTypeOK /\ generated = 0 /\ j = 0 /\ lastLogits = ModelLogits
      /\ Coherent(pos) /\ conv = text /\ logits = text
      /\ opts.nSpec > 0 => MtpAt(conv, pos)
  BY <1>1 DEF IInv, TypeOK, ReadyInv
<1>3. text \in Seq(Token) /\ Len(text) = pos /\ pos \in Nat /\ Prefix(text, pos) = text
  BY <1>2, CoherentText, PrefixFull
<1>4. nSpec \in Nat /\ SpecMaxB \in Nat /\ SpecMaxB >= 2
  BY <1>2, OptsFacts
<1>5. nSpec' \in Nat /\ (Speculative => nSpec' <= SpecMaxB - 1)
  BY <1>1, <1>4 DEF ClampSpec, MinOf
<1>6. EngineTypeOK'
  BY <1>1, <1>2 DEF EngineTypeOK
<1>7. TypeOK'
  BY <1>1, <1>2, <1>5, <1>6 DEF TypeOK, Phases
<1>8. OptsInv' /\ CountInv' /\ EosInv'
  BY <1>1, <1>5, TextKept DEF IInv, Cycling
<1>9. RowsInv'
  BY <1>1 DEF IInv, RowsInv, KvWithinContext, Sequential
<1>10. Coherent(pos)'
  BY <1>1, <1>2 DEF Coherent
<1>11. CycleInv'
  <2> SUFFICES ASSUME pc' = "cycle" PROVE CycleInv'
    BY DEF CycleInv
  <2>1. Speculative /\ opts.nSpec > 0
    BY <1>1 DEF Speculative
  <2>2. LastLogits' = conv'
    BY <1>1, <1>2 DEF LastLogits, ModelLogits
  <2>3. text' = SubSeq(conv', 1, Len(text')) /\ Len(text') = pos'
    BY <1>1, <1>2, <1>3 DEF Prefix
  <2>4. MtpAt(conv, pos)'
    BY <1>1, <1>2, <2>1 DEF MtpAt
  <2> QED  BY <1>1, <1>2, <1>3, <1>10, <2>2, <2>3, <2>4 DEF CycleInv, FrontierConsistent
<1>12. StandardInv'
  BY <1>1, <1>2, <1>3, <1>10 DEF StandardInv
<1> QED  BY <1>1, <1>7, <1>8, <1>9, <1>11, <1>12
     DEF IInv, PrefillInv, Prefilling, ReadyInv, DraftInv, VerifiedInv, AcceptInv,
         EmitInv, AnchorInv, StoppedForCause

-----------------------------------------------------------------------------
(* Leaving the loops.                                                      *)

(* Each way out of the loops has its cause. *)
LEMMA StopsKeep ==
    ASSUME IInv, BudgetSpent \/ NoRoom \/ EosChosen \/ ContextFull \/ StandardEnd
    PROVE  IInv'
<1>1. Stop
  BY DEF BudgetSpent, NoRoom, EosChosen, ContextFull, StandardEnd
<1>2. UNCHANGED <<opts, generated, weights, pos, logits, logitsB, lastLogits>>
  BY <1>1 DEF Stop, engineVars
<1>3. LastLogits' = LastLogits /\ Pick(LastLogits)' = Pick(LastLogits) /\ Speculative' = Speculative
  BY <1>2 DEF LastLogits, Pick, Preferred, Speculative
<1>4. StoppedForCause'
  <2>1. CASE BudgetSpent \/ StandardEnd
    <3>1. ~(generated < opts.nPredict) \/ ~Speculative
      <4>1. CASE BudgetSpent
        <5>1. generated \in Nat /\ opts.nPredict \in Nat /\ generated >= opts.nPredict
          BY <4>1, OptsFacts DEF BudgetSpent, IInv
        <5> QED  BY <5>1
      <4>2. CASE StandardEnd
        BY <4>2 DEF StandardEnd, IInv, OptsInv
      <4> QED  BY <2>1, <4>1, <4>2
    <3> QED  BY <1>2, <1>3, <3>1 DEF StoppedForCause
  <2>2. CASE NoRoom \/ ContextFull
    <3>1. pos >= opts.nCtx
      <4>1. CASE NoRoom
        <5>1. TypeOK /\ OptsInv /\ pos <= opts.nCtx /\ Room < 1
          BY <4>1 DEF IInv, RowsInv, NoRoom
        <5>2. Room = opts.nCtx - pos /\ opts.nCtx \in Nat /\ pos \in Nat
          BY <5>1, CycleStart, OptsFacts
        <5> QED  BY <5>1, <5>2
      <4>2. CASE ContextFull
        BY <4>2 DEF ContextFull
      <4> QED  BY <2>2, <4>1, <4>2
    <3> QED  BY <1>2, <3>1 DEF StoppedForCause
  <2>3. CASE EosChosen
    BY <1>3, <2>3 DEF StoppedForCause, EosChosen
  <2> QED  BY <2>1, <2>2, <2>3
<1> QED  BY <1>1, <1>4, StopKeeps

-----------------------------------------------------------------------------
(* The speculative cycle.                                                  *)

(* The base as the engine and the cycle see it. *)
LEMMA BaseKept == ASSUME P' = P PROVE Base' = Base
BY DEF Base, Wrap

(* The first candidate opens a cycle at the frontier. *)
LEMMA StartCycleKeeps ==
    ASSUME IInv, StartCycle
    PROVE  IInv'
<1>1. PICK t \in Pick(LastLogits) \ {EosToken} : cand' = <<t>>
  BY DEF StartCycle
<1>2. /\ pc = "cycle" /\ generated < opts.nPredict /\ Room >= 1
      /\ P' = LastPos /\ k' = DraftCount /\ pc' = "draft"
      /\ UNCHANGED <<weights, pos, conv, ssm, ckptConv, ckptSsm, kv, logits, logitsB, hSave, mtpKv, mtpH>>
      /\ UNCHANGED <<opts, text, generated, nSpec, lastB, j, emitted, lastLogits>>
  BY DEF StartCycle, engineVars, recurrentVars, mtpVars
<1>3. /\ TypeOK /\ EngineTypeOK /\ OptsInv /\ j = 0 /\ FrontierConsistent /\ MtpAt(conv, pos) /\ pos <= opts.nCtx
      /\ Speculative /\ nSpec <= SpecMaxB - 1
  BY <1>2 DEF IInv, TypeOK, CycleInv, RowsInv, OptsInv, Cycling
<1>4. /\ Coherent(pos) /\ LastLogits = conv /\ text = SubSeq(conv, 1, Len(text)) /\ Len(text) = pos
  BY <1>2, <1>3 DEF FrontierConsistent
<1>5. conv \in Seq(Token) /\ Len(conv) = pos /\ pos \in Nat
  BY <1>3, <1>4, CoherentText
<1>6. text = conv
  BY <1>4, <1>5, PrefixFull DEF Prefix
<1>7. /\ LastPos \in 0..U32-1 /\ Wrap(LastPos + 1) = pos /\ Room = opts.nCtx - pos
      /\ opts.nCtx \in Nat /\ nSpec \in Nat /\ SpecMaxB \in Nat /\ SpecMaxB >= 2
  BY <1>3, CycleStart, OptsFacts
<1>8. k' \in 0..SpecMaxB-1 /\ pos + k' + 1 <= opts.nCtx
  BY <1>2, <1>3, <1>5, <1>7, SMTT(40) DEF DraftCount, MinOf
<1>9. t \in Token /\ t \in Pick(conv)
  BY <1>4 DEF Pick
<1>10. cand' \in Seq(Token) /\ Len(cand') = 1 /\ cand'[1] = t
  BY <1>1, <1>9
<1>11. TypeOK'
  <2>1. EngineTypeOK'
    BY <1>2, <1>3 DEF EngineTypeOK
  <2>2. j' \in 0..k' /\ Len(cand') <= SpecMaxB
    BY <1>2, <1>3, <1>7, <1>8, <1>10
  <2> QED  BY <1>2, <1>3, <1>7, <1>8, <1>10, <2>1, <2>2 DEF TypeOK, Phases
<1>12. OptsInv' /\ CountInv' /\ EosInv'
  BY <1>2, <1>3, TextKept DEF IInv, Cycling
<1>13. RowsInv'
  BY <1>2 DEF IInv, RowsInv, KvWithinContext, Sequential
<1>14. DraftInv'
  <2>1. Coherent(pos)'
    BY <1>2, <1>4 DEF Coherent
  <2>2. Base' = pos
    BY <1>2, <1>7 DEF Base, Wrap
  <2>3. Cand(0)' \in Pick(conv)'
    BY <1>2, <1>9, <1>10 DEF Cand, Pick, Preferred
  <2>4. Prefix(cand', Len(cand') - 1) = <<>>
    BY <1>10, SubSeqEmpty DEF Prefix
  <2>5. mtpH' = conv' \o Prefix(cand', Len(cand') - 1)
    BY <1>2, <1>3, <1>5, <2>4, ConcatEmptySeq DEF MtpAt
  <2>6. RowsMatch(mtpKv, conv \o cand', pos)
    <3>1. conv \o cand' \in Seq(Token) /\ Len(conv \o cand') = Len(conv) + Len(cand')
      BY <1>5, <1>10, ConcatProperties
    <3>2. Prefix(conv \o cand', pos) = Prefix(conv, pos)
      BY <1>5, <1>10, PrefixOfConcat
    <3>3. RowsMatch(mtpKv, conv, pos)
      BY <1>3 DEF MtpAt
    <3>4. pos <= Len(conv) /\ pos <= Len(conv \o cand')
      BY <1>5, <1>10, <3>1
    <3> QED  BY <1>5, <3>1, <3>2, <3>3, <3>4, RowsMatchPrefix
  <2>7. pos' + Len(cand') - 1 = pos /\ Len(cand') \in 1..k'+1
    BY <1>2, <1>5, <1>8, <1>10
  <2> QED  BY <1>2, <1>3, <1>6, <1>8, <2>1, <2>2, <2>3, <2>5, <2>6, <2>7 DEF DraftInv
<1> QED  BY <1>2, <1>11, <1>12, <1>13, <1>14
     DEF IInv, PrefillInv, Prefilling, ReadyInv, CycleInv, VerifiedInv, AcceptInv,
         EmitInv, AnchorInv, StandardInv, StoppedForCause

(* A draft extends the candidates and the MTP rows by one. *)
LEMMA DraftKeeps ==
    ASSUME IInv, Draft
    PROVE  IInv'
<1> DEFINE s == Len(cand)
           p == pos + s - 1
           c == conv \o cand
<1>1. PICK t \in Token : cand' = Append(cand, t)
  BY DEF Draft
<1>2. /\ pc = "draft" /\ pc' = "draft" /\ s <= k
      /\ MtpForward(Cand(s-1), Wrap(P + s), mtpH, TRUE)
      /\ UNCHANGED <<opts, text, generated, nSpec, lastB, P, k, j, emitted, lastLogits>>
  BY DEF Draft
<1>3. /\ TypeOK /\ EngineTypeOK /\ OptsInv /\ Speculative /\ nSpec <= SpecMaxB - 1
      /\ generated < opts.nPredict /\ j = 0 /\ Coherent(pos) /\ text = conv
      /\ Base = pos /\ pos + k + 1 <= opts.nCtx
      /\ s \in 1..k+1 /\ Cand(0) \in Pick(conv)
      /\ mtpH = conv \o Prefix(cand, s - 1)
      /\ RowsMatch(mtpKv, c, p)
  BY <1>2 DEF IInv, TypeOK, DraftInv, OptsInv, Cycling
<1>4. /\ conv \in Seq(Token) /\ Len(conv) = pos /\ pos \in Nat /\ cand \in Seq(Token) /\ s \in Nat
      /\ k \in Nat /\ k <= SpecMaxB - 1 /\ SpecMaxB \in Nat /\ opts.nCtx \in Nat /\ U32 \in Nat /\ opts.nCtx < U32
  BY <1>3, CoherentText, OptsFacts DEF OptsInv
<1>5. p \in Nat /\ p + 1 = pos + s /\ s - 1 \in 0..s /\ p + 1 < opts.nCtx /\ p < U32 /\ s > 0
  BY <1>2, <1>3, <1>4, SMTT(40)
<1>6. Wrap(P + s) = p
  BY <1>3, <1>4, <1>5, Ahead
<1>7. c \in Seq(Token) /\ Len(c) = p + 1 /\ \A i \in 1..s : c[pos + i] = cand[i]
  <2>1. /\ c \in Seq(Token) /\ Len(c) = Len(conv) + Len(cand)
        /\ \A i \in 1..Len(conv) + Len(cand) : c[i] = IF i <= Len(conv) THEN conv[i] ELSE cand[i - Len(conv)]
    BY <1>4, ConcatProperties
  <2>2. ASSUME NEW i \in 1..s PROVE c[pos + i] = cand[i]
    <3>1. pos + i \in 1..Len(conv) + Len(cand) /\ ~(pos + i <= Len(conv)) /\ pos + i - Len(conv) = i
      BY <1>4
    <3> HIDE DEF c
    <3> DEFINE m == pos + i
    <3>2. m \in 1..Len(conv) + Len(cand) /\ ~(m <= Len(conv)) /\ m - Len(conv) = i
      BY <1>4, <3>1
    <3> HIDE DEF m
    <3>3. c[m] = cand[m - Len(conv)]
      BY <2>1, <3>2
    <3> QED  BY <3>2, <3>3 DEF m
  <2> QED  BY <1>4, <1>5, <2>1, <2>2
<1>8. Cand(s-1) = c[p+1] /\ Cand(s-1) \in Token
  <2>1. s \in 1..s /\ s \in 1..Len(cand) /\ (s-1)+1 = s
    BY <1>3, <1>4
  <2>2. Cand(s-1) = cand[s] /\ c[pos + s] = cand[s]
    BY <1>7, <2>1 DEF Cand
  <2> QED  BY <1>4, <1>5, <2>1, <2>2, ElementOfSeq
<1>9. mtpH = Prefix(c, p) /\ mtpH \in Context
  <2>1. Prefix(conv \o cand, Len(conv) + (s - 1)) = conv \o Prefix(cand, s - 1)
    BY <1>4, <1>5, PrefixOfContinuation
  <2>2. Len(conv) + (s - 1) = p
    BY <1>4
  <2> QED  BY <1>3, <2>1, <2>2 DEF EngineTypeOK
<1> HIDE DEF p, c
<1>10. /\ mtpH' = c /\ RowsMatch(mtpKv', c, p + 1)
       /\ DOMAIN mtpKv' = DOMAIN mtpKv \cup {p}
  BY <1>2, <1>3, <1>5, <1>6, <1>7, <1>8, <1>9, MtpStep
<1>11. UNCHANGED <<weights, pos, conv, ssm, ckptConv, ckptSsm, kv, logitsB, hSave>>
  BY <1>2 DEF MtpForward, recurrentVars
<1>12. cand' \in Seq(Token) /\ Len(cand') = s + 1 /\ cand'[1] = cand[1]
  BY <1>1, <1>3, <1>4
<1>13. TypeOK'
  <2>1. EngineTypeOK'
    BY <1>2, <1>3, <1>5, <1>6, <1>8, <1>9, MtpType
  <2>2. Len(cand') <= SpecMaxB
    BY <1>2, <1>4, <1>12
  <2> QED  BY <1>2, <1>3, <1>12, <2>1, <2>2 DEF TypeOK, Phases
<1>14. OptsInv' /\ CountInv' /\ EosInv'
  BY <1>2, <1>3, TextKept DEF IInv, Cycling
<1>15. RowsInv'
  <2>1. p < opts.nCtx
    BY <1>4, <1>5
  <2> QED  BY <1>2, <1>10, <1>11, <2>1 DEF IInv, RowsInv, KvWithinContext, Sequential
<1>16. DraftInv'
  <2>1. Coherent(pos)'
    BY <1>3, <1>11 DEF Coherent
  <2>2. Base' = pos'
    BY <1>2, <1>3, <1>11, BaseKept
  <2>3. Cand(0)' \in Pick(conv)'
    BY <1>3, <1>11, <1>12 DEF Cand, Pick, Preferred
  <2>4. Prefix(cand', s) = cand
    <3>1. Prefix(cand', s) = Prefix(cand, s)
      BY <1>1, <1>4, PrefixOfAppend
    <3> QED  BY <1>4, <3>1, PrefixFull
  <2>5. RowsMatch(mtpKv', conv \o cand', p + 1)
    <3>1. conv \o cand' = Append(c, t)
      BY <1>1, <1>4, ConcatAppend DEF c
    <3>2. Prefix(Append(c, t), p + 1) = Prefix(c, p + 1)
      BY <1>5, <1>7, PrefixOfAppend
    <3>3. Append(c, t) \in Seq(Token) /\ Len(Append(c, t)) = p + 2
      BY <1>5, <1>7
    <3>4. p + 1 \in Nat /\ p + 1 <= Len(c) /\ p + 1 <= Len(Append(c, t))
      BY <1>5, <1>7, <3>3
    <3>5. RowsMatch(mtpKv', Append(c, t), p + 1)
      BY <1>7, <1>10, <3>2, <3>3, <3>4, RowsMatchPrefix
    <3> QED  BY <3>1, <3>5
  <2>6. Len(cand') - 1 = s /\ pos' + Len(cand') - 1 = p + 1 /\ Len(cand') \in 1..k'+1
    BY <1>2, <1>4, <1>5, <1>11, <1>12
  <2>7. mtpH' = conv' \o Prefix(cand', Len(cand') - 1)
    BY <1>10, <1>11, <2>4, <2>6 DEF c
  <2> QED  BY <1>2, <1>3, <1>11, <2>1, <2>2, <2>3, <2>5, <2>6, <2>7 DEF DraftInv
<1> QED  BY <1>2, <1>13, <1>14, <1>15, <1>16
     DEF IInv, PrefillInv, Prefilling, ReadyInv, CycleInv, VerifiedInv, AcceptInv,
         EmitInv, AnchorInv, StandardInv, StoppedForCause

(* The batch verifies all candidates at once. *)
LEMMA VerifyKeeps ==
    ASSUME IInv, Verify
    PROVE  IInv'
<1> DEFINE n == Len(cand)
<1>1. /\ pc = "draft" /\ n > k /\ pc' = "accept"
      /\ ModelForwardBatch(cand, Wrap(P + 1), TRUE)
      /\ UNCHANGED <<opts, text, generated, nSpec, lastB, P, k, j, cand, emitted, lastLogits>>
  BY DEF Verify, cycleVars
<1>2. /\ TypeOK /\ EngineTypeOK /\ OptsInv /\ Speculative /\ nSpec <= SpecMaxB - 1
      /\ generated < opts.nPredict /\ j = 0 /\ Coherent(pos) /\ text = conv
      /\ Base = pos /\ pos + k + 1 <= opts.nCtx
      /\ n \in 1..k+1 /\ Cand(0) \in Pick(conv)
      /\ RowsMatch(mtpKv, conv \o cand, pos + n - 1)
  BY <1>1 DEF IInv, TypeOK, DraftInv, OptsInv, Cycling
<1>3. /\ conv \in Seq(Token) /\ Len(conv) = pos /\ pos \in Nat /\ cand \in Seq(Token)
      /\ k \in Nat /\ k <= SpecMaxB - 1 /\ SpecMaxB \in Nat /\ opts.nCtx \in Nat
      /\ PrefillMaxB \in Nat /\ PrefillMaxB >= SpecMaxB
  BY <1>2, CoherentText, OptsFacts
<1>4. n = k + 1 /\ n \in 1..PrefillMaxB /\ n <= SpecMaxB /\ n \in Nat
  BY <1>1, <1>2, <1>3
<1>5. ModelForwardBatch(cand, pos, TRUE)
  BY <1>1, <1>2 DEF Base
<1>6. /\ conv' \in Seq(Token) /\ conv' = conv \o cand /\ ssm' = conv'
      /\ Len(conv') = pos + n /\ pos' = pos + n
      /\ RowsMatch(kv', conv', pos + n)
      /\ DOMAIN kv' = DOMAIN kv \cup (pos..pos+n-1)
      /\ \A b \in 0..n-1 : logitsB'[b] = Prefix(conv', pos+b+1) /\ hSave'[b] = logitsB'[b]
      /\ \A b \in 0..n-2 : ckptConv'[b] = Prefix(conv', pos+b+1) /\ ckptSsm'[b] = ckptConv'[b]
  BY <1>2, <1>3, <1>4, <1>5, BatchStep
<1>7. mtpKv' = mtpKv /\ mtpH' = mtpH /\ weights' = weights
  BY <1>5 DEF ModelForwardBatch, mtpVars
<1>8. TypeOK'
  <2>1. EngineTypeOK'
    BY <1>2, <1>3, <1>5, BatchType
  <2> QED  BY <1>1, <1>2, <2>1 DEF TypeOK, Phases
<1>9. OptsInv' /\ CountInv' /\ EosInv'
  BY <1>1, <1>2, TextKept DEF IInv, Cycling
<1>10. pos' <= opts.nCtx /\ pos' = pos + k + 1 /\ pos' \in Nat
  BY <1>2, <1>3, <1>4, <1>6
<1>11. RowsInv'
  <2>1. \A q \in pos..pos+n-1 : q < opts.nCtx
    BY <1>3, <1>6, <1>10
  <2> QED  BY <1>1, <1>6, <1>7, <1>10, <2>1 DEF IInv, RowsInv, KvWithinContext, Sequential
<1>12. Base' = pos
  BY <1>1, <1>2, BaseKept
<1>13. Prefix(conv', pos) = conv
  <2>1. Prefix(conv \o cand, Len(conv)) = Prefix(conv, Len(conv))
    BY <1>3, PrefixOfConcat
  <2> QED  BY <1>3, <1>6, <2>1, PrefixFull
<1>14. VerifiedInv'
  <2>1. Coherent(pos)'
    BY <1>6, GarbageIsNoText DEF Coherent
  <2>2. ASSUME NEW b \in 0..k
        PROVE  /\ logitsB'[b] = Prefix(conv', pos + b + 1) /\ hSave'[b] = logitsB'[b]
               /\ conv'[pos + b + 1] = Cand(b)
    <3>1. b \in 0..n-1
      BY <1>3, <1>4
    <3> DEFINE m == pos + b + 1
    <3>2. m \in 1..Len(conv) + Len(cand) /\ ~(m <= Len(conv)) /\ m - Len(conv) = b + 1
      BY <1>3, <1>4
    <3> HIDE DEF m
    <3>3. conv'[m] = cand[m - Len(conv)]
      BY <1>3, <1>6, <3>2, ConcatProperties
    <3> QED  BY <1>6, <3>1, <3>2, <3>3 DEF m, Cand
  <2>3. ASSUME NEW b \in 0..k-1
        PROVE  ckptConv'[b] = Prefix(conv', pos + b + 1) /\ ckptSsm'[b] = ckptConv'[b]
    <3>1. b \in 0..n-2
      BY <1>3, <1>4
    <3> QED  BY <1>6, <3>1
  <2>4. RowsMatch(mtpKv', conv', pos + k)
    <3>1. pos + n - 1 = pos + k
      BY <1>3, <1>4
    <3> QED  BY <1>2, <1>6, <1>7, <3>1
  <2>5. text' = Prefix(conv', Len(text'))
    BY <1>1, <1>2, <1>3, <1>13
  <2>6. Cand(0)' \in Pick(Prefix(conv, Base))'
    BY <1>1, <1>2, <1>7, <1>12, <1>13 DEF Cand, Pick, Preferred
  <2> QED  BY <1>1, <1>4, <1>10, <1>12, <2>1, <2>2, <2>3, <2>4, <2>5, <2>6 DEF VerifiedInv, Cand
<1>15. AcceptInv'
  BY <1>1, <1>2, <1>3, <1>12 DEF AcceptInv
<1> QED  BY <1>1, <1>8, <1>9, <1>11, <1>14, <1>15
     DEF IInv, PrefillInv, Prefilling, ReadyInv, CycleInv, DraftInv,
         EmitInv, AnchorInv, StandardInv, StoppedForCause

(* What the batch verified stays verified while the engine is at rest. *)
LEMMA VerifiedKept ==
    ASSUME VerifiedInv, pc \in {"accept", "emit", "settle"}, UNCHANGED <<engineVars, P, k, cand>>,
           text' = Prefix(conv, Len(text'))
    PROVE  VerifiedInv'
<1>1. UNCHANGED <<weights, pos, conv, ssm, ckptConv, ckptSsm, kv, logits, logitsB, hSave, mtpKv, mtpH>>
  BY DEF engineVars, recurrentVars, mtpVars
<1>2. Base' = Base
  BY BaseKept
<1>3. Coherent(pos)' = Coherent(pos)
  BY <1>1 DEF Coherent
<1>4. Pick(Prefix(conv, Base))' = Pick(Prefix(conv, Base))
  BY <1>1, <1>2 DEF Pick, Preferred
<1> QED  BY <1>1, <1>2, <1>3, <1>4 DEF VerifiedInv, Cand

(* A draft is accepted only where it is the backbone's choice. *)
LEMMA AcceptKeeps ==
    ASSUME IInv, Accept
    PROVE  IInv'
<1>1. PICK n \in 0..k : Accepted(n) /\ j' = n
  BY DEF Accept
<1>2. /\ pc = "accept" /\ pc' = "emit" /\ emitted' = 0
      /\ UNCHANGED <<engineVars, opts, text, generated, nSpec, lastB, P, k, cand, lastLogits>>
  BY DEF Accept
<1>3. TypeOK /\ Speculative /\ nSpec <= SpecMaxB - 1 /\ VerifiedInv /\ Len(text) = Base
  BY <1>2 DEF IInv, OptsInv, Cycling, AcceptInv
<1>4. Base \in Nat /\ k \in Nat /\ SpecMaxB \in Nat /\ n \in Nat
  <2>1. Len(text) \in Nat /\ k \in Nat /\ SpecMaxB \in Nat
    BY <1>3, OptsFacts
  <2> QED  BY <1>3, <2>1
<1>5. TypeOK'
  <2>1. EngineTypeOK'
    BY <1>2, <1>3, EngineKept DEF TypeOK
  <2> QED  BY <1>1, <1>2, <1>3, <1>4, <2>1 DEF TypeOK, Phases
<1>6. OptsInv' /\ CountInv' /\ EosInv'
  BY <1>2, <1>3, TextKept DEF IInv, Cycling
<1>7. RowsInv'
  BY <1>2 DEF IInv, RowsInv, KvWithinContext, Sequential, engineVars, mtpVars
<1>8. VerifiedInv'
  <2>1. text' = Prefix(conv, Len(text'))
    BY <1>2, <1>3 DEF VerifiedInv
  <2> QED  BY <1>2, <1>3, <2>1, VerifiedKept
<1>9. EmitInv'
  <2>1. ASSUME NEW i \in 1..n PROVE Cand(i) \in Pick(Prefix(conv, Base + i))
    <3>1. i-1 \in 0..n-1 /\ i-1 \in 0..k /\ (i-1)+1 = i /\ Base + (i-1) + 1 = Base + i
      BY <1>4
    <3>2. Cand((i-1)+1) \in Pick(logitsB[i-1])
      BY <1>1, <3>1 DEF Accepted
    <3>3. logitsB[i-1] = Prefix(conv, Base + (i-1) + 1)
      BY <1>2, <1>3, <3>1 DEF VerifiedInv
    <3> QED  BY <3>1, <3>2, <3>3
  <2>2. Base' = Base /\ conv' = conv /\ weights' = weights
    BY <1>2, BaseKept DEF engineVars, recurrentVars
  <2>3. Len(text') = Base' + emitted' /\ emitted' <= j' + 1
    BY <1>1, <1>2, <1>3, <1>4, <2>2
  <2>4. ASSUME NEW i \in 1..n PROVE Cand(i)' \in Pick(Prefix(conv, Base + i))'
    BY <1>2, <2>1, <2>2 DEF Cand, Pick, Preferred
  <2> QED  BY <1>1, <1>2, <2>2, <2>3, <2>4 DEF EmitInv, Cand, Pick, Preferred
<1> QED  BY <1>2, <1>5, <1>6, <1>7, <1>8, <1>9
     DEF IInv, PrefillInv, Prefilling, ReadyInv, CycleInv, DraftInv, AcceptInv,
         AnchorInv, StandardInv, StoppedForCause

(* An accepted candidate is emitted, in its place. *)
LEMMA EmitCandidateKeeps ==
    ASSUME IInv, EmitCandidate
    PROVE  IInv'
<1>1. /\ pc = "emit" /\ pc' = "emit" /\ emitted <= j /\ generated < opts.nPredict
      /\ text' = Append(text, Cand(emitted)) /\ generated' = generated + 1 /\ emitted' = emitted + 1
      /\ UNCHANGED <<engineVars, opts, nSpec, lastB, P, k, j, cand, lastLogits>>
  BY DEF EmitCandidate, MoreToEmit
<1>2. /\ TypeOK /\ OptsInv /\ CountInv /\ Speculative /\ nSpec <= SpecMaxB - 1 /\ VerifiedInv
      /\ EmitInv /\ Coherent(pos)
  BY <1>1 DEF IInv, OptsInv, Cycling, VerifiedInv
<1>3. /\ Len(text) = Base + emitted
      /\ pos = Base + k + 1 /\ Len(cand) = k + 1 /\ text = Prefix(conv, Len(text))
      /\ \A b \in 0..k : conv[Base + b + 1] = Cand(b)
  BY <1>1, <1>2 DEF VerifiedInv, EmitInv
<1>4. /\ generated \in Nat /\ opts.nPrompt \in Nat /\ opts.nPredict \in Nat /\ text \in Seq(Token)
      /\ Len(text) \in Nat /\ k \in Nat /\ j \in Nat /\ j <= k /\ k <= SpecMaxB - 1 /\ SpecMaxB \in Nat
      /\ emitted \in Nat /\ cand \in Seq(Token) /\ EngineTypeOK
  BY <1>2, OptsFacts DEF TypeOK
<1>5. conv \in Seq(Token) /\ Len(conv) = pos /\ pos \in Nat
  BY <1>2, <1>4, CoherentText
<1>6. Base \in Nat
  BY <1>2, OptsFacts
<1>7. emitted \in 0..k /\ Len(text) \in 0..Len(conv)-1 /\ emitted + 1 \in 1..Len(cand)
  BY <1>1, <1>3, <1>4, <1>5, <1>6
<1>8. Cand(emitted) \in Token
  BY <1>4, <1>7, ElementOfSeq DEF Cand
<1>9. /\ text' \in Seq(Token) /\ Len(text') = Len(text) + 1
      /\ \A m \in 1..Len(text) : text'[m] = text[m]
  BY <1>1, <1>4, <1>8
<1>10. text' = Prefix(conv, Len(text'))
  <2>1. Cand(emitted) = conv[Len(text) + 1]
    BY <1>3, <1>7
  <2>2. Append(Prefix(conv, Len(text)), conv[Len(text) + 1]) = Prefix(conv, Len(text) + 1)
    BY <1>5, <1>7, PrefixAppend
  <2> QED  BY <1>1, <1>3, <1>9, <2>1, <2>2
<1>11. TypeOK'
  <2>1. EngineTypeOK'
    BY <1>1, <1>4, EngineKept
  <2>2. emitted' \in 0..SpecMaxB /\ generated' \in Nat
    BY <1>1, <1>4
  <2> QED  BY <1>1, <1>2, <1>9, <2>1, <2>2 DEF TypeOK, Phases
<1>12. OptsInv'
  BY <1>1, <1>2 DEF OptsInv, Speculative, Cycling
<1>13. CountInv'
  <2>1. Len(text') = opts.nPrompt + generated' /\ generated' <= opts.nPredict
    <3>1. Len(text) = opts.nPrompt + generated
      BY <1>2 DEF CountInv
    <3> QED  BY <1>1, <1>4, <1>9, <3>1, SMTT(40)
  <2> QED  BY <1>1, <1>2, <2>1 DEF CountInv, Speculative
<1>14. EosInv'
  BY <1>1, <1>2 DEF EosInv, Speculative
<1>15. RowsInv'
  BY <1>1 DEF IInv, RowsInv, KvWithinContext, Sequential, engineVars, mtpVars
<1>16. VerifiedInv'
  BY <1>1, <1>2, <1>10, VerifiedKept
<1>17. EmitInv'
  <2>1. Base' = Base /\ conv' = conv /\ weights' = weights
    BY <1>1, BaseKept DEF engineVars, recurrentVars
  <2>2. Len(text') = Base' + emitted' /\ emitted' <= j' + 1
    BY <1>1, <1>3, <1>4, <1>6, <1>9, <2>1
  <2> QED  BY <1>1, <1>2, <2>1, <2>2 DEF EmitInv, Cand, Pick, Preferred
<1> QED  BY <1>1, <1>11, <1>12, <1>13, <1>14, <1>15, <1>16, <1>17
     DEF IInv, PrefillInv, Prefilling, ReadyInv, CycleInv, DraftInv, AcceptInv,
         AnchorInv, StandardInv, StoppedForCause

(* The cycle has emitted what it may. *)
LEMMA EmitEndKeeps ==
    ASSUME IInv, EmitEnd
    PROVE  IInv'
<1>1. /\ pc = "emit" /\ pc' = "settle" /\ ~(emitted <= j /\ generated < opts.nPredict)
      /\ UNCHANGED <<engineVars, opts, text, generated, nSpec, lastB, P, k, j, cand, emitted, lastLogits>>
  BY DEF EmitEnd, MoreToEmit, cycleVars
<1>2. TypeOK /\ Speculative /\ nSpec <= SpecMaxB - 1 /\ VerifiedInv /\ EmitInv
  BY <1>1 DEF IInv, OptsInv, Cycling
<1>3. emitted \in Nat /\ j \in Nat
  BY <1>2, OptsFacts
<1>4. TypeOK'
  <2>1. EngineTypeOK'
    BY <1>1, <1>2, EngineKept DEF TypeOK
  <2> QED  BY <1>1, <1>2, <2>1 DEF TypeOK, Phases
<1>5. OptsInv' /\ CountInv' /\ EosInv'
  BY <1>1, <1>2, TextKept DEF IInv, Cycling
<1>6. RowsInv'
  BY <1>1 DEF IInv, RowsInv, KvWithinContext, Sequential, engineVars, mtpVars
<1>7. VerifiedInv'
  <2>1. text' = Prefix(conv, Len(text'))
    BY <1>1, <1>2 DEF VerifiedInv
  <2> QED  BY <1>1, <1>2, <2>1, VerifiedKept
<1>8. EmitInv'
  <2>1. Base' = Base /\ conv' = conv /\ weights' = weights
    BY <1>1, BaseKept DEF engineVars, recurrentVars
  <2>2. Len(text) = Base + emitted /\ emitted <= j + 1
    BY <1>1, <1>2 DEF EmitInv
  <2>3. generated < opts.nPredict => emitted = j + 1
    BY <1>1, <1>3, <2>2
  <2> QED  BY <1>1, <1>2, <2>1, <2>2, <2>3 DEF EmitInv, Cand, Pick, Preferred
<1> QED  BY <1>1, <1>4, <1>5, <1>6, <1>7, <1>8
     DEF IInv, PrefillInv, Prefilling, ReadyInv, CycleInv, DraftInv, AcceptInv,
         AnchorInv, StandardInv, StoppedForCause

-----------------------------------------------------------------------------
(* Settling the cycle.                                                     *)

(* With every draft accepted the engine already stands at the frontier. *)
LEMMA KeepAllKeeps ==
    ASSUME IInv, KeepAll
    PROVE  IInv'
<1>1. /\ pc = "settle" /\ pc' = "anchor" /\ pos < opts.nCtx /\ j >= k
      /\ UNCHANGED <<engineVars, opts, text, generated, nSpec, lastB, P, k, j, cand, emitted, lastLogits>>
  BY DEF KeepAll, cycleVars
<1>2. /\ TypeOK /\ EngineTypeOK /\ Speculative /\ nSpec <= SpecMaxB - 1 /\ VerifiedInv /\ EmitInv
      /\ Coherent(pos) /\ pos = Base + k + 1
  BY <1>1 DEF IInv, OptsInv, Cycling, VerifiedInv, TypeOK
<1>3. j = k /\ k \in Nat /\ emitted \in Nat /\ pos \in Nat /\ Base \in Nat
  <2>1. j \in Nat /\ k \in Nat /\ j <= k /\ emitted \in Nat /\ pos \in Nat
    BY <1>2, OptsFacts
  <2>2. Base \in Nat
    BY <1>2, OptsFacts
  <2> QED  BY <1>1, <2>1, <2>2
<1>4. conv \in Seq(Token) /\ Len(conv) = pos /\ Prefix(conv, pos) = conv
  BY <1>2, CoherentText, PrefixFull
<1>5. UNCHANGED <<weights, pos, conv, ssm, ckptConv, ckptSsm, kv, logits, logitsB, hSave, mtpKv, mtpH>>
  BY <1>1 DEF engineVars, recurrentVars, mtpVars
<1>6. TypeOK'
  <2>1. EngineTypeOK'
    BY <1>1, <1>2, EngineKept
  <2> QED  BY <1>1, <1>2, <2>1 DEF TypeOK, Phases
<1>7. OptsInv' /\ CountInv' /\ EosInv'
  BY <1>1, <1>2, TextKept DEF IInv, Cycling
<1>8. RowsInv'
  BY <1>1, <1>5 DEF IInv, RowsInv, KvWithinContext, Sequential
<1>9. AnchorInv'
  <2>1. Coherent(pos)' /\ Base' = Base
    BY <1>1, <1>2, <1>5, BaseKept DEF Coherent
  <2>2. k \in 0..k /\ Base + k + 1 = pos /\ Base + k = pos - 1
    BY <1>2, <1>3
  <2>3. logitsB[k] = conv /\ hSave[k] = conv /\ conv[pos] = Cand(k)
    BY <1>1, <1>2, <1>4, <2>2 DEF VerifiedInv
  <2>4. RowsMatch(mtpKv, conv, pos - 1) /\ text = Prefix(conv, Len(text)) /\ Len(cand) = k + 1
    BY <1>1, <1>2, <2>2 DEF VerifiedInv
  <2>5. /\ Len(text) = Base + emitted /\ emitted <= j + 1
        /\ generated < opts.nPredict => emitted = j + 1
    BY <1>1, <1>2 DEF EmitInv
  <2>6. Len(text) <= pos /\ (generated < opts.nPredict => Len(text) = pos) /\ pos = Base + j + 1
    BY <1>2, <1>3, <2>5
  <2> QED  BY <1>1, <1>3, <1>5, <2>1, <2>3, <2>4, <2>6 DEF AnchorInv, Cand
<1> QED  BY <1>1, <1>6, <1>7, <1>8, <1>9
     DEF IInv, PrefillInv, Prefilling, ReadyInv, CycleInv, DraftInv, VerifiedInv, AcceptInv,
         EmitInv, StandardInv, StoppedForCause

(* A rejected draft rolls the engine back to the last accepted candidate. *)
LEMMA RollbackKeeps ==
    ASSUME IInv, Rollback
    PROVE  IInv'
<1> DEFINE n == Base + j + 1
<1>1. /\ pc = "settle" /\ pc' = "anchor" /\ pos < opts.nCtx /\ j < k
      /\ ModelRollbackTo(j) /\ pos' = Frontier
      /\ UNCHANGED <<opts, text, generated, nSpec, lastB, P, k, j, cand, emitted, lastLogits>>
  BY DEF Rollback, cycleVars
<1>2. /\ TypeOK /\ EngineTypeOK /\ OptsInv /\ Speculative /\ nSpec <= SpecMaxB - 1 /\ VerifiedInv /\ EmitInv
      /\ Coherent(pos) /\ pos = Base + k + 1
  BY <1>1 DEF IInv, OptsInv, Cycling, VerifiedInv, TypeOK
<1>3. /\ k \in Nat /\ j \in Nat /\ emitted \in Nat /\ pos \in Nat /\ Base \in Nat /\ P \in Nat
      /\ opts.nCtx \in Nat /\ opts.nCtx < U32 /\ U32 \in Nat /\ SpecMaxB \in Nat /\ k <= SpecMaxB - 1
  <2>1. /\ j \in Nat /\ k \in Nat /\ emitted \in Nat /\ pos \in Nat /\ P \in Nat
        /\ opts.nCtx \in Nat /\ opts.nCtx < U32 /\ U32 \in Nat /\ SpecMaxB \in Nat /\ k <= SpecMaxB - 1
    BY <1>2, OptsFacts DEF OptsInv
  <2>2. Base \in Nat
    BY <1>2, OptsFacts
  <2> QED  BY <2>1, <2>2
<1>4. conv \in Seq(Token) /\ Len(conv) = pos
  BY <1>2, CoherentText
<1>5. n \in 0..pos /\ n \in Nat /\ n < pos /\ n < opts.nCtx /\ n \in 1..n
  BY <1>1, <1>2, <1>3
<1>6. pos' = n
  <2>1. j + 2 \in Nat /\ j + 2 > 0 /\ Base + (j + 2) - 1 < U32 /\ P + j + 2 = P + (j + 2)
        /\ Base + (j + 2) - 1 = n
    BY <1>1, <1>2, <1>3
  <2>2. Wrap(P + (j + 2)) = Base + (j + 2) - 1
    BY <1>2, <2>1, Ahead
  <2> QED  BY <1>1, <2>1, <2>2 DEF Frontier
<1>7. j \in Slots
  BY <1>1, <1>3 DEF Slots
<1>8. /\ ckptConv[j] = Prefix(conv, n) /\ ckptSsm[j] = ckptConv[j]
      /\ logitsB[j] = Prefix(conv, n) /\ hSave[j] = logitsB[j] /\ conv[n] = Cand(j)
      /\ Len(cand) = k + 1 /\ text = Prefix(conv, Len(text)) /\ RowsMatch(mtpKv, conv, Base + k)
  <2>1. j \in 0..k /\ j \in 0..k-1
    BY <1>1, <1>3
  <2> QED  BY <1>1, <1>2, <2>1 DEF VerifiedInv
<1> HIDE DEF n
<1>9. /\ conv' = Prefix(conv, n) /\ conv' \in Seq(Token) /\ Len(conv') = n /\ ssm' = conv'
      /\ RowsMatch(kv', conv', n)
  BY <1>1, <1>2, <1>5, <1>8, RollbackStep
<1>10. UNCHANGED <<weights, ckptConv, ckptSsm, kv, logits, logitsB, hSave, mtpKv, mtpH>>
  BY <1>1 DEF ModelRollbackTo, mtpVars
<1>11. TypeOK'
  <2>1. EngineTypeOK'
    BY <1>1, <1>2, <1>5, <1>6, <1>7, RollbackType
  <2> QED  BY <1>1, <1>2, <2>1 DEF TypeOK, Phases
<1>12. OptsInv' /\ CountInv' /\ EosInv'
  BY <1>1, <1>2, TextKept DEF IInv, Cycling
<1>13. RowsInv'
  <2>1. n <= opts.nCtx
    BY <1>3, <1>5
  <2> QED  BY <1>1, <1>6, <1>10, <2>1 DEF IInv, RowsInv, KvWithinContext, Sequential
<1>14. AnchorInv'
  <2>1. Coherent(pos)' /\ Base' = Base
    BY <1>1, <1>6, <1>9, BaseKept, GarbageIsNoText DEF Coherent
  <2>2. Prefix(conv, n)[n] = conv[n]
    BY <1>4, <1>5, PrefixProperties
  <2>3. RowsMatch(mtpKv, conv', n - 1)
    <3>1. n - 1 \in 0..n /\ n - 1 \in Nat /\ n - 1 <= Len(conv) /\ n - 1 <= Len(conv') /\ n \in 0..Len(conv)
          /\ n - 1 <= Base + k
      BY <1>1, <1>2, <1>3, <1>4, <1>5, <1>9
    <3>2. Prefix(conv', n - 1) = Prefix(conv, n - 1)
      BY <1>4, <1>9, <3>1, PrefixOfPrefix
    <3>3. RowsMatch(mtpKv, conv, n - 1)
      BY <1>3, <1>8, <3>1 DEF RowsMatch
    <3> QED  BY <1>4, <1>9, <3>1, <3>2, <3>3, RowsMatchPrefix
  <2>4. /\ Len(text) = Base + emitted /\ emitted <= j + 1
        /\ generated < opts.nPredict => emitted = j + 1
    BY <1>1, <1>2 DEF EmitInv
  <2>5. Len(text) \in 0..n /\ Len(text) <= n /\ (generated < opts.nPredict => Len(text) = n)
    BY <1>3, <2>4 DEF n
  <2>6. text = Prefix(conv', Len(text))
    <3>1. n \in 0..Len(conv)
      BY <1>4, <1>5
    <3>2. Prefix(Prefix(conv, n), Len(text)) = Prefix(conv, Len(text))
      BY <1>4, <2>5, <3>1, PrefixOfPrefix
    <3> QED  BY <1>8, <1>9, <3>2
  <2>7. pos' = Base' + j' + 1
    BY <1>1, <1>6, <2>1 DEF n
  <2> QED  BY <1>1, <1>5, <1>6, <1>8, <1>9, <1>10, <2>1, <2>2, <2>3, <2>5, <2>6, <2>7 DEF AnchorInv, Cand
<1> QED  BY <1>1, <1>11, <1>12, <1>13, <1>14
     DEF IInv, PrefillInv, Prefilling, ReadyInv, CycleInv, DraftInv, VerifiedInv, AcceptInv,
         EmitInv, StandardInv, StoppedForCause

(* The MTP layer is anchored on the last accepted candidate. *)
LEMMA AnchorKeeps ==
    ASSUME IInv, Anchor
    PROVE  IInv'
<1> DEFINE p == pos - 1
<1>1. /\ pc = "anchor" /\ pc' = "cycle"
      /\ MtpForward(Cand(j), Wrap(P + j + 1), hSave[j], FALSE) /\ lastLogits' = j
      /\ P' = 0 /\ k' = 0 /\ j' = 0 /\ cand' = <<>> /\ emitted' = 0
      /\ UNCHANGED <<opts, text, generated, nSpec, lastB>>
  BY DEF Anchor, AnchorHidden, NextLogits
<1>2. /\ TypeOK /\ EngineTypeOK /\ OptsInv /\ Speculative /\ nSpec <= SpecMaxB - 1
      /\ Coherent(pos) /\ pos = Base + j + 1 /\ pos < opts.nCtx
      /\ hSave[j] = conv /\ logitsB[j] = conv /\ Cand(j) = conv[pos] /\ Len(cand) = k + 1
      /\ RowsMatch(mtpKv, conv, pos - 1)
      /\ Len(text) <= pos /\ text = Prefix(conv, Len(text))
      /\ generated < opts.nPredict => Len(text) = pos
  BY <1>1 DEF IInv, OptsInv, Cycling, AnchorInv, TypeOK
<1>3. /\ k \in Nat /\ j \in Nat /\ j <= k /\ pos \in Nat /\ Base \in Nat /\ P \in Nat
      /\ opts.nCtx \in Nat /\ opts.nCtx < U32 /\ U32 \in Nat /\ U32 > 2 /\ SpecMaxB \in Nat
      /\ k <= SpecMaxB - 1 /\ PrefillMaxB \in Nat /\ PrefillMaxB >= SpecMaxB
  <2>1. /\ j \in Nat /\ k \in Nat /\ j <= k /\ pos \in Nat /\ P \in Nat
        /\ opts.nCtx \in Nat /\ opts.nCtx < U32 /\ U32 \in Nat /\ U32 > 2 /\ SpecMaxB \in Nat
        /\ k <= SpecMaxB - 1 /\ PrefillMaxB \in Nat /\ PrefillMaxB >= SpecMaxB
    BY <1>2, OptsFacts DEF OptsInv
  <2>2. Base \in Nat
    BY <1>2, OptsFacts
  <2> QED  BY <2>1, <2>2
<1>4. conv \in Seq(Token) /\ Len(conv) = pos
  BY <1>2, CoherentText
<1>5. p \in Nat /\ p + 1 = pos /\ p < opts.nCtx /\ pos \in 1..pos
  BY <1>2, <1>3
<1>6. Wrap(P + j + 1) = p
  <2>1. j + 1 \in Nat /\ j + 1 > 0 /\ Base + (j + 1) - 1 < U32 /\ P + j + 1 = P + (j + 1)
        /\ Base + (j + 1) - 1 = p
    BY <1>2, <1>3
  <2>2. Wrap(P + (j + 1)) = Base + (j + 1) - 1
    BY <1>2, <2>1, Ahead
  <2> QED  BY <2>1, <2>2
<1>7. Cand(j) = conv[p + 1] /\ Cand(j) \in Token
  BY <1>2, <1>4, <1>5, ElementOfSeq
<1> HIDE DEF p
<1>8. /\ mtpH' = conv /\ RowsMatch(mtpKv', conv, pos)
      /\ DOMAIN mtpKv' = DOMAIN mtpKv \cup {p}
  <2>1. MtpForward(Cand(j), p, hSave[j], FALSE) /\ Len(conv) = p + 1 /\ RowsMatch(mtpKv, conv, p)
    BY <1>1, <1>2, <1>4, <1>5, <1>6 DEF p
  <2>2. mtpH' = conv /\ RowsMatch(mtpKv', conv, p + 1) /\ DOMAIN mtpKv' = DOMAIN mtpKv \cup {p}
    BY <1>2, <1>4, <1>5, <1>7, <2>1, MtpStep
  <2> QED  BY <1>5, <2>2
<1>9. UNCHANGED <<weights, pos, conv, ssm, ckptConv, ckptSsm, kv, logits, logitsB, hSave>>
  BY <1>1 DEF MtpForward, recurrentVars
<1>10. j \in BatchIdx
  BY <1>3 DEF BatchIdx
<1>11. TypeOK'
  <2>1. hSave[j] \in Context
    BY <1>2, <1>10 DEF EngineTypeOK
  <2>2. EngineTypeOK'
    BY <1>1, <1>2, <1>5, <1>6, <1>7, <2>1, MtpType
  <2>3. <<>> \in Seq(Token) /\ Len(<<>>) = 0
    BY EmptySeq
  <2> QED  BY <1>1, <1>2, <1>3, <1>10, <2>2, <2>3 DEF TypeOK, Phases
<1>12. OptsInv' /\ CountInv' /\ EosInv'
  BY <1>1, <1>2, TextKept DEF IInv, Cycling
<1>13. RowsInv'
  BY <1>1, <1>5, <1>8, <1>9 DEF IInv, RowsInv, KvWithinContext, Sequential
<1>14. CycleInv'
  <2>1. Coherent(pos)'
    BY <1>2, <1>9 DEF Coherent
  <2>2. LastLogits' = conv'
    <3>1. j # -1
      BY <1>3
    <3> QED  BY <1>1, <1>2, <1>9, <3>1 DEF LastLogits, ModelLogits
  <2>3. MtpAt(conv, pos)'
    BY <1>4, <1>8, <1>9 DEF MtpAt
  <2> QED  BY <1>1, <1>2, <1>9, <2>1, <2>2, <2>3 DEF CycleInv, FrontierConsistent, Prefix
<1> QED  BY <1>1, <1>11, <1>12, <1>13, <1>14
     DEF IInv, PrefillInv, Prefilling, ReadyInv, DraftInv, VerifiedInv, AcceptInv,
         EmitInv, AnchorInv, StandardInv, StoppedForCause

-----------------------------------------------------------------------------
(* The standard loop.                                                      *)

(* What the sampler returns is a token. *)
LEMMA SampleToken == \A c : Sample(c) \subseteq Token
BY DEF Sample, Pick

(* The first token comes from the prompt's logits. *)
LEMMA FirstTokenKeeps ==
    ASSUME IInv, FirstToken
    PROVE  IInv'
<1>1. PICK t \in Token : text' = Append(text, t)
  BY SampleToken DEF FirstToken, EmitSample
<1>2. /\ pc = "standard" /\ pc' = "standard" /\ generated = 0 /\ generated' = generated + 1
      /\ UNCHANGED <<weights, pos, conv, ssm, ckptConv, ckptSsm, kv, logits, logitsB, hSave, mtpKv, mtpH>>
      /\ UNCHANGED <<opts, nSpec, lastB, P, k, j, cand, emitted, lastLogits>>
  BY DEF FirstToken, EmitSample, cycleVars, engineVars, recurrentVars, mtpVars
<1>3. /\ TypeOK /\ EngineTypeOK /\ OptsInv /\ CountInv /\ ~Speculative
      /\ Coherent(pos) /\ conv = Prefix(text, pos) /\ Len(text) = pos
  <2>1. /\ TypeOK /\ EngineTypeOK /\ OptsInv /\ CountInv /\ ~Speculative
        /\ Coherent(pos) /\ conv = Prefix(text, pos)
        /\ Len(text) = pos + (IF generated = 0 THEN 0 ELSE 1)
    BY <1>2 DEF IInv, TypeOK, OptsInv, StandardInv
  <2>2. pos \in Nat
    BY <2>1 DEF EngineTypeOK
  <2> QED  BY <1>2, <2>1, <2>2
<1>4. /\ text \in Seq(Token) /\ Len(text) \in Nat /\ pos \in Nat /\ opts.nPrompt \in Nat /\ opts.nPredict \in Nat
      /\ Len(text) = opts.nPrompt
  <2>1. /\ text \in Seq(Token) /\ Len(text) \in Nat /\ pos \in Nat /\ opts.nPrompt \in Nat /\ opts.nPredict \in Nat
    BY <1>3, OptsFacts
  <2> QED  BY <1>2, <1>3, <2>1 DEF CountInv
<1>5. /\ text' \in Seq(Token) /\ Len(text') = Len(text) + 1 /\ Prefix(text', pos) = Prefix(text, pos)
  BY <1>1, <1>3, <1>4, PrefixOfAppend
<1>6. generated' = 1
  BY <1>2
<1>7. TypeOK'
  <2>1. EngineTypeOK'
    BY <1>2, <1>3 DEF EngineTypeOK
  <2> QED  BY <1>2, <1>3, <1>5, <1>6, <2>1 DEF TypeOK, Phases
<1>8. OptsInv'
  BY <1>2, <1>3 DEF OptsInv, Speculative, Cycling
<1>9. CountInv'
  <2>1. 1 <= MaxOf(1, opts.nPredict)
    BY <1>4 DEF MaxOf
  <2> QED  BY <1>2, <1>3, <1>4, <1>5, <1>6, <2>1 DEF CountInv, Speculative, MaxOf
<1>10. RowsInv'
  BY <1>2 DEF IInv, RowsInv, KvWithinContext, Sequential
<1>11. StandardInv'
  <2>1. Coherent(pos)'
    BY <1>2, <1>3 DEF Coherent
  <2>2. Len(text') = pos' + 1
    BY <1>2, <1>3, <1>5
  <2> QED  BY <1>2, <1>3, <1>5, <1>6, <2>1, <2>2 DEF StandardInv
<1>12. EosInv'
  <2>1. ASSUME NEW m \in opts.nPrompt+1..Len(text') PROVE m = Len(text')
    BY <1>4, <1>5
  <2> QED  BY <1>2, <2>1 DEF EosInv
<1> QED  BY <1>2, <1>3, <1>7, <1>8, <1>9, <1>10, <1>11, <1>12
     DEF IInv, PrefillInv, Prefilling, ReadyInv, CycleInv, DraftInv, VerifiedInv, AcceptInv,
         EmitInv, AnchorInv, StoppedForCause

(* The last token goes through the backbone. *)
LEMMA StandardStepKeeps ==
    ASSUME IInv, StandardStep
    PROVE  IInv'
<1>1. /\ pc = "standard" /\ pc' = "sample" /\ generated > 0
      /\ ~(generated >= opts.nPredict) /\ CurToken # EosToken /\ ~(pos >= opts.nCtx)
      /\ ModelForward(CurToken, pos)
      /\ UNCHANGED <<opts, text, generated, nSpec, lastB, P, k, j, cand, emitted, lastLogits>>
  BY DEF StandardStep, StandardEnds, cycleVars
<1>2. /\ TypeOK /\ EngineTypeOK /\ OptsInv /\ CountInv /\ EosInv /\ ~Speculative
      /\ Coherent(pos) /\ conv = Prefix(text, pos)
      /\ Len(text) = pos + (IF generated = 0 THEN 0 ELSE 1)
  BY <1>1 DEF IInv, TypeOK, OptsInv, StandardInv
<1>3. /\ text \in Seq(Token) /\ Len(text) \in Nat /\ pos \in Nat /\ generated \in Nat
      /\ opts.nCtx \in Nat /\ opts.nPredict \in Nat /\ opts.nPrompt \in Nat
  BY <1>2, OptsFacts
<1>4. Len(text) = pos + 1 /\ generated < opts.nPredict /\ pos < opts.nCtx /\ pos \in 0..Len(text)-1
  BY <1>1, <1>2, <1>3
<1>5. CurToken = text[pos + 1] /\ CurToken \in Token
  <2>1. Len(text) \in 1..Len(text)
    BY <1>3, <1>4
  <2> QED  BY <1>3, <1>4, <2>1, ElementOfSeq DEF CurToken
<1>6. /\ conv' \in Seq(Token) /\ conv' = Append(conv, CurToken) /\ ssm' = conv'
      /\ logits' = conv' /\ Len(conv') = pos + 1 /\ pos' = pos + 1
      /\ RowsMatch(kv', conv', pos + 1) /\ DOMAIN kv' = DOMAIN kv \cup {pos}
  BY <1>1, <1>2, <1>5, ForwardStep
<1>7. conv' = text
  <2>1. Append(Prefix(text, pos), text[pos + 1]) = Prefix(text, pos + 1)
    BY <1>3, <1>4, PrefixAppend
  <2>2. Prefix(text, Len(text)) = text
    BY <1>3, PrefixFull
  <2> QED  BY <1>2, <1>4, <1>5, <1>6, <2>1, <2>2
<1>8. mtpKv' = mtpKv
  BY <1>1 DEF ModelForward, mtpVars
<1>9. TypeOK'
  <2>1. EngineTypeOK'
    BY <1>1, <1>2, <1>3, <1>5, ForwardType
  <2> QED  BY <1>1, <1>2, <2>1 DEF TypeOK, Phases
<1>10. OptsInv'
  BY <1>1, <1>2 DEF OptsInv, Speculative, Cycling
<1>11. CountInv'
  BY <1>1, <1>2 DEF CountInv, Speculative, MaxOf
<1>12. RowsInv'
  <2>1. pos + 1 <= opts.nCtx /\ pos < pos + 1
    BY <1>3, <1>4
  <2>2. \A q \in DOMAIN kv : q \in Nat /\ q < pos
    BY <1>1, <1>2 DEF IInv, RowsInv, Sequential, EngineTypeOK, RowsType
  <2>3. \A q \in DOMAIN kv' : q < pos + 1
    BY <1>3, <1>6, <2>2
  <2>4. \A q \in DOMAIN kv' : q < opts.nCtx
    BY <1>3, <1>4, <1>6, <2>2
  <2> QED  BY <1>1, <1>6, <1>8, <2>1, <2>3, <2>4 DEF IInv, RowsInv, KvWithinContext
<1>13. StandardInv'
  <2>1. Coherent(pos)'
    BY <1>6, GarbageIsNoText DEF Coherent
  <2>2. 0 < generated
    BY <1>1, <1>3
  <2> QED  BY <1>1, <1>4, <1>6, <1>7, <2>1, <2>2 DEF StandardInv
<1>14. EosInv'
  <2>1. ASSUME NEW m \in opts.nPrompt+1..Len(text), text[m] = EosToken PROVE FALSE
    <3>1. m = Len(text)
      BY <1>2, <2>1 DEF EosInv
    <3> QED  BY <1>1, <2>1, <3>1 DEF CurToken
  <2> QED  BY <1>1, <2>1 DEF EosInv
<1> QED  BY <1>1, <1>2, <1>9, <1>10, <1>11, <1>12, <1>13, <1>14
     DEF IInv, PrefillInv, Prefilling, ReadyInv, CycleInv, DraftInv, VerifiedInv, AcceptInv,
         EmitInv, AnchorInv, StoppedForCause

(* The next token comes from the logits just computed. *)
LEMMA SampleNextKeeps ==
    ASSUME IInv, SampleNext
    PROVE  IInv'
<1>1. PICK t \in Token : text' = Append(text, t)
  BY SampleToken DEF SampleNext, EmitSample
<1>2. /\ pc = "sample" /\ pc' = "standard" /\ generated' = generated + 1
      /\ UNCHANGED <<weights, pos, conv, ssm, ckptConv, ckptSsm, kv, logits, logitsB, hSave, mtpKv, mtpH>>
      /\ UNCHANGED <<opts, nSpec, lastB, P, k, j, cand, emitted, lastLogits>>
  BY DEF SampleNext, EmitSample, cycleVars, engineVars, recurrentVars, mtpVars
<1>3. /\ TypeOK /\ EngineTypeOK /\ OptsInv /\ CountInv /\ EosInv /\ ~Speculative
      /\ Coherent(pos) /\ conv = text /\ 0 < generated /\ generated < opts.nPredict
  BY <1>2 DEF IInv, TypeOK, OptsInv, StandardInv
<1>4. /\ text \in Seq(Token) /\ Len(text) \in Nat /\ pos \in Nat /\ generated \in Nat
      /\ opts.nPrompt \in Nat /\ opts.nPredict \in Nat /\ Len(text) = opts.nPrompt + generated
  BY <1>3, OptsFacts DEF CountInv
<1>5. Len(text) = pos /\ Prefix(text, pos) = text
  BY <1>3, <1>4, CoherentText, PrefixFull
<1>6. /\ text' \in Seq(Token) /\ Len(text') = Len(text) + 1 /\ Prefix(text', pos) = Prefix(text, pos)
      /\ \A m \in 1..Len(text) : text'[m] = text[m]
  BY <1>1, <1>4, <1>5, PrefixOfAppend
<1>7. generated' \in Nat /\ generated' <= opts.nPredict /\ generated' # 0
  BY <1>2, <1>3, <1>4
<1>8. TypeOK'
  <2>1. EngineTypeOK'
    BY <1>2, <1>3 DEF EngineTypeOK
  <2> QED  BY <1>2, <1>3, <1>6, <1>7, <2>1 DEF TypeOK, Phases
<1>9. OptsInv'
  BY <1>2, <1>3 DEF OptsInv, Speculative, Cycling
<1>10. CountInv'
  <2>1. generated' <= MaxOf(1, opts.nPredict)
    BY <1>4, <1>7 DEF MaxOf
  <2>2. Len(text') = opts.nPrompt + generated'
    BY <1>2, <1>4, <1>6
  <2> QED  BY <1>2, <1>3, <2>1, <2>2 DEF CountInv, Speculative, MaxOf
<1>11. RowsInv'
  BY <1>2 DEF IInv, RowsInv, KvWithinContext, Sequential
<1>12. StandardInv'
  <2>1. Coherent(pos)'
    BY <1>2, <1>3 DEF Coherent
  <2>2. Len(text') = pos' + 1
    BY <1>2, <1>5, <1>6
  <2> QED  BY <1>2, <1>3, <1>5, <1>6, <1>7, <2>1, <2>2 DEF StandardInv
<1>13. EosInv'
  <2>1. ASSUME NEW m \in opts.nPrompt+1..Len(text'), text'[m] = EosToken PROVE m = Len(text')
    <3>1. CASE m \in opts.nPrompt+1..Len(text)
      <4>1. m \in 1..Len(text)
        BY <1>4, <3>1
      <4>2. text[m] = EosToken
        BY <1>6, <2>1, <4>1
      <4> QED  BY <1>2, <1>3, <3>1, <4>2 DEF EosInv
    <3>2. CASE m \notin opts.nPrompt+1..Len(text)
      BY <1>4, <1>6, <3>2
    <3> QED  BY <3>1, <3>2
  <2> QED  BY <1>2, <2>1 DEF EosInv
<1> QED  BY <1>2, <1>3, <1>8, <1>9, <1>10, <1>11, <1>12, <1>13
     DEF IInv, PrefillInv, Prefilling, ReadyInv, CycleInv, DraftInv, VerifiedInv, AcceptInv,
         EmitInv, AnchorInv, StoppedForCause

-----------------------------------------------------------------------------
(* The invariant and what follows from it.                                 *)

(* A step that changes nothing keeps the invariant. *)
LEMMA StutterKeeps ==
    ASSUME IInv, UNCHANGED vars
    PROVE  IInv'
<1>1. /\ UNCHANGED <<weights, pos, conv, ssm, ckptConv, ckptSsm, kv, logits, logitsB, hSave, mtpKv, mtpH>>
      /\ UNCHANGED <<opts, pc, text, generated, nSpec, lastB, P, k, j, cand, emitted, lastLogits>>
  BY DEF vars, driverVars, engineVars, recurrentVars, mtpVars
<1>2. EngineTypeOK' /\ Coherent(pos)' = Coherent(pos) /\ LastLogits' = LastLogits /\ Base' = Base
  BY <1>1, BaseKept DEF IInv, TypeOK, EngineTypeOK, Coherent, LastLogits
<1>3. TypeOK' /\ OptsInv' /\ CountInv' /\ RowsInv'
  BY <1>1, <1>2 DEF IInv, TypeOK, OptsInv, Speculative, CountInv, MaxOf, RowsInv, KvWithinContext
<1>4. PrefillInv' /\ ReadyInv' /\ CycleInv' /\ StandardInv'
  BY <1>1, <1>2 DEF IInv, PrefillInv, ReadyInv, CycleInv, FrontierConsistent, MtpAt, StandardInv, ModelLogits
<1>5. DraftInv'
  BY <1>1, <1>2 DEF IInv, DraftInv, Cand, Pick, Preferred
<1>6. VerifiedInv'
  BY <1>1, <1>2 DEF IInv, VerifiedInv, Cand, Pick, Preferred
<1>7. AcceptInv' /\ AnchorInv'
  BY <1>1, <1>2 DEF IInv, AcceptInv, AnchorInv, Cand
<1>8. EmitInv'
  BY <1>1, <1>2 DEF IInv, EmitInv, Cand, Pick, Preferred
<1>9. EosInv' /\ StoppedForCause'
  BY <1>1, <1>2 DEF IInv, EosInv, StoppedForCause, Speculative, Pick, Preferred
<1> QED  BY <1>3, <1>4, <1>5, <1>6, <1>7, <1>8, <1>9 DEF IInv

(* Every step keeps the invariant. *)
LEMMA StepInv == IInv /\ [Next]_vars => IInv'
<1> SUFFICES ASSUME IInv, [Next]_vars PROVE IInv'
  OBVIOUS
<1>1. CASE PrefillChunk
  BY <1>1, PrefillChunkKeeps
<1>2. CASE PrefillMtp
  BY <1>2, PrefillMtpKeeps
<1>3. CASE PrefillEnd
  BY <1>3, PrefillEndKeeps
<1>4. CASE Dispatch
  BY <1>4, DispatchKeeps
<1>5. CASE BudgetSpent \/ NoRoom \/ EosChosen \/ ContextFull \/ StandardEnd
  BY <1>5, StopsKeep
<1>6. CASE StartCycle
  BY <1>6, StartCycleKeeps
<1>7. CASE Draft
  BY <1>7, DraftKeeps
<1>8. CASE Verify
  BY <1>8, VerifyKeeps
<1>9. CASE Accept
  BY <1>9, AcceptKeeps
<1>10. CASE EmitCandidate
  BY <1>10, EmitCandidateKeeps
<1>11. CASE EmitEnd
  BY <1>11, EmitEndKeeps
<1>12. CASE KeepAll
  BY <1>12, KeepAllKeeps
<1>13. CASE Rollback
  BY <1>13, RollbackKeeps
<1>14. CASE Anchor
  BY <1>14, AnchorKeeps
<1>15. CASE FirstToken
  BY <1>15, FirstTokenKeeps
<1>16. CASE StandardStep
  BY <1>16, StandardStepKeeps
<1>17. CASE SampleNext
  BY <1>17, SampleNextKeeps
<1>18. CASE Terminated \/ UNCHANGED vars
  BY <1>18, StutterKeeps DEF Terminated
<1> QED  BY <1>1, <1>2, <1>3, <1>4, <1>5, <1>6, <1>7, <1>8, <1>9, <1>10, <1>11, <1>12,
            <1>13, <1>14, <1>15, <1>16, <1>17, <1>18 DEF Next

(* The inductive invariant holds throughout every run. *)
THEOREM Invariance == Spec => []IInv
BY InitInv, StepInv, PTL DEF Spec

(* Every variable of the driver and of the engine keeps to the values its  *)
(* C variable can hold, and every index to its buffer.                     *)
THEOREM TypeCorrect == Spec => []TypeOK
<1>1. IInv => TypeOK
  BY DEF IInv
<1> QED  BY <1>1, Invariance, PTL

(* However many drafts were accepted and rejected, each cycle of the       *)
(* speculative loop starts from states that describe the emitted text.     *)
THEOREM FrontierCorrect == Spec => []FrontierConsistent
<1>1. IInv => FrontierConsistent
  BY DEF IInv, CycleInv, FrontierConsistent
<1> QED  BY <1>1, Invariance, PTL

(* Drafts are always proposed from the frontier. *)
THEOREM AnchorCorrect == Spec => []MtpAnchored
<1>1. IInv => MtpAnchored
  BY DEF IInv, CycleInv, MtpAt, MtpAnchored
<1> QED  BY <1>1, Invariance, PTL

(* No row is written beyond the context, by batches, drafts or anchors. *)
THEOREM ContextCorrect == Spec => []KvWithinContext
<1>1. IInv => KvWithinContext
  BY DEF IInv, RowsInv
<1> QED  BY <1>1, Invariance, PTL

(* The history buffer never overflows. *)
THEOREM HistoryCorrect == Spec => []HistoryFits
<1>1. IInv => HistoryFits
  <2> SUFFICES ASSUME IInv PROVE HistoryFits
    OBVIOUS
  <2>1. /\ opts.nPrompt \in Nat /\ opts.nPredict \in Nat /\ generated \in Nat
        /\ PromptMax \in Nat /\ HistMax \in Nat /\ PromptMax < HistMax
    BY OptsFacts DEF IInv
  <2>2. generated <= opts.nPredict \/ generated <= 1
    BY <2>1 DEF IInv, CountInv, MaxOf
  <2>3. /\ Len(text) = opts.nPrompt + generated /\ opts.nPrompt <= PromptMax
        /\ opts.nPrompt + opts.nPredict <= HistMax
    BY DEF IInv, CountInv, OptsInv
  <2> QED  BY <2>1, <2>2, <2>3 DEF HistoryFits
<1> QED  BY <1>1, Invariance, PTL

(* The speculative loop stops short of its budget only for a reason. *)
THEOREM StopCorrect == Spec => []StoppedForCause
<1>1. IInv => StoppedForCause
  BY DEF IInv
<1> QED  BY <1>1, Invariance, PTL

(* The standard loop emits nothing after the end of the text. *)
THEOREM EosCorrect == Spec => []StandardStopsAtEos
<1>1. IInv => StandardStopsAtEos
  <2> SUFFICES ASSUME IInv, ~Speculative,
                      NEW n \in 1..Len(Continuation)-1, Continuation[n] = EosToken
               PROVE  FALSE
    BY DEF StandardStopsAtEos, EosOnlyLast
  <2>1. /\ opts.nPrompt \in Nat /\ generated \in Nat /\ text \in Seq(Token)
        /\ Len(text) = opts.nPrompt + generated
    BY OptsFacts DEF IInv, CountInv
  <2>2. Continuation = Chunk(text, opts.nPrompt, generated)
    BY <2>1 DEF Continuation, Chunk
  <2>3. opts.nPrompt + generated <= Len(text)
    BY <2>1
  <2>4. Len(Chunk(text, opts.nPrompt, generated)) = generated
    BY <2>1, <2>3, Slice
  <2>5. \A b \in 1..generated : Chunk(text, opts.nPrompt, generated)[b] = text[opts.nPrompt + b]
    BY <2>1, <2>3, Slice
  <2>6. n \in 1..generated-1 /\ n \in 1..generated
    BY <2>1, <2>2, <2>4
  <2>7. text[opts.nPrompt + n] = EosToken
    BY <2>2, <2>5, <2>6
  <2>8. opts.nPrompt + n \in opts.nPrompt+1..Len(text) /\ opts.nPrompt + n # Len(text)
    BY <2>1, <2>6
  <2> QED  BY <2>7, <2>8 DEF IInv, EosInv
<1> QED  BY <1>1, Invariance, PTL

(* Which steps touch the rows, the text, and what never changes. *)
LEMMA StepFrame ==
    ASSUME [Next]_vars
    PROVE  /\ weights' = weights /\ opts' = opts
           /\ EmitCandidate \/ FirstToken \/ SampleNext \/ text' = text
           /\ PrefillChunk \/ Verify \/ StandardStep \/ kv' = kv
<1> USE DEF engineVars, recurrentVars, mtpVars, cycleVars
<1>1. CASE PrefillChunk \/ Verify \/ StandardStep
  BY <1>1 DEF PrefillChunk, Verify, StandardStep, ModelForwardBatch, ModelForward
<1>2. CASE PrefillMtp \/ PrefillEnd \/ Draft \/ Anchor \/ Rollback
  BY <1>2 DEF PrefillMtp, PrefillEnd, Draft, Anchor, Rollback, MtpForwardBatch, MtpForward, ModelRollbackTo
<1>3. CASE Dispatch \/ BudgetSpent \/ NoRoom \/ EosChosen \/ StartCycle \/ ContextFull \/ KeepAll \/ StandardEnd
  BY <1>3 DEF Dispatch, BudgetSpent, NoRoom, EosChosen, StartCycle, ContextFull, KeepAll, StandardEnd, Stop
<1>4. CASE Accept \/ EmitCandidate \/ EmitEnd \/ FirstToken \/ SampleNext
  BY <1>4 DEF Accept, EmitCandidate, EmitEnd, FirstToken, SampleNext, EmitSample
<1>5. CASE Terminated \/ UNCHANGED vars
  BY <1>5 DEF Terminated, vars, driverVars
<1> QED  BY <1>1, <1>2, <1>3, <1>4, <1>5 DEF Next

(* The row of a token in the text is never written again. *)
THEOREM RowsStayCorrect == Spec => EmittedRowsStable
<1>1. ASSUME IInv, [Next]_vars, NEW q \in DOMAIN kv, q < Len(text)
      PROVE  q \in DOMAIN kv' /\ kv'[q] = kv[q]
  <2>1. TypeOK /\ EngineTypeOK /\ OptsInv /\ q \in Nat /\ pos \in Nat /\ Len(text) \in Nat
    BY <1>1, OptsFacts DEF IInv, TypeOK, EngineTypeOK, RowsType
  <2>2. CASE PrefillChunk
    <3>1. /\ pos < opts.nPrompt /\ q < pos /\ Coherent(pos) /\ ModelForwardBatch(NextChunk, pos, FALSE)
          /\ Len(text) = opts.nPrompt + generated /\ generated = 0
      <4>1. /\ pc = "prefill" /\ pos < opts.nPrompt /\ ModelForwardBatch(NextChunk, pos, FALSE)
            /\ RowsInv /\ PrefillInv /\ CountInv
        BY <1>1, <2>2 DEF PrefillChunk, IInv
      <4>2. Coherent(pos) /\ generated = 0
        BY <4>1 DEF PrefillInv, Prefilling
      <4>3. q < pos
        BY <1>1, <4>1 DEF RowsInv, Sequential
      <4> QED  BY <4>1, <4>2, <4>3 DEF CountInv
    <3>2. text \in Seq(Token) /\ opts.nPrompt \in Nat /\ PrefillMaxB \in Nat /\ PrefillMaxB >= 2
      BY SMTT(30), <2>1, OptsFacts
    <3>3. ChunkSize \in 1..PrefillMaxB /\ ChunkSize \in Nat /\ pos + ChunkSize <= Len(text)
      BY <2>1, <3>1, <3>2 DEF ChunkSize, MinOf
    <3>4. NextChunk = Chunk(text, pos, ChunkSize)
      BY DEF NextChunk, Chunk
    <3>5. Chunk(text, pos, ChunkSize) \in Seq(Token)
      BY <2>1, <3>2, <3>3, Slice
    <3>6. Len(Chunk(text, pos, ChunkSize)) = ChunkSize
      BY <2>1, <3>2, <3>3, Slice
    <3>7. \A r \in DOMAIN kv : r < pos => r \in DOMAIN kv' /\ kv'[r] = kv[r]
      BY <2>1, <3>1, <3>3, <3>4, <3>5, <3>6, BatchStep
    <3> QED  BY <1>1, <3>1, <3>7
  <2>3. CASE Verify
    <3>1. /\ Coherent(pos) /\ text = conv /\ Base = pos /\ ModelForwardBatch(cand, Wrap(P + 1), TRUE)
          /\ Len(cand) \in 1..k+1 /\ cand \in Seq(Token)
      BY <1>1, <2>3 DEF Verify, IInv, DraftInv, TypeOK
    <3>2. k \in Nat /\ k <= SpecMaxB - 1 /\ SpecMaxB \in Nat /\ PrefillMaxB \in Nat /\ PrefillMaxB >= SpecMaxB
      BY <2>1, OptsFacts
    <3>3. Len(cand) \in 1..PrefillMaxB /\ Len(cand) <= SpecMaxB
      BY <3>1, <3>2
    <3>4. \A r \in DOMAIN kv : r < pos => r \in DOMAIN kv' /\ kv'[r] = kv[r]
      BY <2>1, <3>1, <3>3, BatchStep DEF Base
    <3>5. Len(text) = pos
      BY <2>1, <3>1, CoherentText
    <3> QED  BY <1>1, <3>4, <3>5
  <2>4. CASE StandardStep
    <3>1. /\ q < pos /\ Coherent(pos) /\ ModelForward(CurToken, pos) /\ generated > 0
          /\ Len(text) = pos + (IF generated = 0 THEN 0 ELSE 1)
      BY <1>1, <2>4 DEF StandardStep, IInv, RowsInv, Sequential, StandardInv
    <3>2. generated \in Nat /\ text \in Seq(Token)
      BY <2>1, OptsFacts
    <3>3. Len(text) = pos + 1
      BY <2>1, <3>1, <3>2
    <3>4. Len(text) \in 1..Len(text)
      BY <2>1, <3>3
    <3>5. CurToken \in Token
      BY <3>2, <3>4, ElementOfSeq DEF CurToken
    <3>6. \A r \in DOMAIN kv : r < pos => r \in DOMAIN kv' /\ kv'[r] = kv[r]
      BY <2>1, <3>1, <3>5, ForwardStep
    <3> QED  BY <1>1, <3>1, <3>6
  <2>5. CASE kv' = kv
    BY <1>1, <2>5
  <2> QED  BY <1>1, <2>2, <2>3, <2>4, <2>5, StepFrame
<1>2. IInv /\ [Next]_vars => [\A q \in DOMAIN kv : q < Len(text) => q \in DOMAIN kv' /\ kv'[q] = kv[q]]_vars
  BY <1>1
<1> QED  BY <1>2, Invariance, PTL DEF Spec, EmittedRowsStable

-----------------------------------------------------------------------------
(* The refinement.                                                         *)

(* The options keep the mapped variables where they are. *)
LEMMA MappingKept ==
    ASSUME opts' = opts
    PROVE  Greedy' = Greedy /\ Limit' = Limit
BY DEF Greedy, Speculative, Limit, MaxOf

(* A token picked on the logits of a text is the one it prefers. *)
LEMMA PickOfText ==
    ASSUME NEW c \in Seq(Token), NEW t \in Pick(c)
    PROVE  t \in Token /\ t = Abstract!Preferred(c)
BY GarbageIsNoText DEF Pick, Preferred, Abstract!Preferred

(* Every run of the driver is a decode within its limit, greedy when       *)
(* neither a draw nor a penalty decides: drafts never change the stream.   *)
THEOREM Refinement == Spec => ImplementsGreedyDecode
<1>1. Init => Abstract!Init
  <2> SUFFICES ASSUME Init PROVE Abstract!Init
    OBVIOUS
  <2>1. IInv
    BY InitInv
  <2>2. /\ weights \in Weights /\ text \in Seq(Token) /\ opts.nPrompt \in Nat /\ opts.nPredict \in Nat
        /\ opts.nSpec \in Nat /\ opts.tempZero \in BOOLEAN /\ opts.argmaxSampler \in BOOLEAN
    BY <2>1, OptsFacts DEF IInv, TypeOK, EngineTypeOK
  <2>3. Greedy \in BOOLEAN
    BY <2>2 DEF Greedy, Speculative
  <2>4. Limit \in Nat
    BY <2>2 DEF Limit, MaxOf
  <2> QED  BY <2>2, <2>3, <2>4 DEF Abstract!Init
<1>2. ASSUME IInv, [Next]_vars PROVE [Abstract!Next]_(Abstract!vars)
  <2>1. weights' = weights /\ opts' = opts /\ Greedy' = Greedy /\ Limit' = Limit
    BY <1>2, StepFrame, MappingKept
  <2>2. /\ TypeOK /\ CountInv /\ text \in Seq(Token) /\ Len(text) = opts.nPrompt + generated
        /\ opts.nPrompt \in Nat /\ opts.nPredict \in Nat /\ generated \in Nat
    BY <1>2, OptsFacts DEF IInv, CountInv
  <2>3. CASE EmitCandidate
    <3> DEFINE t == Cand(emitted)
    <3>1. /\ pc = "emit" /\ emitted <= j /\ generated < opts.nPredict /\ text' = Append(text, t)
      BY <2>3 DEF EmitCandidate, MoreToEmit
    <3>2. /\ Speculative /\ Len(text) = Base + emitted /\ text = Prefix(conv, Len(text))
          /\ Cand(0) \in Pick(Prefix(conv, Base))
          /\ \A i \in 1..j : Cand(i) \in Pick(Prefix(conv, Base + i))
      BY <1>2, <3>1 DEF IInv, OptsInv, Cycling, VerifiedInv, EmitInv
    <3>3. emitted \in Nat /\ j \in Nat /\ Base \in Nat
      BY <2>2, OptsFacts
    <3>4. t \in Pick(text)
      <4>1. CASE emitted = 0
        BY <3>2, <3>3, <4>1
      <4>2. CASE emitted # 0
        <5>1. emitted \in 1..j
          BY <3>1, <3>3, <4>2
        <5> QED  BY <3>2, <5>1
      <4> QED  BY <4>1, <4>2
    <3>5. t \in Token /\ t = Abstract!Preferred(text)
      BY <2>2, <3>4, PickOfText
    <3>6. Len(text) < Limit
      BY <2>2, <3>1, <3>2 DEF Limit
    <3> HIDE DEF t
    <3>7. Abstract!Emit(t)
      BY <2>1, <3>1, <3>5, <3>6 DEF Abstract!Emit
    <3> QED  BY <3>5, <3>7 DEF Abstract!Next
  <2>4. CASE FirstToken \/ SampleNext
    <3>1. PICK t \in Sample(logits) : text' = Append(text, t)
      BY <2>4 DEF FirstToken, SampleNext, EmitSample
    <3>2. logits = text /\ ~Speculative
      BY <1>2, <2>4 DEF IInv, StandardInv, OptsInv, FirstToken, SampleNext
    <3>3. t \in Token
      BY SampleToken
    <3>4. Greedy => t = Abstract!Preferred(text)
      <4> SUFFICES ASSUME Greedy PROVE t = Abstract!Preferred(text)
        OBVIOUS
      <4>1. t \in Pick(text)
        BY <3>2 DEF Greedy, Sample
      <4> QED  BY <2>2, <4>1, PickOfText
    <3>5. Len(text) < Limit
      <4>1. generated = 0 \/ generated < opts.nPredict
        BY <1>2, <2>4 DEF IInv, StandardInv, FirstToken, SampleNext
      <4>2. Limit = opts.nPrompt + MaxOf(1, opts.nPredict)
        BY <3>2 DEF Limit
      <4>3. generated < MaxOf(1, opts.nPredict) /\ MaxOf(1, opts.nPredict) \in Nat
        BY <2>2, <4>1 DEF MaxOf
      <4> QED  BY <2>2, <4>2, <4>3
    <3>6. Abstract!Emit(t)
      BY <2>1, <3>1, <3>4, <3>5 DEF Abstract!Emit
    <3> QED  BY <3>3, <3>6 DEF Abstract!Next
  <2>5. CASE text' = text
    BY <2>1, <2>5 DEF Abstract!vars
  <2> QED  BY <1>2, <2>3, <2>4, <2>5, StepFrame
<1>3. Spec => Abstract!Spec
  BY <1>1, <1>2, Invariance, PTL DEF Spec, Abstract!Spec
<1> QED  BY <1>3 DEF ImplementsGreedyDecode
=============================================================================
