----------------------------- MODULE Tokenizer ------------------------------
(***************************************************************************)
(* The tokenizer of src/src/tokenizer.c: its two hash tables are built     *)
(* from the vocabulary and the merges of a model file, a text is cut into  *)
(* chunks, each chunk is merged pair by pair, and the tokens are decoded.  *)
(*                                                                         *)
(* A text is a sequence of bytes and a byte is a name.  The table between  *)
(* bytes and the characters of the vocabulary (byte_to_str, cp_to_byte) is *)
(* a bijection, so the text of a token is written with the bytes it stands *)
(* for; Width is the length of a byte's character.  Ids and positions      *)
(* count from 1.  A search in a hash table is one step (Probing), which the *)
(* loops of HashTable take slot by slot.                                   *)
(***************************************************************************)
EXTENDS Probing, Integers, Sequences, FiniteSets

Seqs == INSTANCE SequencesExt

CONSTANTS Letters, Digits, Blanks, Others,           \* the bytes by category
          Byte255,           \* the byte whose table entry looks like no entry
          Width,
          Models,            \* vocabularies and merges
          Texts, MaxTokens,  \* what the program encodes, and into how many tokens
          TokenHash(_), MergeHash(_, _),  \* where a search begins
          LineSize,          \* size of the buffer of a line of the merges: 256
          CombSize,          \* size of the buffer of a merged text: 512
          DecodeSize,        \* size of decode_buf: 512
          UnkId              \* the id that stands for a byte without a token

Bytes == Letters \cup Digits \cup Blanks \cup Others

(* A line of the merges: its words, each of whose beginnings has a hash.   *)
Lines == Seq(Seq(Bytes)) \ {<<>>}
Hashed(line) == \A w \in 1..Len(line) : \A n \in 0..Len(line[w]) :
                   TokenHash(SubSeq(line[w], 1, n)) \in Hashes

ASSUME TokenizerAssumption ==
    /\ Slots \in Nat \ {0}
    /\ LineSize \in Nat /\ CombSize \in Nat /\ DecodeSize \in Nat
    /\ Width \in [Bytes -> Nat \ {0}]
    /\ Texts \subseteq Seq(Bytes) /\ MaxTokens \subseteq Nat \ {0}
    /\ None \notin Nat \cup {"'", "s", "t", "m", "d", "r", "v", "e", "l"}
    /\ \A m \in Models :
          /\ m.tokens \in Seq(Seq(Bytes)) /\ Len(m.tokens) < Slots
          /\ m.merges \in Seq(Lines) /\ Len(m.merges) < Slots
          /\ \A k \in 1..Len(m.tokens) : TokenHash(m.tokens[k]) \in Hashes
          /\ \A k \in 1..Len(m.merges) : Hashed(m.merges[k])
          /\ \A k, l \in 1..Len(m.tokens) : MergeHash(k, l) \in Hashes

(* What else is looked up: a byte, a merged text, a pair with the id that   *)
(* stands for a byte without a token.                                      *)
ASSUME LookupAssumption ==
    /\ UnkId \in Nat
    /\ \A b \in Bytes : TokenHash(<<b>>) \in Hashes
    /\ \A m \in Models :
          /\ \A k, l \in 1..Len(m.tokens) : TokenHash(m.tokens[k] \o m.tokens[l]) \in Hashes
          /\ \A k, l \in 1..Len(m.tokens) \cup {UnkId} : MergeHash(k, l) \in Hashes

VARIABLES pc,
          model,                  \* the tokens of the file, and its merges: each a line,
                                  \* given by the words between its blanks
          hashTable, nTokens,     \* hash_table and the tokens inserted so far
          mergeTable, pairs,      \* merge_hash_table and the pairs read so far
          text, maxTokens,
          i, chunks,              \* pretokenize: its position and its result
          c, symbols,             \* tokenizer_encode: its chunk and the symbols of it
          tokens,
          d, decoded              \* the tokens decoded so far, and their text

init  == <<model, hashTable, nTokens, mergeTable, pairs>>
input == <<text, maxTokens>>
cut   == <<i, chunks>>
enc   == <<c, symbols, tokens>>
dec   == <<d, decoded>>
vars  == <<pc, init, input, cut, enc, dec>>

Init ==
    /\ pc = "vocab"
    /\ model \in Models
    /\ hashTable = [h \in Hashes |-> None] /\ nTokens = 0
    /\ mergeTable = [h \in Hashes |-> None] /\ pairs = <<>>
    /\ text = <<>> /\ maxTokens = 1
    /\ i = 1 /\ chunks = <<>>
    /\ c = 0 /\ symbols = <<>> /\ tokens = <<>>
    /\ d = 0 /\ decoded = <<>>

-----------------------------------------------------------------------------
(* The hash tables.                                                        *)

(* token_find: the id of a text, or None (UINT32_MAX).                     *)
Named(t)     == {id \in 1..nTokens : model.tokens[id] = t}
TokenFind(t) == hashTable[Probe(hashTable, TokenHash(t), Named(t))]

(* merge_find: the rank of a pair of ids, or None.                         *)
Ranked(l, r)    == {m \in 1..Len(pairs) : pairs[m] = <<l, r>>}
MergeFind(l, r) == mergeTable[Probe(mergeTable, MergeHash(l, r), Ranked(l, r))]

-----------------------------------------------------------------------------
(* tokenizer_init.                                                         *)

InsertToken ==
    /\ pc = "vocab" /\ nTokens < Len(model.tokens)
    /\ nTokens' = nTokens + 1
    /\ hashTable' = Inserted(hashTable, TokenHash(model.tokens[nTokens + 1]), nTokens + 1)
    /\ UNCHANGED <<pc, model, mergeTable, pairs, input, cut, enc, dec>>

TextWidth(t) == Seqs!FoldLeft(LAMBDA n, b : n + Width[b], 0, t)

(* A line of the merges is cut at the size of its buffer: what is left for  *)
(* the text behind its first blank, and as many characters of the second   *)
(* word as have room.                                                      *)
Room(line) == LineSize - 1 - (TextWidth(line[1]) + 1)
Kept(line) ==
    LET w == line[2]
    IN SubSeq(w, 1, Last({n \in 0..Len(w) : TextWidth(SubSeq(w, 1, n)) <= Room(line)}))

(* The two ids of a line: none if no blank is left in it; the second is the *)
(* id of the rest of the line, and a rest that ends within a character or  *)
(* has a blank of its own is no token.                                     *)
PairOf(line) ==
    IF Len(line) = 1 \/ Room(line) < 0 THEN <<None, None>>
    ELSE <<TokenFind(line[1]),
           IF TextWidth(Kept(line)) = Room(line) \/ line = <<line[1], Kept(line)>>
           THEN TokenFind(Kept(line)) ELSE None>>

(* A pair with a text that is no token keeps its place in the ranks but is *)
(* not inserted, and nothing reads its ids.                                *)
InsertMerge ==
    /\ pc = "vocab" /\ nTokens = Len(model.tokens) /\ Len(pairs) < Len(model.merges)
    /\ LET p == PairOf(model.merges[Len(pairs) + 1])
       IN /\ pairs' = Append(pairs, p)
          /\ mergeTable' = IF None \in {p[1], p[2]} THEN mergeTable
                           ELSE Inserted(mergeTable, MergeHash(p[1], p[2]), Len(pairs) + 1)
    /\ UNCHANGED <<pc, model, hashTable, nTokens, input, cut, enc, dec>>

(* The call of tokenizer_encode. *)
Encode ==
    /\ pc = "vocab" /\ nTokens = Len(model.tokens) /\ Len(pairs) = Len(model.merges)
    /\ text' \in Texts /\ maxTokens' \in MaxTokens
    /\ pc' = "cut"
    /\ UNCHANGED <<init, cut, enc, dec>>

-----------------------------------------------------------------------------
(* pretokenize: one step is one round of its loop.                         *)

Cat(b) == CASE b \in Letters -> "letter" [] b \in Digits -> "digit"
            [] b \in Blanks -> "blank" [] OTHER -> "other"

(* What the categories of the expression below leave open: a space is a     *)
(* blank, and an apostrophe, which leads a contraction, is not.            *)
ASSUME CategoryAssumption == Cat(" ") = "blank" /\ Cat("'") # "blank"

At(j) == IF j \in 1..Len(text) THEN text[j] ELSE None

ContractionLen(j) ==
    CASE At(j) = "'" /\ At(j + 1) \in {"s", "t", "m", "d"} -> 2
      [] At(j) = "'" /\ At(j + 1) \in {"r", "v"} /\ At(j + 2) = "e" -> 3
      [] At(j) = "'" /\ At(j + 1) = "l" /\ At(j + 2) = "l" -> 3
      [] OTHER -> 0

(* The end of the run of a category that starts at j.                      *)
RunEnd(j, cat) == First({e \in j..Len(text)+1 : e > Len(text) \/ Cat(text[e]) # cat})

Cutting(cs) ==
    /\ chunks' = chunks \o cs
    /\ i' = cs[Len(cs)].start + cs[Len(cs)].len
    /\ UNCHANGED <<pc, init, input, enc, dec>>
Piece(j, e) == [start |-> j, len |-> e - j]

\* mutant: the chunk starts behind its blank
BugWord(j) ==
    LET w == IF Cat(text[j]) = "blank" THEN j + 1 ELSE j
    IN Piece(w, RunEnd(w, Cat(text[w])))
(* One blank at most, and a run of one category.                           *)
Word(j) ==
    LET w == IF Cat(text[j]) = "blank" THEN j + 1 ELSE j
    IN Piece(j, RunEnd(w, Cat(text[w])))

CutContraction ==
    /\ pc = "cut" /\ ContractionLen(i) > 0
    /\ Cutting(<<Piece(i, i + ContractionLen(i))>>)

CutWord ==
    /\ pc = "cut" /\ i <= Len(text)
    /\ ContractionLen(i) = 0 /\ Cat(text[i]) # "blank"
    /\ Cutting(<<Word(i)>>)

(* The last blanks of the text are one chunk.                              *)
CutLastBlanks ==
    /\ pc = "cut" /\ i <= Len(text)
    /\ Cat(text[i]) = "blank" /\ RunEnd(i, "blank") > Len(text)
    /\ Cutting(<<Piece(i, RunEnd(i, "blank"))>>)

(* The last of several blanks belongs to the word after them.  (The branch *)
(* for a second blank after a single one is never taken.)                  *)
\* mutant: every blank is left before the word
BugCutBlanks ==
    /\ pc = "cut" /\ i <= Len(text)
    /\ Cat(text[i]) = "blank" /\ RunEnd(i, "blank") <= Len(text)
    /\ LET e == RunEnd(i, "blank")
       IN Cutting(IF e - i > 1 THEN <<Piece(i, e), Word(e)>> ELSE <<Word(i)>>)
CutBlanks ==
    /\ pc = "cut" /\ i <= Len(text)
    /\ Cat(text[i]) = "blank" /\ RunEnd(i, "blank") <= Len(text)
    /\ LET last == RunEnd(i, "blank") - 1
       IN Cutting(IF last > i THEN <<Piece(i, last), Word(last)>> ELSE <<Word(i)>>)

CutEnds ==
    /\ pc = "cut" /\ i > Len(text)
    /\ pc' = "chunk"
    /\ UNCHANGED <<init, input, cut, enc, dec>>

-----------------------------------------------------------------------------
(* tokenizer_encode: the byte-pair merges of each chunk.                   *)

(* A byte without a token of its own; no file has tokens named "<0x..>".   *)
ByteId(b) == IF TokenFind(<<b>>) = None THEN UnkId ELSE TokenFind(<<b>>)

ChunkBytes(k) == SubSeq(text, chunks[k].start, chunks[k].start + chunks[k].len - 1)
ByteIds(t)    == [a \in DOMAIN t |-> ByteId(t[a])]

StartChunk ==
    /\ pc = "chunk" /\ c < Len(chunks) /\ Len(tokens) < maxTokens
    /\ c' = c + 1
    /\ symbols' = ByteIds(ChunkBytes(c + 1))
    /\ pc' = "merge"
    /\ UNCHANGED <<init, input, cut, tokens, dec>>

Rank(j)   == MergeFind(symbols[j], symbols[j + 1])
Merging   == {j \in 1..Len(symbols)-1 : Rank(j) # None}

\* mutant: the last of the best pairs
BugBest(j) == j \in Merging /\ \A k \in Merging : Rank(k) >= Rank(j)
                                              /\ (k > j => Rank(k) > Rank(j))
(* The first pair of the lowest rank.                                      *)
Best(j) == j \in Merging /\ \A k \in Merging : Rank(k) >= Rank(j)
                                           /\ (k < j => Rank(k) > Rank(j))

Joined(j) == model.tokens[symbols[j]] \o model.tokens[symbols[j + 1]]

Merge ==
    /\ pc = "merge"
    /\ \E j \in Merging :
          /\ Best(j)
          /\ TextWidth(Joined(j)) < CombSize /\ TokenFind(Joined(j)) # None
          /\ symbols' = SubSeq(symbols, 1, j - 1) \o <<TokenFind(Joined(j))>>
                        \o SubSeq(symbols, j + 2, Len(symbols))
    /\ UNCHANGED <<pc, init, input, cut, c, tokens, dec>>

(* No pair has a rank; or the best one is too long, or is no token: the    *)
(* loop leaves, whatever the other pairs are.                              *)
MergeEnds ==
    /\ pc = "merge"
    /\ \A j \in Merging :
          Best(j) => TextWidth(Joined(j)) >= CombSize \/ TokenFind(Joined(j)) = None
    /\ pc' = "emit"
    /\ UNCHANGED <<init, input, cut, enc, dec>>

\* mutant: the bound is forgotten
BugEmit ==
    /\ pc = "emit"
    /\ tokens' = tokens \o symbols
    /\ pc' = "chunk"
    /\ UNCHANGED <<init, input, cut, c, symbols, dec>>
Emit ==
    /\ pc = "emit"
    /\ tokens' = tokens \o SubSeq(symbols, 1, First({Len(symbols), maxTokens - Len(tokens)}))
    /\ pc' = "chunk"
    /\ UNCHANGED <<init, input, cut, c, symbols, dec>>

EncodeEnds ==
    /\ pc = "chunk" /\ (c = Len(chunks) \/ Len(tokens) = maxTokens)
    /\ pc' = "decode"
    /\ UNCHANGED <<init, input, cut, enc, dec>>

-----------------------------------------------------------------------------
(* tokenizer_decode, called for one token after the other.                 *)

(* The entry of byte 255 is taken for no entry: the two bytes of its        *)
(* character are copied, here one name.                                    *)
Raw(b)       == IF b = Byte255 THEN "C3 BF" ELSE b
RawLen(t, k) == k + Cardinality({a \in 1..k : t[a] = Byte255})

(* The bytes decoded while there is room for four more.                    *)
Fits(t) == {n \in 0..Len(t) : \A k \in 0..n-1 : RawLen(t, k) + 4 < DecodeSize}

\* mutant: a leading blank is dropped
BugTokenDecode(id) ==
    IF id \in 1..nTokens
    THEN LET t == SelectSeq(model.tokens[id], LAMBDA b : b # " ")
         IN [a \in DOMAIN t |-> Raw(t[a])]
    ELSE <<>>
TokenDecode(id) ==
    IF id \in 1..nTokens
    THEN LET t == model.tokens[id] IN [a \in 1..Last(Fits(t)) |-> Raw(t[a])]
    ELSE <<>>

DecodeOne ==
    /\ pc = "decode" /\ d < Len(tokens)
    /\ d' = d + 1
    /\ decoded' = decoded \o TokenDecode(tokens[d + 1])
    /\ UNCHANGED <<pc, init, input, cut, enc>>

Finish ==
    /\ pc = "decode" /\ d = Len(tokens)
    /\ pc' = "done"
    /\ UNCHANGED <<init, input, cut, enc, dec>>

-----------------------------------------------------------------------------
Step == \/ InsertToken \/ InsertMerge \/ Encode
        \/ CutContraction \/ CutWord \/ CutLastBlanks \/ CutBlanks \/ CutEnds
        \/ StartChunk \/ Merge \/ MergeEnds \/ Emit \/ EncodeEnds
        \/ DecodeOne \/ Finish

Spec == Init /\ [][Step]_vars
-----------------------------------------------------------------------------
(* Properties.                                                             *)

(* Every variable has its type; the chunks fit into arrays of two more than *)
(* the bytes (tokenizer.c:342-344) and the tokens into theirs (line 403).  *)
TypeOK ==
    /\ pc \in {"vocab", "cut", "chunk", "merge", "emit", "decode", "done"}
    /\ model \in Models
    /\ hashTable \in [Hashes -> 1..nTokens \cup {None}]
    /\ nTokens \in 0..Len(model.tokens)
    /\ mergeTable \in [Hashes -> 1..Len(pairs) \cup {None}]
    /\ pairs \in Seq((1..nTokens \cup {None}) \X (1..nTokens \cup {None}))
    /\ text \in Texts \cup {<<>>} /\ maxTokens \in Nat \ {0}
    /\ i \in 1..Len(text)+1
    /\ chunks \in Seq([start : 1..Len(text), len : 1..Len(text)])
    /\ Len(chunks) <= Len(text) + 2
    /\ c \in 0..Len(chunks)
    /\ symbols \in Seq(1..nTokens \cup {UnkId}) /\ Len(symbols) <= Len(text) + 2
    /\ tokens \in Seq(1..nTokens \cup {UnkId}) /\ Len(tokens) <= maxTokens
    /\ d \in 0..Len(tokens)

(* However the hashes collide, and whatever was inserted since, each table  *)
(* finds the first entry of every name it holds (tokenizer.c:62-100).      *)
TablesFind ==
    /\ \A id \in 1..nTokens : TokenFind(model.tokens[id]) = First(Named(model.tokens[id]))
    /\ \A m \in 1..Len(pairs) : None \notin {pairs[m][1], pairs[m][2]} =>
          MergeFind(pairs[m][1], pairs[m][2]) = First(Ranked(pairs[m][1], pairs[m][2]))

(* The chunks are the text up to i, without a gap or an overlap: no byte is *)
(* lost or encoded twice (tokenizer.c:157-200).                            *)
Next1(k) == chunks[k].start + chunks[k].len
ChunksCover ==
    /\ \A k \in 1..Len(chunks) :
          /\ chunks[k].len >= 1
          /\ chunks[k].start = IF k = 1 THEN 1 ELSE Next1(k - 1)
    /\ i = IF chunks = <<>> THEN 1 ELSE Next1(Len(chunks))
    /\ pc \notin {"vocab", "cut"} => i = Len(text) + 1

(* The expression of the comment (tokenizer.c:126-131), as a backtracking   *)
(* matcher reads it: the longest match of the first alternative that has   *)
(* one.  A single blank before a word is taken whatever blank it is, where *)
(* the expression has a space: the two agree if only spaces precede words. *)
Ahead(j, n) == SubSeq(text, j, j + n - 1)
Runs(j, cat) ==
    {n \in 1..Len(text)-j+1 :
        LET w == Ahead(j, n)
            v == IF Head(w) = " " THEN Tail(w) ELSE w
        IN v # <<>> /\ \A b \in Seqs!ToSet(v) : Cat(b) = cat}
BlankRuns(j) == {n \in 1..Len(text)-j+1 : \A b \in Seqs!ToSet(Ahead(j, n)) : Cat(b) = "blank"}
Contractions == {<<"'", "s">>, <<"'", "t">>, <<"'", "r", "e">>, <<"'", "v", "e">>,
                 <<"'", "m">>, <<"'", "l", "l">>, <<"'", "d">>}
Alternatives(j) ==
    <<{n \in 1..Len(text)-j+1 : Ahead(j, n) \in Contractions},
      Runs(j, "letter"), Runs(j, "digit"), Runs(j, "other"),
      {n \in BlankRuns(j) : j + n > Len(text) \/ Cat(text[j + n]) = "blank"},
      BlankRuns(j)>>
Match(j) == LET a == First({b \in 1..6 : Alternatives(j)[b] # {}}) IN Last(Alternatives(j)[a])
SpacesBeforeWords ==
    \A j \in 2..Len(text) : Cat(text[j - 1]) = "blank" /\ Cat(text[j]) # "blank"
                               => text[j - 1] = " "
ChunksFollowExpression ==
    SpacesBeforeWords => \A k \in 1..Len(chunks) : chunks[k].len = Match(chunks[k].start)

(* The greedy loop is the byte-pair encoding by rules: the merges applied   *)
(* in their order, each to the whole chunk, for every list of merges that  *)
(* builds tokens from bytes and from earlier merges, each in a line of two *)
(* words that has room in its buffer (tokenizer.c:371-401, 278-295).       *)
MergeText(m)  == model.merges[m][1] \o model.merges[m][2]
LineFits(line) == Len(line) = 2 /\ TextWidth(line[1]) + 1 + TextWidth(line[2]) < LineSize
WellFormed ==
    /\ \A b \in Seqs!ToSet(text) : <<b>> \in Seqs!ToSet(model.tokens)
    /\ \A m \in 1..Len(model.merges) : LineFits(model.merges[m])
    /\ \A m \in 1..Len(model.merges) :
          /\ MergeText(m) \in Seqs!ToSet(model.tokens) /\ TextWidth(MergeText(m)) < CombSize
          /\ \A n \in 1..m-1 : MergeText(n) # MergeText(m)
          /\ \A s \in {1, 2} : \/ Len(model.merges[m][s]) = 1
                              \/ \E n \in 1..m-1 : MergeText(n) = model.merges[m][s]
ReplacePair(seq, m) ==
    LET step(acc, t) ==
            IF acc # <<>> /\ <<Seqs!Last(acc), t>> = model.merges[m]
            THEN Append(Seqs!Front(acc), MergeText(m))
            ELSE Append(acc, t)
    IN Seqs!FoldLeft(step, <<>>, seq)
ByRules(t) == Seqs!FoldLeft(ReplacePair, [a \in DOMAIN t |-> <<t[a]>>],
                       [m \in DOMAIN model.merges |-> m])
MergedByRules ==
    pc = "emit" /\ WellFormed =>
        [a \in DOMAIN symbols |-> model.tokens[symbols[a]]] = ByRules(ChunkBytes(c))

(* Decoding the tokens gives the text back (README.md: "lossless"), or its  *)
(* beginning when the tokens did not fit, if every byte has a token and no *)
(* token is longer than the decoder's buffer takes.  Byte 255 is in no     *)
(* UTF-8 text.                                                             *)
RoundTrip ==
    /\ pc = "done"
    /\ \A b \in Seqs!ToSet(text) : b # Byte255 /\ <<b>> \in Seqs!ToSet(model.tokens)
    /\ \A id \in 1..nTokens : Len(model.tokens[id]) \in Fits(model.tokens[id])
    => /\ Seqs!IsPrefix(decoded, text)
       /\ Len(tokens) < maxTokens => decoded = text
=============================================================================
