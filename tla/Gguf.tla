-------------------------------- MODULE Gguf --------------------------------
(***************************************************************************)
(* Opening a model file: gguf_open and gguf_close of src/src/gguf.c, and   *)
(* the third reading of the metadata by tokenizer_init.                    *)
(*                                                                         *)
(* A file is a sequence of cells; a number, a type or a string is one cell *)
(* and the cursor counts the cells read.  A key is a pair, the name of the *)
(* architecture (or "general", "tokenizer") and the rest.  An array holds  *)
(* numbers or strings, not arrays.  The system calls and the allocation    *)
(* may fail, and a file may end anywhere.                                  *)
(***************************************************************************)
EXTENDS Integers, Sequences

CONSTANTS Files,
          Fields,            \* suffixes of the keys "<arch>.*" and their types
          DefaultAlignment,  \* GGUF_DEFAULT_ALIGNMENT: 32
          MaxTensors         \* 100000

Types == {"u32", "f32", "bool", "str", "arr"}
Sections == "rope.dimension_sections"
Vocab    == "vocab_size"

(* The cells of a file as a writer lays them out, the header, the entries   *)
(* and the tensors, up to where the file ends.                             *)
EntryCells(e)  == IF e.type = "arr" THEN <<e.key, e.type, e.elem, Len(e.val)>> \o e.val
                                    ELSE <<e.key, e.type, e.val>>
TensorCells(t) == <<t.name, Len(t.ne)>> \o t.ne \o <<t.type, t.offset>>
HeaderCell(f)  == [magic |-> f.magic, version |-> f.version, tensors |-> Len(f.tensors),
                   kvs |-> Len(f.kv)]
Parts(f)       == Len(f.kv) + Len(f.tensors)
PartCells(f, k) == IF k <= Len(f.kv) THEN EntryCells(f.kv[k])
                                     ELSE TensorCells(f.tensors[k - Len(f.kv)])
ListedTo(f)    == LET listed[k \in 0..Parts(f)] ==
                          IF k = 0 THEN <<HeaderCell(f)>> ELSE listed[k - 1] \o PartCells(f, k)
                  IN listed
Listed(f)      == ListedTo(f)[Parts(f)]
Layout(f)      == SubSeq(Listed(f) \o [k \in 1..f.data |-> "data"], 1, f.end)

(* A number is one, the lists are sequences, and the lists of the tokenizer *)
(* are written as arrays.                                                  *)
EntryOK(e) ==
    /\ e.type = "u32" => e.val \in Nat
    /\ e.type = "arr" => e.val \in Seq({e.val[j] : j \in DOMAIN e.val})
    /\ e.key \in {<<"tokenizer", "tokens">>, <<"tokenizer", "merges">>} => e.type = "arr"
FileOK(f) ==
    /\ Len(f.kv) \in Nat /\ DOMAIN f.kv = 1..Len(f.kv) /\ Len(f.tensors) \in Nat
    /\ \A k \in 1..Len(f.kv) : EntryOK(f.kv[k])
    /\ \A k \in 1..Len(f.tensors) : f.tensors[k].ne \in Seq(Nat)
    /\ f.data \in Nat /\ f.end \in 0..Len(Listed(f)) + f.data

ASSUME FileAssumption ==
    /\ Fields \in [DOMAIN Fields -> {"u32", "f32", "bool"}] /\ Vocab \in DOMAIN Fields
    /\ DefaultAlignment \in Nat \ {0} /\ MaxTensors \in Nat
    /\ \A f \in Files : FileOK(f)

Lowest(S)  == CHOOSE x \in S : \A y \in S : x <= y
Highest(S) == CHOOSE x \in S : \A y \in S : x >= y

VARIABLES phase,
          file, cells,
          fd, mapped, allocated,   \* what the context holds
          cursor, left,            \* p, and the entries the loop still has to read
          arch, alignment, config, sections,
          tensors, base,
          read                     \* the vocabulary tokenizer_init has read

held     == <<fd, mapped, allocated>>
meta     == <<arch, alignment, config, sections>>
infos    == <<tensors, base>>
fileVars == <<phase, file, cells, held, cursor, left, meta, infos, read>>

Cleared ==
    /\ fd' = FALSE /\ mapped' = FALSE /\ allocated' = FALSE
    /\ arch' = "" /\ alignment' = 0
    /\ config' = [f \in DOMAIN Fields |-> 0] /\ sections' = <<>>
    /\ tensors' = <<>> /\ base' = 0

FileInit ==
    /\ phase = "open" /\ file \in Files /\ cells = Layout(file)
    /\ fd = FALSE /\ mapped = FALSE /\ allocated = FALSE
    /\ cursor = 0 /\ left = 0
    /\ arch = "" /\ alignment = DefaultAlignment
    /\ config = [f \in DOMAIN Fields |-> 0] /\ sections = <<>>
    /\ tensors = <<>> /\ base = 0
    /\ read = [tokens |-> <<>>, merges |-> <<>>]

(* goto fail: gguf_close.                                                  *)
\* mutant: the mapping is forgotten
BugFail == /\ phase' = "failed" /\ fd' = FALSE /\ allocated' = FALSE
           /\ UNCHANGED <<file, cells, mapped, cursor, left, meta, infos, read>>
Fail == /\ phase' = "failed" /\ Cleared
        /\ UNCHANGED <<file, cells, cursor, left, read>>

-----------------------------------------------------------------------------
(* The file, its mapping and its header.                                   *)

OpenFile ==
    /\ phase = "open"
    /\ \/ phase' = "map" /\ fd' = TRUE
       \/ phase' = "failed" /\ UNCHANGED fd
    /\ UNCHANGED <<file, cells, mapped, allocated, cursor, left, meta, infos, read>>

MapFile ==
    /\ phase = "map"
    /\ \/ /\ cells # <<>> /\ phase' = "header" /\ mapped' = TRUE
          /\ UNCHANGED <<file, cells, fd, allocated, cursor, left, meta, infos, read>>
       \/ Fail

Header == cells[1]

ReadHeader ==
    /\ phase = "header"
    /\ IF Header.magic /\ Header.version \in 2..3
       THEN /\ cursor' = 1 /\ left' = Header.kvs /\ phase' = "pass1"
            /\ UNCHANGED <<file, cells, held, meta, infos, read>>
       ELSE Fail

-----------------------------------------------------------------------------
(* The metadata, in two passes: only the first knows the architecture at   *)
(* its end, and the keys may come in any order.                            *)

Key  == cells[cursor + 1]
Type == cells[cursor + 2]
ValueAt   == cursor + 2                       \* where the value begins
Val  == cells[ValueAt + 1]

Within(n) == n <= Len(cells)

(* skip_value, and where it or a reading of the value leaves the cursor.   *)
ValueFits ==
    /\ Within(ValueAt) /\ Type \in Types
    /\ IF Type = "arr"
       THEN Within(ValueAt + 2) /\ Val \in Types /\ Within(ValueAt + 2 + cells[ValueAt + 2])
       ELSE Within(ValueAt + 1)
ValueEnd == IF Type = "arr" THEN ValueAt + 2 + cells[ValueAt + 2] ELSE ValueAt + 1
Elements == SubSeq(cells, ValueAt + 3, ValueEnd)

Pass1 ==
    /\ phase = "pass1" /\ left > 0
    /\ IF ~ValueFits THEN Fail ELSE
       /\ cursor' = ValueEnd /\ left' = left - 1
       /\ arch' = IF Key = <<"general", "architecture">> /\ Type = "str" THEN Val ELSE arch
       /\ alignment' = IF Key = <<"general", "alignment">> /\ Type = "u32" /\ Val > 0
                       THEN Val ELSE alignment
       /\ UNCHANGED <<phase, file, cells, held, config, sections, infos, read>>

Pass1Ends ==
    /\ phase = "pass1" /\ left = 0
    /\ IF arch = "" THEN Fail ELSE
       /\ phase' = "pass2" /\ cursor' = 1 /\ left' = Header.kvs
       /\ UNCHANGED <<file, cells, held, meta, infos, read>>

(* A field is a key of the architecture and of the expected type.          *)
IsSections == Key = <<arch, Sections>> /\ Type = "arr"
\* mutant: the type of the value is not looked at
BugIsField(f) == Key = <<arch, f>>
IsField(f) == Key = <<arch, f>> /\ Type = Fields[f]

\* mutant: the bound of the array is forgotten
BugFirstFour == Elements
(* The first four sections are kept, all of them are read.                 *)
FirstFour == SubSeq(Elements, 1, Lowest({4, Len(Elements)}))
Kept4     == FirstFour \o SubSeq(sections, Len(FirstFour) + 1, Len(sections))

Pass2 ==
    /\ phase = "pass2" /\ left > 0
    /\ IF ~ValueFits \/ (IsSections /\ Val # "u32") THEN Fail ELSE
       /\ cursor' = ValueEnd /\ left' = left - 1
       /\ sections' = IF IsSections THEN Kept4 ELSE sections
       /\ config' = [f \in DOMAIN Fields |-> IF IsField(f) THEN Val ELSE config[f]]
       /\ UNCHANGED <<phase, file, cells, held, arch, alignment, infos, read>>

Pass2Ends ==
    /\ phase = "pass2" /\ left = 0
    /\ \/ /\ Header.tensors \in 1..MaxTensors
          /\ phase' = "infos" /\ left' = Header.tensors /\ allocated' = TRUE
          /\ UNCHANGED <<file, cells, fd, mapped, cursor, meta, infos, read>>
       \/ Fail

-----------------------------------------------------------------------------
(* The tensors.                                                            *)

NDims    == cells[cursor + 2]
InfoEnd  == cursor + 4 + NDims
InfoFits == Within(cursor + 2) /\ NDims <= 4 /\ Within(InfoEnd)

ReadInfo ==
    /\ phase = "infos" /\ left > 0
    /\ IF ~InfoFits THEN Fail ELSE
       /\ tensors' = Append(tensors, [name |-> Key, ne |-> SubSeq(cells, cursor + 3, cursor + 2 + NDims),
                                      offset |-> cells[InfoEnd]])
       /\ cursor' = InfoEnd /\ left' = left - 1
       /\ UNCHANGED <<phase, file, cells, held, meta, base, read>>

(* The data begin at the next multiple of the alignment.                   *)
Aligned == ((cursor + alignment - 1) \div alignment) * alignment

InfosEnd ==
    /\ phase = "infos" /\ left = 0
    /\ IF Aligned >= Len(cells) THEN Fail ELSE
       /\ base' = Aligned /\ phase' = "resolve"
       /\ UNCHANGED <<file, cells, held, cursor, left, meta, tensors, read>>

(* gguf_find_tensor: the first of a name.                                  *)
Found(name) == {k \in DOMAIN tensors : tensors[k].name = name}
Embedding   == tensors[Lowest(Found("token_embd.weight"))]

(* Every tensor begins within the file; without its key the size of the    *)
(* vocabulary is that of the embedding.                                    *)
Resolve ==
    /\ phase = "resolve"
    /\ IF \E k \in DOMAIN tensors : base + tensors[k].offset >= Len(cells) THEN Fail ELSE
       /\ config' = IF /\ Found("token_embd.weight") # {}
                       /\ config[Vocab] = 0 /\ Len(Embedding.ne) = 2
                    THEN [config EXCEPT ![Vocab] = Embedding.ne[2]] ELSE config
       /\ phase' = "tokenizer" /\ cursor' = 1 /\ left' = Header.kvs
       /\ UNCHANGED <<file, cells, held, arch, alignment, sections, infos, read>>

-----------------------------------------------------------------------------
(* tokenizer_init reads the metadata again, keys before their types.       *)

TokenizerEntry ==
    /\ phase = "tokenizer" /\ left > 0
    /\ read' = [tokens |-> IF Key = <<"tokenizer", "tokens">> THEN Elements ELSE read.tokens,
                merges |-> IF Key = <<"tokenizer", "merges">> THEN Elements ELSE read.merges]
    /\ cursor' = ValueEnd /\ left' = left - 1
    /\ UNCHANGED <<phase, file, cells, held, meta, infos>>

TokenizerRead ==
    /\ phase = "tokenizer" /\ left = 0
    /\ phase' = "loaded"
    /\ UNCHANGED <<file, cells, held, cursor, left, meta, infos, read>>

FileStep == \/ OpenFile \/ MapFile \/ ReadHeader \/ Pass1 \/ Pass1Ends \/ Pass2 \/ Pass2Ends
            \/ ReadInfo \/ InfosEnd \/ Resolve \/ TokenizerEntry \/ TokenizerRead

FileSpec == FileInit /\ [][FileStep]_fileVars
-----------------------------------------------------------------------------
(* Properties.                                                             *)

(* Every variable has its type; no reading passes the end of the file      *)
(* (gguf.c:35-82), and the data begin at a multiple of the alignment.      *)
FileTypeOK ==
    /\ phase \in {"open", "map", "header", "pass1", "pass2", "infos", "resolve", "tokenizer",
                  "loaded", "failed"}
    /\ {fd, mapped, allocated} \subseteq BOOLEAN
    /\ cursor \in 0..Len(cells) /\ left \in Nat
    /\ DOMAIN config = DOMAIN Fields /\ Len(sections) <= 4
    /\ base > 0 => base % alignment = 0 /\ base < Len(cells)

(* Wherever the opening fails, nothing stays open, mapped or allocated; it *)
(* succeeds only with all three, and never on a file that ends before its  *)
(* data, which begin after all that was read (gguf.c:174-183, 286-309).    *)
OpenedOrReleased ==
    /\ phase = "failed" => ~fd /\ ~mapped /\ ~allocated
    /\ phase = "tokenizer" => /\ fd /\ mapped /\ allocated
                              /\ base \in Len(Listed(file))..file.end-1

(* The keys may come in any order (the comment at gguf.c:227): the values   *)
(* that were read are the last ones the file gives for its architecture,   *)
(* wherever that is named, and the vocabulary is the one of the file.      *)
LastOf(S, default) == IF S = {} THEN default ELSE file.kv[Highest(S)].val
Given(key, type)   == {k \in DOMAIN file.kv : file.kv[k].key = key /\ file.kv[k].type = type}
LoadedAsWritten ==
    phase = "loaded" =>
        /\ arch = LastOf(Given(<<"general", "architecture">>, "str"), "")
        /\ \A f \in DOMAIN Fields \ {Vocab} : config[f] = LastOf(Given(<<arch, f>>, Fields[f]), 0)
        /\ read.tokens = LastOf(Given(<<"tokenizer", "tokens">>, "arr"), <<>>)
        /\ read.merges = LastOf(Given(<<"tokenizer", "merges">>, "arr"), <<>>)
=============================================================================
