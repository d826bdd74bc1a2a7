------------------------------ MODULE MCPrompt ------------------------------
(***************************************************************************)
(* Small vocabularies, texts and model files.  The hashes send most texts  *)
(* to one of two slots, so the searches cross foreign entries and wrap     *)
(* round.                                                                  *)
(***************************************************************************)
EXTENDS Prompt

MCLetters == {"a", "s", "l", "r", "e"}
MCDigits  == {"1"}
MCBlanks  == {" ", "nl"}
MCOthers  == {"'", "x", "FF"}

MCWidth == [b \in Bytes |-> IF b \in MCBlanks \cup {"FF"} THEN 2 ELSE 1]

MCTokenHash(t)    == Slots - 1 - (Len(t) % 2)
MCMergeHash(l, r) == Slots - 2 + ((l + r) % 2)

Byte1 == <<<<"a">>, <<"s">>, <<" ">>, <<"'">>, <<"1">>, <<"l">>, <<"nl">>, <<"r">>, <<"e">>,
           <<"FF">>>>

(* Merges that overlap in a run of one letter, that build on each other,   *)
(* that cross a blank; a merge whose result is no token and one of a text  *)
(* that is no token; a token given twice.  Lines of one word and of three, *)
(* and lines that the buffer cuts: behind a character, within one, behind  *)
(* the second word of three, at the blank.                                 *)
MCModel1 ==
    [tokens |-> Byte1 \o <<<<"a", "a">>, <<"a", "s">>, <<"a", "a", "s">>, <<" ", "a">>>>,
     merges |-> <<<<<<"a">>, <<"a">>>>, <<<<"a">>, <<"s">>>>, <<<<"a", "a">>, <<"s">>>>,
                  <<<<" ">>, <<"a">>>>>>]
MCModel2 ==
    [tokens |-> Byte1 \o <<<<"a", "s">>, <<"a", "s">>, <<"'", "s">>, <<" ", "a", "s">>>>,
     merges |-> <<<<<<"s">>, <<"a">>>>, <<<<"a">>, <<"s">>>>, <<<<"x">>, <<"a">>>>,
                  <<<<"'">>, <<"s">>>>, <<<<" ">>, <<"a", "s">>>>>>]
MCModel3 ==
    [tokens |-> Byte1 \o <<<<"a", "s">>, <<"a", "s", "s">>, <<"a", "a">>, <<"a", "s", "a", "a">>,
                          <<"s", "s">>, <<"a", "a", "a">>, <<"s", "a">>>>,
     merges |-> <<<<<<"a">>>>, <<<<"a">>, <<"s">>, <<"a">>>>, <<<<"a">>, <<"a">>>>,
                  <<<<"a", "s">>, <<"a", "a", "a">>>>, <<<<"a", "a", "a">>, <<" ">>>>,
                  <<<<"a", "s", "s">>, <<"s">>, <<"a">>>>, <<<<"s">>, <<"a">>>>,
                  <<<<"a", "a", "a", "a", "a">>, <<"s">>>>>>]

(* Every text of at most four of the common bytes, and longer ones for the *)
(* digits, the contractions, the last blanks, a byte without a token and   *)
(* byte 255.                                                               *)
MCTexts == UNION {[1..n -> {"a", "s", " ", "'"}] : n \in 0..4} \cup
           {<<"a", "nl", "nl", "a">>, <<"nl", "a">>, <<" ", "nl">>, <<"a", "x", "a", "s">>,
            <<"s", "'", "r", "e", "'", "l", "l">>, <<"a", "'", "r">>, <<"a", "FF", "a">>,
            <<"a", "1", "1", " ", "1", "'", "s">>, <<"1", " ", " ", "x", "1">>,
            <<"a", "a", "a", "a", "a", "s", " ", "a", "a", "s", " ">>}

-----------------------------------------------------------------------------
(* Model files.                                                            *)

MCModel0 == [tokens |-> <<<<"a">>, <<"s">>>>, merges |-> <<<<<<"a">>, <<"s">>>>>>]
NoModel  == [tokens |-> <<>>, merges |-> <<>>]
MCModels == {NoModel, MCModel0, MCModel1, MCModel2, MCModel3}

MCFields == [vocab_size |-> "u32", n_embd |-> "u32", tied |-> "bool"]

Entry(k, t, v)       == [key |-> k, type |-> t, val |-> v]
Array(k, e, v)       == [key |-> k, type |-> "arr", elem |-> e, val |-> v]
Arch(a)              == Entry(<<"general", "architecture">>, "str", a)
Align(n)             == Entry(<<"general", "alignment">>, "u32", n)
Embd(a, t, n)        == Entry(<<a, "n_embd">>, t, n)
Vocabulary(m)        == <<Array(<<"tokenizer", "tokens">>, "str", m.tokens),
                          Array(<<"tokenizer", "merges">>, "str", m.merges)>>
Tensor(n, ne, o)     == [name |-> n, ne |-> ne, type |-> 0, offset |-> o]
Plain(kv) == [magic |-> TRUE, version |-> 3, kv |-> kv, data |-> 4, end |-> 0,
              tensors |-> <<Tensor("w", <<2>>, 0), Tensor("token_embd.weight", <<1, 2>>, 2)>>]

(* The file with its data, and cut anywhere.                               *)
Full(f)  == Len(Listed(f)) + f.data
Whole(f) == [f EXCEPT !.end = Full(f)]
CutFiles(f) == {[f EXCEPT !.end = e] : e \in 0..Full(f)}

(* Five entries in every order in which the tokens come before the merges. *)
Orders == {o \in [1..5 -> 1..5] : /\ \A j, k \in 1..5 : o[j] = o[k] => j = k
                                  /\ \A j, k \in 1..5 : o[j] = 4 /\ o[k] = 5 => j < k}
Five    == <<Arch("q"), Align(3), Embd("q", "u32", 7)>> \o Vocabulary(MCModel0)
Ordered == {Plain(<<Five[o[1]], Five[o[2]], Five[o[3]], Five[o[4]], Five[o[5]]>>) : o \in Orders}

(* Other keys, types and sections; and files that are refused.             *)
Rich == Plain(<<Embd("q", "u32", 7), Align(0), Embd("p", "u32", 8), Arch("q"),
                Embd("q", "u32", 6), Entry(<<"q", "tied">>, "bool", 1),
                Entry(<<"q", "vocab_size">>, "u32", 5),
                Array(<<"q", Sections>>, "u32", <<1, 2, 3, 4, 5>>),
                Array(<<"q", "other">>, "f32", <<1, 2>>), Embd("q", "f32", 9)>>)
Refused == {Whole([Rich EXCEPT !.magic = FALSE]), Whole([Rich EXCEPT !.version = 1]),
            Whole([Rich EXCEPT !.kv = <<>>]), Whole([Rich EXCEPT !.tensors = <<>>]),
            Whole([Rich EXCEPT !.tensors[1].ne = <<1, 1, 1, 1, 1>>]),
            Whole([Rich EXCEPT !.tensors[2].offset = 9]),
            Whole([Rich EXCEPT !.kv[8].elem = "f32"]), Whole([Rich EXCEPT !.kv[9].elem = "none"]),
            Whole([Rich EXCEPT !.kv[1].type = "none"])}

MCFollowed == {Whole(Plain(<<Arch("q")>> \o Vocabulary(m))) : m \in {MCModel1, MCModel2, MCModel3}}
MCFiles == {Whole(f) : f \in Ordered} \cup Refused \cup MCFollowed
           \cup CutFiles(Plain(Five)) \cup CutFiles(Rich)
=============================================================================
