------------------------------- MODULE MCYaml -------------------------------
(***************************************************************************)
(* Inputs for YamlConvert.  The texts are all the short ones over          *)
(* alphabets that bring one part of the grammar together, after the prefix *)
(* that leads there.  In the values every short string is the document, an *)
(* entry, a key and a member, and collections nest.                        *)
(***************************************************************************)
EXTENDS YamlConvert

CONSTANTS TextLen,  \* length of the longest text
          StrLen    \* length of the longest string in a value

Upto(chars, n) == UNION {[1..k -> chars] : k \in 0..n}
After(prefixes, texts) == {prefix \o text : prefix \in prefixes, text \in texts}

BlockTexts == Upto({"a", "-", ":", "?", " ", "\n"}, TextLen)
FlowTexts == Upto({"a", "[", "]", "{", "}", ",", ":", "?", " "}, TextLen - 1)
KeyedTexts == After({<<"{", "a", ":">>, <<"[", "a", ":", " ">>},
                    Upto({"a", "}", "]", ",", ":", " ", "\n"}, TextLen - 2))
QuotedTexts == After({<<"\"">>, <<"'">>},
                     Upto({"a", "\"", "'", "\\", "n", "\n", " ", ":"}, TextLen - 2))
EscapeTexts == After({<<"\"", "\\">>}, Upto({"x", "0", "1", "u", "\"", "\n", " "}, TextLen - 1))
BlockScalarTexts == After({<<"|">>, <<">">>, <<"-", " ", "|">>},
                          Upto({"a", " ", "\n", "-", "1"}, TextLen - 1))
PropertyTexts == Upto({"&", "*", "!", "a", " ", "-", "\n"}, TextLen - 1)
TagTexts == After({<<"!", "<">>, <<"!", "!">>, <<"!", "a", "!">>},
                  Upto({"a", ">", "%", "0", "int", " ", "1"}, TextLen - 2))
DirectiveTexts ==
  After({<<"%", "YAML", " ">>, <<"%", "TAG", " ", "!">>,
         <<"%", "YAML", " ", "1", ".", "1", "\n">>,
         <<"%", "TAG", " ", "!", " ", "a", "\n">>},
        Upto({"1", ".", "!", "a", " ", "\n", "#"}, TextLen - 2)
          \union After({<<"-", "-", "-">>, <<".", ".", ".">>}, Upto({"a", " ", "\n", "!"}, 3)))
DocumentTexts == After({<<"-", "-", "-">>, <<"a", "\n", ".", ".", ".">>, <<"#", "a">>},
                       Upto({"a", "\n", "-", ":", "#", " "}, TextLen - 2))

MCTexts == UNION {BlockTexts, FlowTexts, KeyedTexts, QuotedTexts, EscapeTexts,
                  BlockScalarTexts, PropertyTexts, TagTexts, DirectiveTexts, DocumentTexts}

-----------------------------------------------------------------------------
Strings == Upto({"a", " ", "\n", ":", "'", "#", "-"}, StrLen)
             \union Upto({"a", "\"", "\\", "\t", "SOH", "?", "[", "}", ",", "&", "*", "!",
                          "|", "%", "grave", "~", "null", "true", "n", "0", "."}, 2)
             \union {<<"-", "-", "-">>, <<".", ".", ".">>, <<"-", "-", "-", "a">>}
Num == Scalar("num", <<"1">>)
Key == <<"a">>
LongKey == <<"\n", "a">>  \* needs the "?" of a complex key

Leaves == {Null, Num, Str(<<>>), Str(<<"a", "\n", "a">>), Object(<<>>), List(<<>>)}
Nested(inner) ==
  UNION {{List(<<v>>), List(<<v, Num>>), Object(Key :> v), Object(LongKey :> v),
          Object(Key :> Num @@ <<"b">> :> v), Object(LongKey :> v @@ <<"b">> :> Num)} :
           v \in inner}

MCValues ==
  UNION {{Str(s), List(<<Str(s), Num>>), Object(s :> Num), Object(Key :> Str(s))} :
           s \in Strings}
    \union Leaves \union Nested(Leaves) \union Nested(Nested(Leaves))

=============================================================================
