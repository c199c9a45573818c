---------------------------- MODULE YamlScanner ----------------------------
(***************************************************************************)
(* The scanner of the yaml package (yaml/scannerc.go): characters to       *)
(* tokens.  The scanner is sequential, so it is a set of operators on the  *)
(* record that stands for yaml_parser_t; a loop of the code is a recursive *)
(* operator or the length of the run of characters it consumes.            *)
(*                                                                         *)
(* The input is a sequence of characters; a word such as "YAML" is one     *)
(* character of it, its letters are never told apart.  The input buffer    *)
(* is read through At, which yields Eof past the end as the zero bytes of  *)
(* the buffer do.  Texts of comments are dropped: YAMLToJSON reads none.   *)
(***************************************************************************)
EXTENDS Integers, Sequences, SequencesExt, TLC

CONSTANT MaxDepth  \* max_flow_level and max_indents (10000 in the code)

ASSUME MaxDepthAssumption == MaxDepth \in Nat \ {0}

Eof == "eof"
Words == {"a", "b", "c", "n", "t", "x", "YAML", "TAG", "str", "bool", "int",
          "float", "null", "true", "false", "inf"}
Digits == {"0", "1"}
is_alpha(c) == c \in Words \union Digits \union {"-"}

\* as_hex, on the hexadecimal digits the inputs use.
as_hex == [c \in {"0", "1", "a", "b", "c"} |->
             CASE c = "0" -> 0 [] c = "1" -> 1
               [] c = "a" -> 10 [] c = "b" -> 11 [] c = "c" -> 12]
is_hex(c) == c \in DOMAIN as_hex
is_blank(c) == c \in {" ", "\t"}
is_break(c) == c = "\n"
is_breakz(c) == c \in {"\n", Eof}
is_blankz(c) == is_blank(c) \/ is_breakz(c)

Indicators == {"-", "?", ":", ",", "[", "]", "{", "}", "#", "&", "*", "!",
               "|", ">", "'", "\"", "%", "@", "grave"}
FlowIndicators == {",", "?", "[", "]", "{", "}"}
UriChars == {";", "/", "?", ":", "@", "&", "=", "+", "$", ",", ".", "!", "~",
             "*", "'", "(", ")", "[", "]", "%"}

\* The character k places after the next one.
At(s, k) == IF s.pos + k <= Len(s.input) THEN s.input[s.pos + k] ELSE Eof

\* How many characters come before the first one that stops the run: every
\* run stops at Eof.
RunLen(s, Stop(_)) ==
  CHOOSE k \in 0..(Len(s.input) - s.pos + 1) :
    Stop(k) /\ \A j \in 0..(k - 1) : ~Stop(j)

Taken(s, n) == SubSeq(s.input, s.pos, s.pos + n - 1)

\* skip and read, n times, on one line.
Skip(s, n) ==
  [s EXCEPT !.pos = @ + n, !.column = @ + n,
            !.newlines = IF \E k \in 0..(n - 1) : ~is_blank(At(s, k)) THEN 0 ELSE @]

\* read, n times: text is the buffer the scan collects characters in.
Read(s, n) == [Skip(s, n) EXCEPT !.text = @ \o Taken(s, n)]
Put(s, chars) == [s EXCEPT !.text = @ \o chars]

\* skip, skip_line and read_line over n blanks and line breaks.
SkipBlanks(s, n) ==
  LET breaks == {k \in 0..(n - 1) : is_break(At(s, k))}
  IN  IF breaks = {} THEN Skip(s, n)
      ELSE LET last == CHOOSE k \in breaks : \A j \in breaks : j <= k
           IN  [s EXCEPT !.pos = @ + n, !.column = n - 1 - last,
                         !.line = @ + Cardinality(breaks),
                         !.newlines = @ + Cardinality(breaks)]

BlankRun(s) == RunLen(s, LAMBDA k : ~is_blank(At(s, k)) /\ ~is_break(At(s, k)))
Blanks(s) == RunLen(s, LAMBDA k : ~is_blank(At(s, k)))
LineLen(s) == RunLen(s, LAMBDA k : is_breakz(At(s, k)))
AlphaLen(s) == RunLen(s, LAMBDA k : ~is_alpha(At(s, k)))
NewLines(n) == [k \in 1..n |-> "\n"]
Breaks(s, n) == Cardinality({k \in 0..(n - 1) : is_break(At(s, k))})

AtDocumentIndicator(s) ==
  /\ s.column = 0
  /\ \E c \in {"-", "."} : \A k \in 0..2 : At(s, k) = c
  /\ is_blankz(At(s, 3))

-----------------------------------------------------------------------------
\* Errors: the first one stops the scan.  "panic" is a Go runtime panic.
Then(s, Op(_)) == IF s.error # "" THEN s ELSE Op(s)
Error(s, problem) == [s EXCEPT !.error = problem]
Panic(s) == Error(s, "panic")

Token(typ) == [typ |-> typ, value |-> <<>>, suffix |-> <<>>, style |-> ""]

NoKey == [possible |-> FALSE, required |-> FALSE, token |-> 0, line |-> 0,
          pos |-> 0, column |-> 0]

Scanner(input) ==
  [input |-> input, pos |-> 1, line |-> 0, column |-> 0, newlines |-> 0,
   tokens |-> <<>>, parsed |-> 0, available |-> FALSE,
   started |-> FALSE, ended |-> FALSE,
   indent |-> 0, indents |-> <<>>, flow |-> 0,
   allowed |-> FALSE, keys |-> <<>>, byTok |-> <<>>, text |-> <<>>, error |-> ""]

\* The number the next token gets.
TokenNumber(s) == s.parsed + Len(s.tokens)

\* yaml_insert_token: at pos in the queue, or at its end when pos < 0.
InsertToken(s, pos, token) ==
  IF pos > Len(s.tokens) THEN Panic(s)
  ELSE [s EXCEPT !.tokens = IF pos < 0 THEN Append(@, token)
                            ELSE InsertAt(@, pos + 1, token)]
AppendToken(s, token) == InsertToken(s, -1, token)

-----------------------------------------------------------------------------
\* Simple keys: the places where a key without '?' may have begun.
Without(f, x) == [y \in DOMAIN f \ {x} |-> f[y]]

\* yaml_simple_key_is_valid, the part that changes the key: one that began
\* on an earlier line, or too far back, is no longer possible.
ExpireKey(s, i) ==
  IF i > Len(s.keys) THEN Panic(s)
  ELSE LET key == s.keys[i]
       IN  IF key.possible /\ (key.line < s.line \/ key.pos + 1024 < s.pos)
           THEN IF key.required THEN Error(s, "could not find expected ':'")
                ELSE [s EXCEPT !.keys[i].possible = FALSE]
           ELSE s

RemoveSimpleKey(s) ==
  LET i == Len(s.keys)
  IN  IF i = 0 THEN Panic(s)
      ELSE IF ~s.keys[i].possible THEN s
      ELSE IF s.keys[i].required THEN Error(s, "could not find expected ':'")
      ELSE [s EXCEPT !.keys[i].possible = FALSE,
                     !.byTok = Without(@, s.keys[i].token)]

SaveSimpleKey(s) ==
  LET key == [possible |-> TRUE,
              required |-> s.flow = 0 /\ s.indent = s.column,
              token |-> TokenNumber(s),
              line |-> s.line, pos |-> s.pos, column |-> s.column]
  IN  IF ~s.allowed THEN s
      ELSE Then(RemoveSimpleKey(s), LAMBDA r :
             [r EXCEPT !.keys[Len(r.keys)] = key,
                       !.byTok = (key.token :> Len(r.keys)) @@ @])

IncreaseFlowLevel(s) ==
  LET t == [s EXCEPT !.keys = Append(@, [NoKey EXCEPT !.token = TokenNumber(s),
                                           !.line = s.line, !.pos = s.pos,
                                           !.column = s.column]),
                     !.flow = @ + 1]
  IN  IF t.flow > MaxDepth THEN Error(t, "exceeded max depth") ELSE t

DecreaseFlowLevelUnguarded(s) ==
  [s EXCEPT !.flow = @ - 1,
            !.byTok = Without(@, Last(s.keys).token),
            !.keys = Front(@)]

DecreaseFlowLevel(s) ==
  IF s.flow = 0 THEN s
  ELSE [s EXCEPT !.flow = @ - 1,
                 !.byTok = Without(@, Last(s.keys).token),
                 !.keys = Front(@)]

-----------------------------------------------------------------------------
\* Indentation: a deeper column opens a block, a lesser one closes blocks.
RollIndent(s, column, number, typ) ==
  IF s.flow > 0 \/ s.indent >= column THEN s
  ELSE LET t == [s EXCEPT !.indents = Append(@, s.indent), !.indent = column]
       IN  IF Len(t.indents) > MaxDepth THEN Error(t, "exceeded max depth")
           ELSE InsertToken(t, IF number > -1 THEN number - s.parsed ELSE number,
                            Token(typ))

RECURSIVE UnrollIndent(_, _)
UnrollIndent(s, column) ==
  IF s.flow > 0 \/ s.indent <= column THEN s
  ELSE IF s.indents = <<>> THEN Panic(s)
  ELSE UnrollIndent(AppendToken([s EXCEPT !.indent = Last(s.indents),
                                          !.indents = Front(@)],
                                Token("BLOCK-END")), column)

-----------------------------------------------------------------------------
\* Comments: a run of comment lines ends before the break that follows it.
RECURSIVE ScanComments(_)
ScanComments(s) ==
  LET t == Skip(s, LineLen(s))
      k == BlankRun(t)
  IN  IF At(t, k) = "#" THEN ScanComments(SkipBlanks(t, k)) ELSE t

ScanLineComment(s) ==
  IF s.newlines = 0 /\ At(s, Blanks(s)) = "#" THEN Skip(s, LineLen(s)) ELSE s

\* Tabs are blanks in flow context and where no simple key may start.
RECURSIVE ScanToNextToken(_)
ScanToNextToken(s) ==
  LET tabs == s.flow > 0 \/ ~s.allowed
      t == Skip(s, RunLen(s, LAMBDA k : ~(At(s, k) = " " \/ (tabs /\ At(s, k) = "\t"))))
      u == IF At(t, 0) = "#" THEN ScanComments(t) ELSE t
  IN  IF is_break(At(u, 0))
      THEN ScanToNextToken([SkipBlanks(u, 1) EXCEPT !.allowed = @ \/ s.flow = 0])
      ELSE u

-----------------------------------------------------------------------------
\* Tokens of indicators.
FetchStreamStart(s) ==
  AppendToken([s EXCEPT !.indent = -1, !.keys = Append(@, NoKey),
                        !.allowed = TRUE, !.started = TRUE],
              Token("STREAM-START"))

\* A directive, a document indicator and the end of the stream close every
\* block and leave no simple key behind.
CloseBlocks(s) ==
  Then(RemoveSimpleKey(UnrollIndent(s, -1)),
       LAMBDA r : [r EXCEPT !.allowed = FALSE])

FetchStreamEnd(s) ==
  LET t == IF s.column = 0 THEN s ELSE [s EXCEPT !.column = 0, !.line = @ + 1]
  IN  Then(CloseBlocks(t), LAMBDA r : AppendToken(r, Token("STREAM-END")))

FetchDocumentIndicator(s, typ) ==
  Then(CloseBlocks(s), LAMBDA r : AppendToken(Skip(r, 3), Token(typ)))

\* One character that is a token.
Indicator(s, typ) == AppendToken(Skip(s, 1), Token(typ))

FetchFlowCollectionStart(s, typ) ==
  Then(Then(SaveSimpleKey(s), IncreaseFlowLevel),
       LAMBDA r : Indicator([r EXCEPT !.allowed = TRUE], typ))

FetchFlowCollectionEnd(s, typ) ==
  Then(RemoveSimpleKey(s),
       LAMBDA r : Indicator([DecreaseFlowLevel(r) EXCEPT !.allowed = FALSE], typ))

FetchFlowEntry(s) ==
  Then(RemoveSimpleKey(s),
       LAMBDA r : Indicator([r EXCEPT !.allowed = TRUE], "FLOW-ENTRY"))

\* Where a block collection may begin: it is opened unless it already is.
OpenBlock(s, typ) ==
  IF s.flow > 0 THEN s
  ELSE IF ~s.allowed THEN Error(s, "not allowed in this context")
  ELSE RollIndent(s, s.column, -1, typ)

FetchBlockEntry(s) ==
  Then(Then(OpenBlock(s, "BLOCK-SEQUENCE-START"), RemoveSimpleKey),
       LAMBDA r : Indicator([r EXCEPT !.allowed = TRUE], "BLOCK-ENTRY"))

FetchKey(s) ==
  Then(Then(OpenBlock(s, "BLOCK-MAPPING-START"), RemoveSimpleKey),
       LAMBDA r : Indicator([r EXCEPT !.allowed = r.flow = 0], "KEY"))

\* ':' after a simple key puts the KEY, and the start of the mapping, before
\* the tokens of the key, which must still be in the queue.
FetchValue(s) ==
  LET i == Len(s.keys)
      WithKey(r) ==
        LET key == r.keys[i]
            t == RollIndent(InsertToken(r, key.token - r.parsed, Token("KEY")),
                            key.column, key.token, "BLOCK-MAPPING-START")
        IN  [t EXCEPT !.keys[i].possible = FALSE,
                      !.byTok = Without(@, key.token), !.allowed = FALSE]
      Complex(r) ==
        Then(OpenBlock(r, "BLOCK-MAPPING-START"),
             LAMBDA t : [t EXCEPT !.allowed = t.flow = 0])
  IN  Then(Then(ExpireKey(s, i),
                LAMBDA r : IF r.keys[i].possible THEN WithKey(r) ELSE Complex(r)),
           LAMBDA r : Indicator(r, "VALUE"))

-----------------------------------------------------------------------------
\* Anchors, aliases, tags and directives.
ScanAnchor(s, typ) ==
  LET t == Read(Skip(s, 1), AlphaLen(Skip(s, 1)))
  IN  IF \/ t.text = <<>>
         \/ ~is_blankz(At(t, 0)) /\ At(t, 0) \notin {"?", ":", ",", "]", "}", "%", "@", "grave"}
      THEN Error(t, "did not find expected alphabetic or numeric character")
      ELSE AppendToken(t, [Token(typ) EXCEPT !.value = t.text])

\* "!", a run of letters and possibly another "!".
ScanTagHandle(s, directive) ==
  LET t == Read(s, 1 + AlphaLen(Skip(s, 1)))
  IN  IF At(s, 0) # "!" THEN Error(s, "did not find expected '!'")
      ELSE IF At(t, 0) = "!" THEN Read(t, 1)
      ELSE IF directive /\ t.text # <<"!">> THEN Error(t, "did not find expected '!'")
      ELSE t

\* The character with code v; codes that no property tells apart are one.
CharOf(v) == CASE v = 1 -> "SOH" [] v = 9 -> "\t" [] v = 10 -> "\n" [] OTHER -> "other"

\* width, from the first half of the leading octet of a UTF-8 sequence.
width(high) == CASE high < 8 -> 1 [] high \in 8..11 -> 0 [] high \in 12..13 -> 2
                 [] high = 14 -> 3 [] high = 15 -> 4

RECURSIVE ScanUriEscapes(_, _)
ScanUriEscapes(s, w) ==
  LET high == as_hex[At(s, 1)]
      left == (IF w = 0 THEN width(high) ELSE w) - 1
      t == Skip(s, 3)
  IN  IF ~(At(s, 0) = "%" /\ is_hex(At(s, 1)) /\ is_hex(At(s, 2)))
      THEN Error(s, "did not find URI escaped octet")
      ELSE IF left < 0 THEN Error(s, "found an incorrect leading UTF-8 octet")
      ELSE IF w > 0 /\ high \notin 8..11
      THEN Error(s, "found an incorrect trailing UTF-8 octet")
      ELSE IF left > 0 THEN ScanUriEscapes(t, left)
      ELSE Put(t, <<IF w > 0 THEN "other" ELSE CharOf(16 * high + as_hex[At(s, 2)])>>)

\* The characters of a URI after those in text already.
RECURSIVE UriFrom(_)
UriFrom(s) ==
  IF At(s, 0) = "%" THEN Then(ScanUriEscapes(s, 0), UriFrom)
  ELSE IF is_alpha(At(s, 0)) \/ At(s, 0) \in UriChars THEN UriFrom(Read(s, 1))
  ELSE s

ScanTagUri(s, head) ==
  LET t == UriFrom([s EXCEPT !.text = IF head = <<>> THEN <<>> ELSE Tail(head)])
  IN  IF t.error = "" /\ head = <<>> /\ t.pos = s.pos
      THEN Error(t, "did not find expected tag URI") ELSE t

\* !<uri>, !handle!suffix, !suffix or !, which ends at a blank.
ScanTag(s) ==
  LET End(t, handle, suffix) ==
        IF ~is_blankz(At(t, 0)) THEN Error(t, "did not find expected whitespace")
        ELSE AppendToken(t, [Token("TAG") EXCEPT !.value = handle, !.suffix = suffix])
      Verbatim ==
        Then(ScanTagUri(Skip(s, 2), <<>>), LAMBDA t :
          IF At(t, 0) # ">" THEN Error(t, "did not find the expected '>'")
          ELSE End(Skip(t, 1), <<>>, t.text))
      WithHandle(t) ==
        Then(ScanTagUri(t, <<>>), LAMBDA u : End(u, t.text, u.text))
      NoHandle(t) ==
        Then(ScanTagUri(t, t.text), LAMBDA u :
          IF u.text = <<>> THEN End(u, <<>>, <<"!">>) ELSE End(u, <<"!">>, u.text))
  IN  IF At(s, 1) = "<" THEN Verbatim
      ELSE Then(ScanTagHandle(s, FALSE), LAMBDA t :
             IF Len(t.text) > 1 /\ Last(t.text) = "!" THEN WithHandle(t)
             ELSE NoHandle(t))

Fresh(s) == [s EXCEPT !.text = <<>>]

ScanVersionNumber(s) ==
  LET k == RunLen(s, LAMBDA j : At(s, j) \notin Digits)
  IN  IF k \in 1..2 THEN Read(Fresh(s), k)
      ELSE Error(s, "did not find expected version number")

ScanVersionDirectiveValue(s) ==
  Then(ScanVersionNumber(s), LAMBDA major :
    IF At(major, 0) # "." THEN Error(major, "did not find expected digit or '.'")
    ELSE Then(ScanVersionNumber(Skip(major, 1)), LAMBDA minor :
      AppendToken(minor, [Token("VERSION-DIRECTIVE") EXCEPT
                            !.value = major.text, !.suffix = minor.text])))

ScanTagDirectiveValue(s) ==
  Then(ScanTagHandle(Fresh(s), TRUE), LAMBDA h :
    IF ~is_blank(At(h, 0)) THEN Error(h, "did not find expected whitespace")
    ELSE Then(ScanTagUri(Skip(h, Blanks(h)), <<>>), LAMBDA p :
      IF ~is_blankz(At(p, 0)) THEN Error(p, "did not find expected whitespace")
      ELSE AppendToken(p, [Token("TAG-DIRECTIVE") EXCEPT
                             !.value = h.text, !.suffix = p.text])))

\* The rest of a line: blanks, a comment, the break.
EndOfLine(s) ==
  LET t == Skip(s, Blanks(s))
      u == IF At(t, 0) = "#" THEN Skip(t, LineLen(t)) ELSE t
  IN  IF ~is_breakz(At(u, 0)) THEN Error(u, "did not find expected line break")
      ELSE IF is_break(At(u, 0)) THEN SkipBlanks(u, 1) ELSE u

ScanDirectiveName(s) ==
  LET t == Read(Fresh(s), AlphaLen(s))
  IN  IF t.text = <<>> \/ ~is_blankz(At(t, 0))
      THEN Error(t, "could not find expected directive name") ELSE t

ScanDirective(s) ==
  LET Value(t) ==
        LET v == Skip(t, Blanks(t))
        IN  CASE t.text = <<"YAML">> -> ScanVersionDirectiveValue(v)
              [] t.text = <<"TAG">> -> ScanTagDirectiveValue(v)
              [] OTHER -> Error(t, "found unknown directive name")
  IN  Then(Then(ScanDirectiveName(Skip(s, 1)), Value), EndOfLine)

FetchDirective(s) == Then(CloseBlocks(s), ScanDirective)

-----------------------------------------------------------------------------
\* Block scalars.  The state of the scan carries the indentation found so
\* far and the line breaks not yet put into the text.
RECURSIVE ScanBlockBreaks(_, _, _, _)
ScanBlockBreaks(s, indent, breaks, deepest) ==
  LET Inside(column) == indent = 0 \/ column < indent
      t == Skip(s, RunLen(s, LAMBDA k : ~(Inside(s.column + k) /\ At(s, k) = " ")))
      most == Max({deepest, t.column})
  IN  IF Inside(t.column) /\ At(t, 0) = "\t"
      THEN [s |-> Error(t, "found a tab character"), indent |-> indent, breaks |-> breaks]
      ELSE IF is_break(At(t, 0))
      THEN ScanBlockBreaks(SkipBlanks(t, 1), indent, breaks + 1, most)
      ELSE [s |-> t, breaks |-> breaks,
            indent |-> IF indent = 0 THEN Max({most, s.indent + 1, 1}) ELSE indent]

\* One line of content and the breaks after it.
RECURSIVE ScanBlockLines(_, _, _, _)
ScanBlockLines(b, literal, leading, blankLine) ==
  LET s == b.s
      blank == is_blank(At(s, 0))
      fold == ~literal /\ ~blankLine /\ ~blank /\ leading = 1
      gap == (IF fold THEN IF b.breaks = 0 THEN <<" ">> ELSE <<>> ELSE NewLines(leading))
               \o NewLines(b.breaks)
      t == Read(Put(s, gap), LineLen(s))
      break == IF is_break(At(t, 0)) THEN 1 ELSE 0
  IN  IF s.error # "" \/ s.column # b.indent \/ At(s, 0) = Eof
      THEN [s |-> s, leading |-> leading, trailing |-> b.breaks]
      ELSE ScanBlockLines(ScanBlockBreaks(SkipBlanks(t, break), b.indent, 0, 0),
                          literal, break, blank)

\* The header: chomping and indentation indicators in either order.
BlockHeader(s) ==
  LET chomp == {k \in 0..1 : At(s, k) \in {"+", "-"} /\ (k = 0 \/ At(s, 0) \in Digits)}
      digit == {k \in 0..1 : At(s, k) \in Digits /\ (k = 0 \/ At(s, 0) \in {"+", "-"})}
      Char(ks) == IF ks = {} THEN "" ELSE At(s, CHOOSE k \in ks : TRUE)
  IN  [chomping |-> Char(chomp), increment |-> Char(digit),
       length |-> Cardinality(chomp) + Cardinality(digit)]

ScanBlockScalar(s, literal) ==
  LET t == Skip(Fresh(s), 1)
      header == BlockHeader(t)
      indent == IF header.increment = "" THEN 0
                ELSE Max({s.indent, 0}) + as_hex[header.increment]
      Body(u) ==
        LET b == ScanBlockLines(ScanBlockBreaks(u, indent, 0, 0), literal, 0, FALSE)
            tail == (IF header.chomping # "-" THEN NewLines(b.leading) ELSE <<>>)
                      \o (IF header.chomping = "+" THEN NewLines(b.trailing) ELSE <<>>)
        IN  Then(Put(b.s, tail), LAMBDA v :
              AppendToken(v, [Token("SCALAR") EXCEPT !.value = v.text,
                                !.style = IF literal THEN "literal" ELSE "folded"]))
  IN  IF header.increment = "0"
      THEN Error(s, "found an indentation indicator equal to 0")
      ELSE Then(EndOfLine(Skip(t, header.length)), Body)

FetchBlockScalar(s, literal) ==
  Then(RemoveSimpleKey(s),
       LAMBDA r : ScanBlockScalar([r EXCEPT !.allowed = TRUE], literal))

-----------------------------------------------------------------------------
\* Quoted scalars.
Escapes == [c \in {"0", "a", "b", "t", "\t", "n", "v", "f", "r", "e", " ", "\"",
                   "'", "\\", "N", "_", "L", "P"} |->
              CASE c = "t" -> "\t" [] c = "n" -> "\n"
                [] c \in {"\t", " ", "\"", "'", "\\"} -> c [] OTHER -> "other"]
CodeLength == [c \in {"x", "u", "U"} |->
                 CASE c = "x" -> 2 [] c = "u" -> 4 [] c = "U" -> 8]

\* The value of the hexadecimal digits, saturated past every legal code.
HexValue(digits) ==
  FoldLeft(LAMBDA v, c : IF v > 1114111 THEN v ELSE 16 * v + as_hex[c], 0, digits)

ScanEscape(s) ==
  LET c == At(s, 1)
      t == Skip(s, 2)
      digits == Taken(t, CodeLength[c])
      v == HexValue(digits)
  IN  IF c \in DOMAIN Escapes THEN Put(t, <<Escapes[c]>>)
      ELSE IF c \notin DOMAIN CodeLength THEN Error(s, "found unknown escape character")
      ELSE IF \E k \in 0..(CodeLength[c] - 1) : ~is_hex(At(t, k))
      THEN Error(s, "did not find expected hexdecimal number")
      ELSE IF v \in 55296..57343 \/ v > 1114111
      THEN Error(s, "found invalid Unicode character escape code")
      ELSE Skip(Put(t, <<CharOf(v)>>), CodeLength[c])

\* A run of n blanks and breaks inside a scalar, as its value has it: one
\* break is a space, of more the first one is dropped.
Folded(s, n) ==
  LET b == Breaks(s, n)
  IN  IF b = 0 THEN Taken(s, n) ELSE IF b = 1 THEN <<" ">> ELSE NewLines(b - 1)

\* quote is the character that ends the scalar; lineStart: a check for a
\* document indicator and for the end comes first.
RECURSIVE ScanQuoted(_, _, _)
ScanQuoted(s, quote, lineStart) ==
  LET c == At(s, 0)
      n == BlankRun(s)
      escapedBreak == Skip(s, 1)
      m == BlankRun(escapedBreak)
      skipped == SkipBlanks(escapedBreak, m)
  IN  CASE s.error # "" -> s
        [] lineStart /\ AtDocumentIndicator(s) ->
             Error(s, "found unexpected document indicator")
        [] c = Eof -> Error(s, "found unexpected end of stream")
        [] is_blankz(c) ->
             ScanQuoted(SkipBlanks(Put(s, Folded(s, n)), n), quote, TRUE)
        [] c = quote /\ c = "'" /\ At(s, 1) = "'" ->
             ScanQuoted(Skip(Put(s, <<"'">>), 2), quote, FALSE)
        [] c = quote -> Skip(s, 1)
        [] quote = "\"" /\ c = "\\" /\ is_break(At(s, 1)) ->
             IF At(SkipBlanks(escapedBreak, 1), 0) = quote
             THEN Skip(SkipBlanks(escapedBreak, 1), 1)
             ELSE ScanQuoted(Put(skipped, NewLines(Breaks(escapedBreak, m) - 1)), quote, TRUE)
        [] quote = "\"" /\ c = "\\" -> ScanQuoted(ScanEscape(s), quote, FALSE)
        [] OTHER -> ScanQuoted(Read(s, 1), quote, FALSE)

ScanFlowScalar(s, quote) ==
  Then(ScanQuoted(Skip(s, 1), quote, TRUE), LAMBDA t :
    AppendToken(t, [Token("SCALAR") EXCEPT !.value = t.text,
                      !.style = IF quote = "'" THEN "single" ELSE "double"]))

-----------------------------------------------------------------------------
\* Plain scalars: gap is what joins the next line or word to the text,
\* newLine whether a break was seen since the last character of it.
RECURSIVE PlainFrom(_, _, _)
PlainFrom(s, gap, newLine) ==
  LET Stop(k) == \/ is_blankz(At(s, k))
                 \/ At(s, k) = ":" /\ is_blankz(At(s, k + 1))
                 \/ s.flow > 0 /\ At(s, k) \in FlowIndicators
      n == RunLen(s, Stop)
      t == Read(Put(s, IF n > 0 THEN gap ELSE <<>>), n)
      m == BlankRun(t)
      u == SkipBlanks(t, m)
      BadTab(k) == /\ At(t, k) = "\t"
                   /\ LET before == {j \in 0..(k - 1) : is_break(At(t, j))}
                      IN  before # {} /\ k - Max(before) - 1 < s.indent + 1
      End(r, broken) == [r EXCEPT !.allowed = @ \/ broken]
  IN  IF AtDocumentIndicator(s) \/ At(s, 0) = "#" THEN End(s, newLine)
      ELSE IF m = 0 THEN End(t, newLine /\ n = 0)
      ELSE IF \E k \in 0..(m - 1) : BadTab(k)
      THEN Error(t, "found a tab character that violates indentation")
      ELSE IF s.flow = 0 /\ u.column < s.indent + 1 THEN End(u, Breaks(t, m) > 0)
      ELSE PlainFrom(u, Folded(t, m), Breaks(t, m) > 0)

ScanPlainScalar(s) ==
  Then(PlainFrom(s, <<>>, FALSE), LAMBDA t :
    AppendToken(t, [Token("SCALAR") EXCEPT !.value = t.text, !.style = "plain"]))

\* fetch_anchor, fetch_tag, fetch_flow_scalar and fetch_plain_scalar: the
\* token may be a simple key, and none may follow it.
Keyable(s, Scan(_)) ==
  Then(SaveSimpleKey(s), LAMBDA r : Scan(Fresh([r EXCEPT !.allowed = FALSE])))

-----------------------------------------------------------------------------
\* The dispatcher.
FetchContent(s) ==
  LET c == At(s, 0)
      spaced == is_blankz(At(s, 1))
  IN  CASE c = "[" -> FetchFlowCollectionStart(s, "FLOW-SEQUENCE-START")
        [] c = "{" -> FetchFlowCollectionStart(s, "FLOW-MAPPING-START")
        [] c = "]" -> FetchFlowCollectionEnd(s, "FLOW-SEQUENCE-END")
        [] c = "}" -> FetchFlowCollectionEnd(s, "FLOW-MAPPING-END")
        [] c = "," -> FetchFlowEntry(s)
        [] c = "-" /\ spaced -> FetchBlockEntry(s)
        [] c = "?" /\ (s.flow > 0 \/ spaced) -> FetchKey(s)
        [] c = ":" /\ (s.flow > 0 \/ spaced) -> FetchValue(s)
        [] c = "*" -> Keyable(s, LAMBDA r : ScanAnchor(r, "ALIAS"))
        [] c = "&" -> Keyable(s, LAMBDA r : ScanAnchor(r, "ANCHOR"))
        [] c = "!" -> Keyable(s, ScanTag)
        [] c \in {"|", ">"} /\ s.flow = 0 -> FetchBlockScalar(s, c = "|")
        [] c \in {"'", "\""} -> Keyable(s, LAMBDA r : ScanFlowScalar(r, c))
        [] \/ ~is_blankz(c) /\ c \notin Indicators
           \/ c \in {"-", "?", ":"} /\ ~spaced -> Keyable(s, ScanPlainScalar)
        [] OTHER -> Error(s, "found character that cannot start any token")

FetchTokenHere(s) ==
  CASE At(s, 0) = Eof -> FetchStreamEnd(s)
    [] s.column = 0 /\ At(s, 0) = "%" -> FetchDirective(s)
    [] AtDocumentIndicator(s) ->
         FetchDocumentIndicator(s, IF At(s, 0) = "-" THEN "DOCUMENT-START"
                                   ELSE "DOCUMENT-END")
    [] OTHER -> Then(FetchContent(s), LAMBDA t :
                  IF Last(t.tokens).typ = "BLOCK-ENTRY" THEN t ELSE ScanLineComment(t))

FetchNextToken(s) ==
  IF ~s.started THEN FetchStreamStart(s)
  ELSE Then(ScanToNextToken(s), LAMBDA t : Then(UnrollIndent(t, t.column), FetchTokenHere))

\* fetch_more_tokens: three tokens of look-ahead, and more while the first of
\* them may turn out to be a simple key.
HeadMayBeKey(s) == s.parsed \in DOMAIN s.byTok /\ s.keys[s.byTok[s.parsed]].possible

RECURSIVE FetchMoreTokens(_)
FetchMoreTokens(s) ==
  Then(IF Len(s.tokens) > 2 /\ s.parsed \in DOMAIN s.byTok
       THEN ExpireKey(s, s.byTok[s.parsed]) ELSE s, LAMBDA t :
    IF Len(t.tokens) <= 2 \/ HeadMayBeKey(t) THEN FetchMoreTokens(FetchNextToken(t))
    ELSE [t EXCEPT !.available = TRUE])

=============================================================================
