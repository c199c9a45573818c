----------------------------- MODULE YamlValues -----------------------------
(***************************************************************************)
(* What scalars mean (yaml/yaml.go): the JSON value of a plain or tagged   *)
(* scalar, and the text of a value as a mapping key.  A JSON value is a    *)
(* record: its type t, the characters s of a scalar, the entries l of a    *)
(* list, the members m of an object.                                       *)
(***************************************************************************)
EXTENDS YamlScanner

Null == [t |-> "null", s |-> <<>>, l |-> <<>>, m |-> <<>>]
Scalar(t, s) == [Null EXCEPT !.t = t, !.s = s]
Str(s) == Scalar("str", s)
List(l) == [Null EXCEPT !.t = "list", !.l = l]
Object(m) == [Null EXCEPT !.t = "map", !.m = m]
Bad == Scalar("error", <<>>)

-----------------------------------------------------------------------------
nullScalar(c) == c \in {<<>>, <<"~">>, <<"null">>}

\* "n" is one of the short forms of false.
boolScalar(c) == IF c = <<"true">> THEN Scalar("bool", <<"true">>)
                 ELSE IF c \in {<<"false">>, <<"n">>} THEN Scalar("bool", <<"false">>)
                 ELSE Bad

\* A literal as strconv.ParseInt reads it with base 0: a sign, a prefix that
\* gives the base, digits.  Literals past 64 bits are out of the inputs.
Signed(c) == c # <<>> /\ c[1] \in {"+", "-"}
Unsigned(c) == IF Signed(c) THEN Tail(c) ELSE c
Base(c) == IF Len(c) < 2 \/ c[1] # "0" THEN 10
           ELSE CASE c[2] = "x" -> 16 [] c[2] = "b" -> 2 [] OTHER -> 8
DigitsOf(c) == SubSeq(c, CASE Base(c) = 10 -> 1 [] Base(c) = 8 -> 2 [] OTHER -> 3, Len(c))
InBase(digits, base) ==
  digits # <<>> /\ \A i \in DOMAIN digits : is_hex(digits[i]) /\ as_hex[digits[i]] < base
ValueIn(digits, base) == FoldLeft(LAMBDA v, c : base * v + as_hex[c], 0, digits)

intScalar(c) ==
  LET u == Unsigned(c)
      v == ValueIn(DigitsOf(u), Base(u))
  IN  IF ~InBase(DigitsOf(u), Base(u)) THEN Bad
      ELSE Scalar("num", (IF Signed(c) /\ c[1] = "-" /\ v # 0 THEN <<"-">> ELSE <<>>)
                           \o <<ToString(v)>>)

\* Decimal fractions.  A float that is a whole number is marshalled as one.
DropZeros(frac) ==
  LET nonzero == {i \in DOMAIN frac : frac[i] # "0"}
  IN  SubSeq(frac, 1, IF nonzero = {} THEN 0 ELSE Max(nonzero))

floatScalar(c, allowInt) ==
  LET u == Unsigned(c)
      dots == {i \in DOMAIN u : u[i] = "."}
      dot == IF dots = {} THEN Len(u) + 1 ELSE Min(dots)
      whole == SubSeq(u, 1, dot - 1)
      frac == SubSeq(u, dot + 1, Len(u))
      tail == DropZeros(frac)
  IN  IF (dots = {} /\ ~allowInt) \/ ~InBase(whole \o frac, 10) THEN Bad
      ELSE Scalar("num", (IF Signed(c) /\ c[1] = "-" THEN <<"-">> ELSE <<>>)
                           \o <<ToString(ValueIn(whole, 10))>>
                           \o (IF tail = <<>> THEN <<>> ELSE <<".">> \o tail))

integerScalar(c) == InBase(Unsigned(c), 10)
nonFiniteFloat(c) == Unsigned(c) = <<".", "inf">>

\* The first kind of scalar the characters are, or a string.
resolvePlainScalar(c) ==
  IF nullScalar(c) THEN Null
  ELSE IF boolScalar(c) # Bad THEN boolScalar(c)
  ELSE IF intScalar(c) # Bad THEN intScalar(c)
  ELSE IF nonFiniteFloat(c) THEN Bad
  ELSE IF floatScalar(c, integerScalar(c)) # Bad THEN floatScalar(c, integerScalar(c))
  ELSE Str(c)

LongTagPrefix == <<"tag:yaml.org,2002:">>
shortTag(tag) ==
  IF IsPrefix(LongTagPrefix, tag) /\ tag # <<>>
  THEN <<"!", "!">> \o SubSeq(tag, 2, Len(tag)) ELSE tag

scalarValue(event) ==
  LET tag == shortTag(event.tag)
      c == event.value
  IN  CASE tag = <<>> -> IF event.implicit THEN resolvePlainScalar(c) ELSE Str(c)
        [] tag = <<"!", "!", "null">> -> Null
        [] tag = <<"!", "!", "bool">> -> boolScalar(c)
        [] tag = <<"!", "!", "int">> -> intScalar(c)
        [] tag = <<"!", "!", "float">> ->
             floatScalar(c, TRUE)
        [] OTHER -> Str(c)

-----------------------------------------------------------------------------
\* encoding/json: the text of a value.  Members are written in key order.
CharOrder == <<"SOH", "\t", "\n", " ", "!", "\"", "#", "%", "&", "'", "*", "+", ",", "-",
               ".", "/", "0", "1", ":", ";", "<", "=", ">", "?", "@", "[", "\\", "]",
               "grave", "a", "b", "bool", "c", "false", "float", "inf", "int", "n",
               "null", "str", "t", "true", "x", "{", "|", "}", "~">>
Rank(c) == CHOOSE i \in DOMAIN CharOrder : CharOrder[i] = c

Less(a, b) ==
  \/ Len(a) < Len(b) /\ IsPrefix(a, b)
  \/ \E k \in 1..Min({Len(a), Len(b)}) :
       Rank(a[k]) < Rank(b[k]) /\ \A j \in 1..(k - 1) : a[j] = b[j]

SortedKeys(m) == SortSeq(SetToSeq(DOMAIN m), Less)

Quoted(s) ==
  LET escape(c) == CASE c \in {"\"", "\\"} -> <<"\\", c>>
                     [] c = "\n" -> <<"\\", "n">> [] c = "\t" -> <<"\\", "t">>
                     [] c = "SOH" -> <<"\\", "u", "0", "0", "0", "1">>
                     [] OTHER -> <<c>>
  IN  <<"\"">> \o FlattenSeq([i \in DOMAIN s |-> escape(s[i])]) \o <<"\"">>

Join(parts) ==
  FlattenSeq([i \in DOMAIN parts |-> IF i = 1 THEN parts[i] ELSE <<",">> \o parts[i]])

RECURSIVE JsonText(_)
JsonText(v) ==
  LET keys == SortedKeys(v.m)
  IN  CASE v.t = "null" -> <<"null">>
        [] v.t \in {"bool", "num"} -> v.s
        [] v.t = "str" -> Quoted(v.s)
        [] v.t = "list" ->
             <<"[">> \o Join([i \in DOMAIN v.l |-> JsonText(v.l[i])]) \o <<"]">>
        [] v.t = "map" ->
             <<"{">> \o Join([i \in DOMAIN keys |->
                                Quoted(keys[i]) \o <<":">> \o JsonText(v.m[keys[i]])])
                    \o <<"}">>

keyString(v) == CASE v.t = "null" -> <<"null">>
                  [] v.t \in {"str", "bool", "num"} -> v.s
                  [] OTHER -> JsonText(v)

=============================================================================
