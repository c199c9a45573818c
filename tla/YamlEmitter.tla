---------------------------- MODULE YamlEmitter ----------------------------
(***************************************************************************)
(* JSONToYAML: the emitter of the yaml package (yaml/emitterc.go), one     *)
(* action per emitter state, fed with the events of a JSON value           *)
(* (yaml/yaml.go).  The emitter looks ahead: an event waits in the queue   *)
(* until the ones after it tell whether a collection is empty.             *)
(*                                                                         *)
(* JSONToYAML emits implicit documents, block collections and scalars      *)
(* without tags, anchors, comments or aliases.  A flow collection is       *)
(* therefore an empty one, and the width of a line has no limit.  e is     *)
(* yaml_emitter_t: todo holds the events of the caller, text the output.   *)
(***************************************************************************)
EXTENDS YamlValues

VARIABLE e

-----------------------------------------------------------------------------
\* The events of a value.
stringScalarStyle(val) ==
  IF val # <<>> /\ resolvePlainScalar(val) # Bad /\ resolvePlainScalar(val).t = "str"
  THEN "plain" ELSE "double"

emitScalar(val, style) == <<[typ |-> "SCALAR", value |-> val, style |-> style]>>
Bracket(typ) == <<[typ |-> typ, value |-> <<>>, style |-> "block"]>>

RECURSIVE emitValue(_)
emitValue(v) ==
  LET keys == SortedKeys(v.m)
      member(i) == emitScalar(keys[i], stringScalarStyle(keys[i])) \o emitValue(v.m[keys[i]])
  IN  CASE v.t = "null" -> emitScalar(<<"null">>, "plain")
        [] v.t \in {"bool", "num"} -> emitScalar(v.s, "plain")
        [] v.t = "str" -> emitScalar(v.s, stringScalarStyle(v.s))
        [] v.t = "list" ->
             Bracket("SEQUENCE-START")
               \o FlattenSeq([i \in DOMAIN v.l |-> emitValue(v.l[i])])
               \o Bracket("SEQUENCE-END")
        [] v.t = "map" ->
             Bracket("MAPPING-START") \o FlattenSeq([i \in DOMAIN keys |-> member(i)])
               \o Bracket("MAPPING-END")

JSONToYAML(v) ==
  Bracket("STREAM-START") \o Bracket("DOCUMENT-START") \o emitValue(v)
    \o Bracket("DOCUMENT-END") \o Bracket("STREAM-END")

Emitter(v) ==
  [state |-> "STREAM-START", states |-> <<>>, events |-> <<>>, todo |-> JSONToYAML(v),
   indent |-> 0, indents |-> <<>>, column |-> 0, whitespace |-> FALSE,
   indention |-> FALSE, open_ended |-> FALSE, root |-> FALSE, simple |-> FALSE,
   text |-> <<>>, error |-> ""]

-----------------------------------------------------------------------------
\* The queue of events.
Opening == {"STREAM-START", "DOCUMENT-START", "SEQUENCE-START", "MAPPING-START"}
Closing == {"STREAM-END", "DOCUMENT-END", "SEQUENCE-END", "MAPPING-END"}

Lookahead(typ) == CASE typ = "DOCUMENT-START" -> 1 [] typ = "SEQUENCE-START" -> 2
                    [] typ = "MAPPING-START" -> 3 [] OTHER -> 0

Level(events) == Len(SelectSeq(events, LAMBDA v : v.typ \in Opening))
                   - Len(SelectSeq(events, LAMBDA v : v.typ \in Closing))

need_more_events(s) ==
  s.events # <<>> =>
    /\ Len(s.events) <= Lookahead(Head(s.events).typ)
    /\ \A i \in DOMAIN s.events : Level(SubSeq(s.events, 1, i)) # 0

check_empty(s, start, end) ==
  /\ Len(s.events) > 1
  /\ s.events[1].typ = start /\ s.events[2].typ = end

-----------------------------------------------------------------------------
\* Writing.
put_break(s) == [s EXCEPT !.text = Append(@, "\n"), !.column = 0, !.indention = TRUE]
Write(s, chars) == [s EXCEPT !.text = @ \o chars, !.column = @ + Len(chars)]

write_indent(s) ==
  LET indent == IF s.indent < 0 THEN 0 ELSE s.indent
      broken == \/ ~s.indention \/ s.column > indent
                \/ s.column = indent /\ ~s.whitespace
      r == IF broken THEN put_break(s) ELSE s
  IN  [Write(r, [i \in 1..(indent - r.column) |-> " "]) EXCEPT !.whitespace = TRUE]

Spaced(s, needed) == IF needed /\ ~s.whitespace THEN Write(s, <<" ">>) ELSE s

write_indicator(s, indicator, need_whitespace, is_whitespace, is_indention) ==
  [Write(Spaced(s, need_whitespace), indicator) EXCEPT
     !.whitespace = is_whitespace, !.indention = @ /\ is_indention, !.open_ended = FALSE]

write_plain_scalar(s, value) ==
  [Write(Spaced(s, value # <<>>), value) EXCEPT
     !.whitespace = @ /\ value = <<>>, !.indention = FALSE,
     !.open_ended = @ \/ s.root]

\* The first break of a run is written twice, text after a break is indented.
write_single_quoted_scalar(s, value) ==
  LET char(w, c) ==
        IF is_break(c)
        THEN [s |-> put_break(IF w.breaks THEN w.s ELSE put_break(w.s)), breaks |-> TRUE]
        ELSE IF c = " " THEN [w EXCEPT !.s = Write(@, <<c>>)]
        ELSE LET r == IF w.breaks THEN write_indent(w.s) ELSE w.s
             IN  [s |-> [Write(r, IF c = "'" THEN <<c, c>> ELSE <<c>>)
                           EXCEPT !.indention = FALSE],
                  breaks |-> FALSE]
      open == write_indicator(s, <<"'">>, TRUE, FALSE, FALSE)
      body == FoldLeft(char, [s |-> open, breaks |-> FALSE], value).s
  IN  [write_indicator(body, <<"'">>, FALSE, FALSE, FALSE) EXCEPT !.indention = FALSE]

write_double_quoted_scalar(s, value) ==
  LET escape(c) == CASE c = "\t" -> <<"\\", "t">> [] c = "\n" -> <<"\\", "n">>
                     [] c \in {"\"", "\\"} -> <<"\\", c>>
                     [] c = "SOH" -> <<"\\", "x", "0", "1">>
                     [] OTHER -> <<c>>
      open == write_indicator(s, <<"\"">>, TRUE, FALSE, FALSE)
      body == Write(open, FlattenSeq([i \in DOMAIN value |-> escape(value[i])]))
  IN  write_indicator(body, <<"\"">>, FALSE, FALSE, FALSE)

-----------------------------------------------------------------------------
\* What a scalar allows.  In flow context there are no scalars.
BlockIndicatorsAtStart(value) ==
  \/ value[1] \in Indicators \ {"-", "?", ":"}
  \/ value[1] \in {"-", "?", ":"} /\ (Len(value) = 1 \/ is_blank(value[2]))

BlockIndicators(value) ==
  LET n == Len(value)
      followed(i) == i = n \/ is_blank(value[i + 1])
      preceded(i) == is_blankz(value[i - 1])
  IN  \/ n >= 3 /\ SubSeq(value, 1, 3) \in {<<"-", "-", "-">>, <<".", ".", ".">>}
      \/ value[1] \in Indicators \ {"-", "?", ":"}
      \/ value[1] \in {"-", "?", ":"} /\ followed(1)
      \/ \E i \in 2..n : \/ value[i] = ":" /\ followed(i)
                         \/ value[i] = "#" /\ preceded(i)

Follows(value, first, second) ==
  \E i \in 1..(Len(value) - 1) : value[i] = first /\ value[i + 1] = second

analyze_scalar(value) ==
  LET ends == {value[1], value[Len(value)]}
      single == /\ ~Follows(value, "\n", " ") /\ ~Follows(value, " ", "\n")
                /\ \A c \in Range(value) : c \notin {"\t", "SOH"}
      multiline == "\n" \in Range(value)
  IN  IF value = <<>> THEN [multiline |-> FALSE, plain |-> TRUE, single |-> TRUE]
      ELSE [multiline |-> multiline, single |-> single,
            plain |-> single /\ ~multiline /\ " " \notin ends /\ ~BlockIndicators(value)]

select_scalar_style(s, event) ==
  LET data == analyze_scalar(event.value)
      first == IF s.simple /\ data.multiline THEN "double" ELSE event.style
      second == IF first = "plain" /\ (~data.plain \/ (event.value = <<>> /\ s.simple))
                THEN "single" ELSE first
  IN  IF second = "single" /\ ~data.single THEN "double" ELSE second

MaxSimpleKey == 128
check_simple_key(s) ==
  LET event == Head(s.events)
  IN  CASE event.typ = "SCALAR" ->
             ~analyze_scalar(event.value).multiline /\ Len(event.value) <= MaxSimpleKey
        [] event.typ = "SEQUENCE-START" -> check_empty(s, "SEQUENCE-START", "SEQUENCE-END")
        [] event.typ = "MAPPING-START" -> check_empty(s, "MAPPING-START", "MAPPING-END")
        [] OTHER -> FALSE

-----------------------------------------------------------------------------
\* The stacks of states and of indents.
Return(s) ==
  IF s.states = <<>> THEN Panic(s)
  ELSE [s EXCEPT !.state = Last(s.states), !.states = Front(@)]

PopIndent(s) ==
  IF s.indents = <<>> THEN Panic(s)
  ELSE [s EXCEPT !.indent = Last(s.indents), !.indents = Front(@)]

best_indent == 2
increase_indent(s, flow) ==
  [s EXCEPT !.indents = Append(@, s.indent),
            !.indent = IF @ < 0 THEN IF flow THEN best_indent ELSE 0
                       ELSE IF Last(s.states) = "BLOCK-SEQUENCE-ITEM" THEN @ + 2
                       ELSE best_indent * ((@ + best_indent) \div best_indent)]

emit_scalar(s, event) ==
  LET style == select_scalar_style(s, event)
      r == increase_indent(s, TRUE)
      written == CASE style = "plain" -> write_plain_scalar(r, event.value)
                   [] style = "single" -> write_single_quoted_scalar(r, event.value)
                   [] style = "double" -> write_double_quoted_scalar(r, event.value)
  IN  Then(PopIndent(written), Return)

emit_node(t, event, root, simple) ==
  LET s == [t EXCEPT !.root = root, !.simple = simple]
      Start(start, end, flow, block) ==
        [s EXCEPT !.state = IF check_empty(s, start, end) THEN flow ELSE block]
  IN  CASE event.typ = "SCALAR" -> emit_scalar(s, event)
        [] event.typ = "SEQUENCE-START" ->
             Start("SEQUENCE-START", "SEQUENCE-END", "FLOW-SEQUENCE-FIRST-ITEM",
                   "BLOCK-SEQUENCE-FIRST-ITEM")
        [] event.typ = "MAPPING-START" ->
             Start("MAPPING-START", "MAPPING-END", "FLOW-MAPPING-FIRST-KEY",
                   "BLOCK-MAPPING-FIRST-KEY")
        [] OTHER -> Error(s, "expected a node")

Call(s, state, event, root, simple) ==
  emit_node([s EXCEPT !.states = Append(@, state)], event, root, simple)

-----------------------------------------------------------------------------
\* The state functions.  Each one is given the event at the head of the queue.
emit_stream_start(s, event) ==
  IF event.typ # "STREAM-START" THEN Error(s, "expected STREAM-START")
  ELSE [s EXCEPT !.indent = -1, !.column = 0, !.whitespace = TRUE, !.indention = TRUE,
                 !.state = "FIRST-DOCUMENT-START"]

\* "..." ends an output that a reader could take for unfinished.
emit_document_start(s, event) ==
  LET marked == write_indent(write_indicator(s, <<".", ".", ".">>, TRUE, FALSE, FALSE))
  IN  CASE event.typ = "DOCUMENT-START" -> [s EXCEPT !.state = "DOCUMENT-CONTENT"]
        [] event.typ = "STREAM-END" ->
             [IF s.open_ended THEN marked ELSE s EXCEPT !.state = "END"]
        [] OTHER -> Error(s, "expected DOCUMENT-START or STREAM-END")

emit_document_content(s, event) == Call(s, "DOCUMENT-END", event, TRUE, FALSE)

emit_document_end(s, event) ==
  IF event.typ # "DOCUMENT-END" THEN Error(s, "expected DOCUMENT-END")
  ELSE [write_indent(s) EXCEPT !.state = "DOCUMENT-START"]

\* An empty collection in flow style.
emit_flow_sequence_item(s, event) ==
  LET r == increase_indent(write_indicator(s, <<"[">>, TRUE, TRUE, FALSE), TRUE)
      close(t) == write_indicator(IF t.column = 0 THEN write_indent(t) ELSE t,
                                  <<"]">>, FALSE, FALSE, FALSE)
  IN  IF event.typ # "SEQUENCE-END" THEN Error(s, "the collection is not empty")
      ELSE Then(Then(PopIndent(r), close), Return)

emit_flow_mapping_key(s, event) ==
  LET r == increase_indent(write_indicator(s, <<"{">>, TRUE, TRUE, FALSE), TRUE)
      close(t) == write_indicator(t, <<"}">>, FALSE, FALSE, FALSE)
  IN  IF event.typ # "MAPPING-END" THEN Error(s, "the collection is not empty")
      ELSE Then(Then(PopIndent(r), close), Return)

emit_block_sequence_item(s, event, first) ==
  LET r == IF first THEN increase_indent(s, FALSE) ELSE s
      dash == write_indicator(write_indent(r), <<"-">>, TRUE, FALSE, TRUE)
  IN  IF event.typ = "SEQUENCE-END" THEN Then(PopIndent(r), Return)
      ELSE Call(dash, "BLOCK-SEQUENCE-ITEM", event, FALSE, FALSE)

emit_block_mapping_key(s, event, first) ==
  LET r == write_indent(IF first THEN increase_indent(s, FALSE) ELSE s)
      mark == write_indicator(r, <<"?">>, TRUE, FALSE, TRUE)
  IN  IF event.typ = "MAPPING-END"
      THEN Then(PopIndent(IF first THEN increase_indent(s, FALSE) ELSE s), Return)
      ELSE IF check_simple_key(s)
      THEN Call(r, "BLOCK-MAPPING-SIMPLE-VALUE", event, FALSE, TRUE)
      ELSE Call(mark, "BLOCK-MAPPING-VALUE", event, FALSE, FALSE)

emit_block_mapping_value(s, event, simple) ==
  LET r == IF simple THEN write_indicator(s, <<":">>, FALSE, FALSE, FALSE)
           ELSE write_indicator(write_indent(s), <<":">>, TRUE, FALSE, TRUE)
  IN  Call(r, "BLOCK-MAPPING-KEY", event, FALSE, FALSE)

-----------------------------------------------------------------------------
\* emit: the caller's next event joins the queue; events leave it while no
\* more are needed.
Queue ==
  /\ e.error = "" /\ need_more_events(e) /\ e.todo # <<>>
  /\ e' = [e EXCEPT !.events = Append(@, Head(e.todo)), !.todo = Tail(@)]

Dispatch(state, Op(_, _)) ==
  /\ e.error = "" /\ e.state = state /\ ~need_more_events(e)
  /\ e' = [Op(e, Head(e.events)) EXCEPT !.events = Tail(@)]

EmitStreamStart == Dispatch("STREAM-START", emit_stream_start)
EmitFirstDocumentStart == Dispatch("FIRST-DOCUMENT-START", emit_document_start)
EmitDocumentStart == Dispatch("DOCUMENT-START", emit_document_start)
EmitDocumentContent == Dispatch("DOCUMENT-CONTENT", emit_document_content)
EmitDocumentEnd == Dispatch("DOCUMENT-END", emit_document_end)
EmitFlowSequenceFirstItem == Dispatch("FLOW-SEQUENCE-FIRST-ITEM", emit_flow_sequence_item)
EmitFlowMappingFirstKey == Dispatch("FLOW-MAPPING-FIRST-KEY", emit_flow_mapping_key)
EmitBlockSequenceFirstItem ==
  Dispatch("BLOCK-SEQUENCE-FIRST-ITEM", LAMBDA s, v : emit_block_sequence_item(s, v, TRUE))
EmitBlockSequenceItem ==
  Dispatch("BLOCK-SEQUENCE-ITEM", LAMBDA s, v : emit_block_sequence_item(s, v, FALSE))
EmitBlockMappingFirstKey ==
  Dispatch("BLOCK-MAPPING-FIRST-KEY", LAMBDA s, v : emit_block_mapping_key(s, v, TRUE))
EmitBlockMappingKey ==
  Dispatch("BLOCK-MAPPING-KEY", LAMBDA s, v : emit_block_mapping_key(s, v, FALSE))
EmitBlockMappingSimpleValue ==
  Dispatch("BLOCK-MAPPING-SIMPLE-VALUE", LAMBDA s, v : emit_block_mapping_value(s, v, TRUE))
EmitBlockMappingValue ==
  Dispatch("BLOCK-MAPPING-VALUE", LAMBDA s, v : emit_block_mapping_value(s, v, FALSE))

EmitNext ==
  \/ Queue
  \/ EmitStreamStart \/ EmitFirstDocumentStart \/ EmitDocumentStart
  \/ EmitDocumentContent \/ EmitDocumentEnd
  \/ EmitFlowSequenceFirstItem \/ EmitFlowMappingFirstKey
  \/ EmitBlockSequenceFirstItem \/ EmitBlockSequenceItem
  \/ EmitBlockMappingFirstKey \/ EmitBlockMappingKey
  \/ EmitBlockMappingSimpleValue \/ EmitBlockMappingValue

=============================================================================
