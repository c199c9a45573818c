----------------------------- MODULE YamlParser -----------------------------
(***************************************************************************)
(* YAMLToJSON: the parser of the yaml package (yaml/parserc.go), one       *)
(* action per production, and the code that builds the JSON value from its *)
(* events (yaml/yaml.go).  A call of next is a few steps: the scanner      *)
(* fetches tokens when the parser peeks and none is ready, and each step   *)
(* of a production is what it does with one token.  The last of them emits *)
(* the event, and the caller takes it in the same step.  Between two steps *)
(* of a production p.state is the point reached in it: the names that are  *)
(* not states of the code are DIRECTIVES, FLOW-SEQUENCE-REST,              *)
(* FLOW-MAPPING-REST, OPTIONAL-NODE and NODE.                              *)
(*                                                                         *)
(* p is yaml_parser_t: the record of the scanner and the parser's fields.  *)
(* out is the Go stack of parseValue, parseSequence and parseMapping: one  *)
(* frame for each collection being read.                                   *)
(***************************************************************************)
EXTENDS YamlValues

VARIABLES p, out

NoEvent == [typ |-> "NO-EVENT", anchor |-> <<>>, tag |-> <<>>, value |-> <<>>,
            implicit |-> FALSE]
Event(typ) == [NoEvent EXCEPT !.typ = typ]

\* The local state of the production that is parsing a node: the tokens that
\* make the node absent and the state after it, what the grammar allows here,
\* and the property tokens read so far.
NoNode == [stop |-> {}, next |-> "", block |-> FALSE, indentless |-> FALSE, props |-> {}]

Parser(input) ==
  Scanner(input) @@ [state |-> "STREAM-START", states |-> <<>>, marks |-> 0,
                     directives |-> <<>>, version |-> FALSE, node |-> NoNode,
                     event |-> NoEvent]

-----------------------------------------------------------------------------
\* peek_token, skip_token, and the two stacks.
Peek == ~p.available /\ p' = FetchMoreTokens([p EXCEPT !.event = NoEvent])
SkipToken(q) ==
  [q EXCEPT !.available = FALSE, !.parsed = @ + 1, !.tokens = Tail(@),
            !.ended = Head(q.tokens).typ = "STREAM-END"]
Typ(q) == Head(q.tokens).typ

PushState(q, state) == [q EXCEPT !.states = Append(@, state)]
PopState(q) ==
  IF q.states = <<>> THEN Panic(q)
  ELSE [q EXCEPT !.state = Last(q.states), !.states = Front(@)]
PushMark(q) == [q EXCEPT !.marks = @ + 1]
PopMark(q) == IF q.marks = 0 THEN Panic(q) ELSE [q EXCEPT !.marks = @ - 1]

Emit(q, event) == [q EXCEPT !.event = event]
Goto(q, state) == [q EXCEPT !.state = state]

\* The end of a collection, and a collection that cannot go on.
EndCollectionKeepingMark(q, typ) == Then(Emit(PopState(q), Event(typ)), SkipToken)
EndCollection(q, typ) == Then(PopMark(Emit(PopState(q), Event(typ))), SkipToken)
BadCollection(q) == Then(PopMark(q), LAMBDA r : Error(r, "did not find expected token"))

EmptyScalar(q) == Emit(q, [Event("SCALAR") EXCEPT !.implicit = TRUE])

-----------------------------------------------------------------------------
\* Directives.
DefaultTagDirectives == <<[handle |-> <<"!">>, prefix |-> <<"!">>],
                          [handle |-> <<"!", "!">>, prefix |-> LongTagPrefix]>>

Defines(directives, handle) == \E i \in DOMAIN directives : directives[i].handle = handle

ToInt(digits) == FoldLeft(LAMBDA v, c : 10 * v + as_hex[c], 0, digits)

\* One directive: the loop of process_directives peeks the next token after it.
ProcessDirective(q) ==
  LET token == Head(q.tokens)
      Skipped(r) == SkipToken(Goto(r, "DIRECTIVES"))
  IN  CASE token.typ = "VERSION-DIRECTIVE" ->
             IF q.version THEN Error(q, "found duplicate %YAML directive")
             ELSE IF ToInt(token.value) # 1 \/ ToInt(token.suffix) # 1
             THEN Error(q, "found incompatible YAML document")
             ELSE Skipped([q EXCEPT !.version = TRUE])
        [] token.typ = "TAG-DIRECTIVE" ->
             IF Defines(q.directives, token.value)
             THEN Error(q, "found duplicate %TAG directive")
             ELSE Skipped([q EXCEPT !.directives =
                          Append(@, [handle |-> token.value, prefix |-> token.suffix])])

WithDefaults(q) ==
  [q EXCEPT !.directives =
     @ \o SelectSeq(DefaultTagDirectives, LAMBDA d : ~Defines(q.directives, d.handle))]

-----------------------------------------------------------------------------
\* Nodes: an alias, or properties and content.
ResolveTag(q, token) ==
  LET known == {i \in DOMAIN q.directives : q.directives[i].handle = token.value}
  IN  IF token.value = <<>> THEN token.suffix
      ELSE IF known = {} THEN <<>>
      ELSE q.directives[Min(known)].prefix \o token.suffix

ParseContent(q, event, block, indentless) ==
  LET token == Head(q.tokens)
      plain == \/ event.tag = <<>> /\ token.style = "plain"
               \/ event.tag = <<"!">>
      Start(kind, state) == Emit(Goto(q, state), [event EXCEPT !.typ = kind])
  IN  CASE indentless /\ token.typ = "BLOCK-ENTRY" ->
             Start("SEQUENCE-START", "INDENTLESS-SEQUENCE-ENTRY")
        [] token.typ = "SCALAR" ->
             Then(PopState(q), LAMBDA r :
               SkipToken(Emit(r, [event EXCEPT !.typ = "SCALAR", !.value = token.value,
                                               !.implicit = plain])))
        [] token.typ = "FLOW-SEQUENCE-START" ->
             Start("SEQUENCE-START", "FLOW-SEQUENCE-FIRST-ENTRY")
        [] token.typ = "FLOW-MAPPING-START" ->
             Start("MAPPING-START", "FLOW-MAPPING-FIRST-KEY")
        [] block /\ token.typ = "BLOCK-SEQUENCE-START" ->
             Start("SEQUENCE-START", "BLOCK-SEQUENCE-FIRST-ENTRY")
        [] block /\ token.typ = "BLOCK-MAPPING-START" ->
             Start("MAPPING-START", "BLOCK-MAPPING-FIRST-KEY")
        [] OTHER ->
             IF event.anchor = <<>> /\ event.tag = <<>>
             THEN Error(q, "did not find expected node content")
             ELSE Emit(PopState(q), [event EXCEPT !.typ = "SCALAR"])

\* The properties are read: one ANCHOR and one TAG at most, in either order.
NodeContent(q, anchors, tags) ==
  LET anchor == IF anchors = {} THEN <<>> ELSE (CHOOSE t \in anchors : TRUE).value
      tag == IF tags = {} THEN <<>> ELSE ResolveTag(q, CHOOSE t \in tags : TRUE)
  IN  IF tags # {} /\ tag = <<>> THEN Error(q, "found undefined tag handle")
      ELSE ParseContent([q EXCEPT !.node = NoNode],
                        [NoEvent EXCEPT !.anchor = anchor, !.tag = tag,
                                        !.implicit = tag = <<>>],
                        q.node.block, q.node.indentless)

ParseNode(q) ==
  LET Having(typ) == {t \in q.node.props : t.typ = typ}
      alias == [Event("ALIAS") EXCEPT !.anchor = Head(q.tokens).value]
  IN  CASE Typ(q) = "ALIAS" /\ q.node.props = {} ->
             Then(Emit(PopState([q EXCEPT !.node = NoNode]), alias), SkipToken)
        [] Typ(q) \in {"ANCHOR", "TAG"} /\ Having(Typ(q)) = {} ->
             SkipToken([q EXCEPT !.state = "NODE",
                                 !.node.props = @ \union {Head(q.tokens)}])
        [] OTHER -> NodeContent(q, Having("ANCHOR"), Having("TAG"))

Node(q, block, indentless) ==
  ParseNode([q EXCEPT !.node = [NoNode EXCEPT !.block = block, !.indentless = indentless]])
BlockNode(q) == Node(q, TRUE, FALSE)
FlowNode(q) == Node(q, FALSE, FALSE)

\* The node that may follow this token: it is absent before a token in stop.
SkipToNode(q, stop, next, block, indentless) ==
  SkipToken([q EXCEPT !.state = "OPTIONAL-NODE",
                      !.node = [stop |-> stop, next |-> next, block |-> block,
                                indentless |-> indentless, props |-> {}]])

OptionalNode(q) ==
  IF Typ(q) \in q.node.stop
  THEN EmptyScalar([q EXCEPT !.state = q.node.next, !.node = NoNode])
  ELSE ParseNode(PushState(q, q.node.next))

-----------------------------------------------------------------------------
\* Productions, given a parser that has peeked its next token.  YAMLToJSON
\* reads one document, so the second DOCUMENT-START state is never entered.
StreamStart(q) ==
  IF Typ(q) # "STREAM-START" THEN Error(q, "did not find expected <stream-start>")
  ELSE SkipToken(Emit(Goto(q, "IMPLICIT-DOCUMENT-START"), Event("STREAM-START")))

StartDocument(q, state) ==
  Emit(Goto(PushState(WithDefaults(q), "DOCUMENT-END"), state), Event("DOCUMENT-START"))

\* Directives, and the document start they ask for.
Directives(q) ==
  CASE Typ(q) \in {"VERSION-DIRECTIVE", "TAG-DIRECTIVE"} -> ProcessDirective(q)
    [] Typ(q) = "DOCUMENT-START" -> SkipToken(StartDocument(q, "DOCUMENT-CONTENT"))
    [] OTHER -> Error(q, "did not find expected <document start>")

DocumentStart(q) ==
  CASE Typ(q) = "STREAM-END" -> SkipToken(Emit(Goto(q, "END"), Event("STREAM-END")))
    [] Typ(q) \in {"VERSION-DIRECTIVE", "TAG-DIRECTIVE", "DOCUMENT-START"} -> Directives(q)
    [] OTHER -> StartDocument(q, "BLOCK-NODE")

DocumentContent(q) ==
  IF Typ(q) \in {"VERSION-DIRECTIVE", "TAG-DIRECTIVE", "DOCUMENT-START",
                 "DOCUMENT-END", "STREAM-END"}
  THEN EmptyScalar(PopState(q)) ELSE BlockNode(q)

DocumentEnd(q) ==
  LET r == IF Typ(q) = "DOCUMENT-END" THEN SkipToken(q) ELSE q
  IN  Emit(Goto([r EXCEPT !.directives = <<>>], "DOCUMENT-START"), Event("DOCUMENT-END"))

BlockSequenceEntry(q) ==
  CASE Typ(q) = "BLOCK-ENTRY" ->
         SkipToNode(q, {"BLOCK-ENTRY", "BLOCK-END"}, "BLOCK-SEQUENCE-ENTRY", TRUE, FALSE)
    [] Typ(q) = "BLOCK-END" -> EndCollection(q, "SEQUENCE-END")
    [] OTHER -> BadCollection(q)

IndentlessSequenceEntry(q) ==
  IF Typ(q) = "BLOCK-ENTRY"
  THEN SkipToNode(q, {"BLOCK-ENTRY", "KEY", "VALUE", "BLOCK-END"},
                  "INDENTLESS-SEQUENCE-ENTRY", TRUE, FALSE)
  ELSE Emit(PopState(q), Event("SEQUENCE-END"))

BlockMappingKey(q) ==
  CASE Typ(q) = "KEY" ->
         SkipToNode(q, {"KEY", "VALUE", "BLOCK-END"}, "BLOCK-MAPPING-VALUE", TRUE, TRUE)
    [] Typ(q) = "BLOCK-END" -> EndCollection(q, "MAPPING-END")
    [] OTHER -> BadCollection(q)

BlockMappingValue(q) ==
  IF Typ(q) = "VALUE"
  THEN SkipToNode(q, {"KEY", "VALUE", "BLOCK-END"}, "BLOCK-MAPPING-KEY", TRUE, TRUE)
  ELSE EmptyScalar(Goto(q, "BLOCK-MAPPING-KEY"))

\* The rest of a flow collection's production: after the token that opens it,
\* after a comma, or at the token that ends it.
FlowSequenceRest(q) ==
  CASE Typ(q) = "FLOW-SEQUENCE-END" -> EndCollection(q, "SEQUENCE-END")
    [] Typ(q) = "KEY" ->
         SkipToken(Emit(Goto(q, "FLOW-SEQUENCE-ENTRY-MAPPING-KEY"), Event("MAPPING-START")))
    [] OTHER -> FlowNode(PushState(q, "FLOW-SEQUENCE-ENTRY"))

FlowSequenceEntry(q) ==
  CASE Typ(q) = "FLOW-SEQUENCE-END" -> FlowSequenceRest(q)
    [] Typ(q) = "FLOW-ENTRY" -> SkipToken(Goto(q, "FLOW-SEQUENCE-REST"))
    [] OTHER -> BadCollection(q)

\* The token that stands for the missing key is skipped, whichever it is.
FlowSequenceEntryMappingKey(q) ==
  IF Typ(q) \in {"VALUE", "FLOW-ENTRY", "FLOW-SEQUENCE-END"}
  THEN EmptyScalar(Goto(SkipToken(q), "FLOW-SEQUENCE-ENTRY-MAPPING-VALUE"))
  ELSE FlowNode(PushState(q, "FLOW-SEQUENCE-ENTRY-MAPPING-VALUE"))

FlowSequenceEntryMappingValue(q) ==
  IF Typ(q) = "VALUE"
  THEN SkipToNode(q, {"FLOW-ENTRY", "FLOW-SEQUENCE-END"},
                  "FLOW-SEQUENCE-ENTRY-MAPPING-END", FALSE, FALSE)
  ELSE EmptyScalar(Goto(q, "FLOW-SEQUENCE-ENTRY-MAPPING-END"))

FlowSequenceEntryMappingEnd(q) ==
  Emit(Goto(q, "FLOW-SEQUENCE-ENTRY"), Event("MAPPING-END"))

FlowMappingRest(q) ==
  CASE Typ(q) = "FLOW-MAPPING-END" -> EndCollection(q, "MAPPING-END")
    [] Typ(q) = "KEY" ->
         SkipToNode(q, {"VALUE", "FLOW-ENTRY", "FLOW-MAPPING-END"}, "FLOW-MAPPING-VALUE",
                    FALSE, FALSE)
    [] OTHER -> FlowNode(PushState(q, "FLOW-MAPPING-EMPTY-VALUE"))

FlowMappingKey(q) ==
  CASE Typ(q) = "FLOW-MAPPING-END" -> FlowMappingRest(q)
    [] Typ(q) = "FLOW-ENTRY" -> SkipToken(Goto(q, "FLOW-MAPPING-REST"))
    [] OTHER -> BadCollection(q)

FlowMappingValue(q) ==
  IF Typ(q) = "VALUE"
  THEN SkipToNode(q, {"FLOW-ENTRY", "FLOW-MAPPING-END"}, "FLOW-MAPPING-KEY", FALSE, FALSE)
  ELSE EmptyScalar(Goto(q, "FLOW-MAPPING-KEY"))

FlowMappingEmptyValue(q) == EmptyScalar(Goto(q, "FLOW-MAPPING-KEY"))

-----------------------------------------------------------------------------
\* The reader of the events.
Reader == [mode |-> "stream", frames |-> <<>>, anchors |-> <<>>, result |-> Null,
           error |-> ""]

Done(o, v) == [o EXCEPT !.mode = "done", !.result = v]
Fail(o, problem) == [o EXCEPT !.mode = "done", !.error = problem]

Frame(kind, anchor) == [kind |-> kind, anchor |-> anchor, list |-> <<>>,
                        members |-> <<>>, key |-> <<>>, keyed |-> FALSE]

Anchored(o, anchor, v) ==
  IF anchor = <<>> THEN o ELSE [o EXCEPT !.anchors = (anchor :> v) @@ @]

\* A value is complete: it is the document, an entry, a key or a member.
Deliver(o, v) ==
  LET n == Len(o.frames)
      top == o.frames[n]
      next == CASE top.kind = "list" -> [top EXCEPT !.list = Append(@, v)]
                [] top.keyed -> [top EXCEPT !.members = (top.key :> v) @@ @, !.keyed = FALSE]
                [] OTHER -> [top EXCEPT !.key = keyString(v), !.keyed = TRUE]
  IN  IF n = 0 THEN [o EXCEPT !.mode = "end", !.result = v]
      ELSE [o EXCEPT !.frames[n] = next]

\* parseSequence returns a nil slice when there were no entries: null in JSON.
Collected(frame) ==
  IF frame.kind = "map" THEN Object(frame.members)
  ELSE IF frame.list = <<>> THEN Null ELSE List(frame.list)

Close(o, kind) ==
  LET top == Last(o.frames)
      v == Collected(top)
  IN  IF o.frames = <<>> \/ top.kind # kind \/ top.keyed
      THEN Fail(o, "unexpected event")
      ELSE Deliver(Anchored([o EXCEPT !.frames = Front(@)], top.anchor, v), v)

parseValue(o, event) ==
  LET v == scalarValue(event)
  IN  CASE event.typ = "ALIAS" ->
             IF event.anchor \in DOMAIN o.anchors THEN Deliver(o, o.anchors[event.anchor])
             ELSE Fail(o, "unknown alias")
        [] event.typ = "SCALAR" ->
             IF v = Bad THEN Fail(o, "cannot decode")
             ELSE Deliver(Anchored(o, event.anchor, v), v)
        [] event.typ = "SEQUENCE-START" ->
             [o EXCEPT !.mode = "value", !.frames = Append(@, Frame("list", event.anchor))]
        [] event.typ = "MAPPING-START" ->
             [o EXCEPT !.mode = "value", !.frames = Append(@, Frame("map", event.anchor))]
        [] event.typ = "SEQUENCE-END" -> Close(o, "list")
        [] event.typ = "MAPPING-END" -> Close(o, "map")
        [] OTHER -> Fail(o, "unexpected event")

Accept(o, event) ==
  CASE o.mode = "stream" /\ event.typ = "STREAM-START" -> [o EXCEPT !.mode = "document"]
    [] o.mode = "document" /\ event.typ = "DOCUMENT-START" -> [o EXCEPT !.mode = "root"]
    [] o.mode = "document" /\ event.typ = "STREAM-END" -> Done(o, Null)
    [] o.mode = "root" /\ event.typ = "DOCUMENT-END" -> Done(o, Null)
    [] o.mode = "end" /\ event.typ = "DOCUMENT-END" -> Done(o, o.result)
    [] o.mode \in {"root", "value"} -> parseValue(o, event)
    [] OTHER -> Fail(o, "unexpected event")

-----------------------------------------------------------------------------
\* A step of the production at this point, with the token it has peeked.
Step(state, Production(_)) ==
  p.state = state /\ p.available /\ p' = Production([p EXCEPT !.event = NoEvent])

ParseStreamStart == Step("STREAM-START", StreamStart)
ParseDocumentStart == Step("IMPLICIT-DOCUMENT-START", DocumentStart)
ParseDirectives == Step("DIRECTIVES", Directives)
ParseDocumentContent == Step("DOCUMENT-CONTENT", DocumentContent)
ParseDocumentEnd == Step("DOCUMENT-END", DocumentEnd)
ParseBlockNode == Step("BLOCK-NODE", BlockNode)
ParseOptionalNode == Step("OPTIONAL-NODE", OptionalNode)
ParseProperties == Step("NODE", ParseNode)

\* The first entry of a collection comes after the token that opens it.
Opened(q, state) == SkipToken(Goto(PushMark(q), state))

ParseBlockSequenceFirstEntry ==
  Step("BLOCK-SEQUENCE-FIRST-ENTRY", LAMBDA q : Opened(q, "BLOCK-SEQUENCE-ENTRY"))
ParseBlockSequenceEntry == Step("BLOCK-SEQUENCE-ENTRY", BlockSequenceEntry)
ParseIndentlessSequenceEntry == Step("INDENTLESS-SEQUENCE-ENTRY", IndentlessSequenceEntry)

ParseBlockMappingFirstKey ==
  Step("BLOCK-MAPPING-FIRST-KEY", LAMBDA q : Opened(q, "BLOCK-MAPPING-KEY"))
ParseBlockMappingKey == Step("BLOCK-MAPPING-KEY", BlockMappingKey)
ParseBlockMappingValue == Step("BLOCK-MAPPING-VALUE", BlockMappingValue)

ParseFlowSequenceFirstEntry ==
  Step("FLOW-SEQUENCE-FIRST-ENTRY", LAMBDA q : Opened(q, "FLOW-SEQUENCE-REST"))
ParseFlowSequenceEntry == Step("FLOW-SEQUENCE-ENTRY", FlowSequenceEntry)
ParseFlowSequenceRest == Step("FLOW-SEQUENCE-REST", FlowSequenceRest)
ParseFlowSequenceEntryMappingKey ==
  Step("FLOW-SEQUENCE-ENTRY-MAPPING-KEY", FlowSequenceEntryMappingKey)
ParseFlowSequenceEntryMappingValue ==
  Step("FLOW-SEQUENCE-ENTRY-MAPPING-VALUE", FlowSequenceEntryMappingValue)
ParseFlowSequenceEntryMappingEnd ==
  Step("FLOW-SEQUENCE-ENTRY-MAPPING-END", FlowSequenceEntryMappingEnd)

ParseFlowMappingFirstKey ==
  Step("FLOW-MAPPING-FIRST-KEY", LAMBDA q : Opened(q, "FLOW-MAPPING-REST"))
ParseFlowMappingKey == Step("FLOW-MAPPING-KEY", FlowMappingKey)
ParseFlowMappingRest == Step("FLOW-MAPPING-REST", FlowMappingRest)
ParseFlowMappingValue == Step("FLOW-MAPPING-VALUE", FlowMappingValue)
ParseFlowMappingEmptyValue == Step("FLOW-MAPPING-EMPTY-VALUE", FlowMappingEmptyValue)

\* YAMLToJSON: an input without a visible character is null at once.
StartParsing(input) ==
  IF \A i \in DOMAIN input : is_blankz(input[i])
  THEN Done(Reader, Null) ELSE Reader

NextEvent ==
  /\ out.mode # "done"
  /\ \/ Peek
     \/ ParseStreamStart \/ ParseDocumentStart \/ ParseDirectives
     \/ ParseDocumentContent \/ ParseDocumentEnd
     \/ ParseBlockNode \/ ParseOptionalNode \/ ParseProperties
     \/ ParseBlockSequenceFirstEntry \/ ParseBlockSequenceEntry
     \/ ParseIndentlessSequenceEntry
     \/ ParseBlockMappingFirstKey \/ ParseBlockMappingKey \/ ParseBlockMappingValue
     \/ ParseFlowSequenceFirstEntry \/ ParseFlowSequenceEntry \/ ParseFlowSequenceRest
     \/ ParseFlowSequenceEntryMappingKey \/ ParseFlowSequenceEntryMappingValue
     \/ ParseFlowSequenceEntryMappingEnd
     \/ ParseFlowMappingFirstKey \/ ParseFlowMappingKey \/ ParseFlowMappingRest
     \/ ParseFlowMappingValue \/ ParseFlowMappingEmptyValue
  /\ out' = CASE p'.error # "" -> Fail(out, "parse failed")
              [] p'.event = NoEvent -> out
              [] OTHER -> Accept(out, p'.event)

=============================================================================
