---------------------------- MODULE YamlConvert ----------------------------
(***************************************************************************)
(* The two conversions of the yaml package put together.  A job reads a    *)
(* YAML text, reads the JSON text of a value as YAML, or writes a value as *)
(* YAML and reads the result back: the round trip of a config set that is  *)
(* kept in a file.                                                         *)
(***************************************************************************)
EXTENDS YamlParser, YamlEmitter

CONSTANTS Texts,   \* YAML texts to read
          Values   \* JSON values to write and to read back

VARIABLE job

vars == <<p, out, e, job>>

Job(kind, value) == [kind |-> kind, value |-> value]

StartReading(text) == p = Parser(text) /\ out = StartParsing(text) /\ e = Emitter(Null)

Init ==
  \/ \E text \in Texts : job = Job("text", Null) /\ StartReading(text)
  \/ \E v \in Values : job = Job("json", v) /\ StartReading(JsonText(v))
  \/ /\ \E v \in Values : job = Job("yaml", v) /\ e = Emitter(v)
     /\ p = Parser(<<>>) /\ out = Done(Reader, Null)

Writing == job.kind = "yaml" /\ e.error = "" /\ e.state # "END"

Written ==
  /\ job.kind = "yaml" /\ e.state = "END" /\ p.input # e.text
  /\ p' = Parser(e.text) /\ out' = StartParsing(e.text)
  /\ UNCHANGED <<e, job>>

Next == \/ Writing /\ EmitNext /\ UNCHANGED <<p, out, job>>
        \/ Written
        \/ NextEvent /\ UNCHANGED <<e, job>>

Spec == Init /\ [][Next]_vars

-----------------------------------------------------------------------------
\* A value as it comes back: an empty list is null.
RECURSIVE Reread(_)
Reread(v) ==
  CASE v.t = "list" -> IF v.l = <<>> THEN Null
                       ELSE List([i \in DOMAIN v.l |-> Reread(v.l[i])])
    [] v.t = "map" -> Object([k \in DOMAIN v.m |-> Reread(v.m[k])])
    [] OTHER -> v

Finished == out.mode = "done" /\ (job.kind = "yaml" => e.state = "END" /\ p.input = e.text)
Succeeded == Finished /\ out.error = ""

\* The scanner inserts KEY and BLOCK-MAPPING-START tokens in the middle of its
\* queue and both machines pop stacks without testing them: no text makes an
\* index or a pop leave its bounds, and no value makes the emitter refuse an
\* event (scannerc.go fetch_value and roll_indent, parserc.go and emitterc.go
\* states and indents).
NeverPanics == p.error # "panic" /\ e.error = ""

\* The events of a document nest: the code that builds the value never meets an
\* event it does not expect, and when the document ends the stacks of the parser
\* and of the reader are empty (yaml.go parseValue, parserc.go state_machine).
EventsNest ==
  /\ out.error # "unexpected event"
  /\ Succeeded /\ p.state = "DOCUMENT-START" =>
       p.states = <<>> /\ p.marks = 0 /\ out.frames = <<>>

\* What JSONToYAML writes, YAMLToJSON reads as the same value, except that an
\* empty list comes back as null: the quoting the emitter chooses is the one
\* the scanner needs (emitterc.go analyze_scalar against scannerc.go
\* scan_plain_scalar and fetch_next_token).  JSON itself reads as the same value,
\* too: a config set may be written in either.
RoundTrip ==
  job.kind \in {"yaml", "json"} /\ Finished =>
    out.error = "" /\ out.result = Reread(job.value)

=============================================================================
