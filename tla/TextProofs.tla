------------------------------ MODULE TextProofs ------------------------------
(***************************************************************************)
(* What the texts of a turn go through: the lines Claude prints, the       *)
(* messages they are cut into, the names they mention, and the conversions *)
(* before a text is shown; then the types of all that is shown.            *)
(*                                                                         *)
(* Every theorem is for any bound: any blocks, fields and token counts of  *)
(* a line; any text and limit; any members, names and number of changes;   *)
(* any lines that are converted.                                           *)
(***************************************************************************)
EXTENDS MCOutput, OutputProofs, RulesProofs, FiniteSetTheorems, SequenceTheorems,
        WellFoundedInduction, TLAPS

(* The parser.  Claude's line is bent before it is read, so that the invariant keeps  *)
(* the line and says of an event that it is parse_line's; the rest follows from the   *)
(* table of the fields, reader by reader.                                             *)

\* The kinds of lines, those of type system by their subtype.
SystemKinds == {"init", "task_started", "task_progress", "task_notification", "compact_boundary"}
LineKindNames == {"assistant", "user", "rate_limit_event", "result", "control_request"} \cup SystemKinds

\* The fields of each kind.
LEMMA FieldsByKind ==
  /\ DOMAIN Fields = LineKindNames
  /\ Fields["assistant"] = AssistantFields /\ Fields["user"] = UserFields
  /\ Fields["rate_limit_event"] = RateLimitFields /\ Fields["result"] = ResultFields
  /\ Fields["control_request"] = ControlRequestFields /\ Fields["init"] = InitFields
  /\ Fields["task_started"] = TaskStartedFields /\ Fields["task_progress"] = TaskProgressFields
  /\ Fields["task_notification"] = TaskNotificationFields
  /\ Fields["compact_boundary"] = CompactBoundaryFields
BY DEF Fields, SystemKinds, LineKindNames

\* The deserializers of the fields.
Readers == {"string", "bool", "u64", "u32", "f64", "strings", "value", "opt_string", "opt_bool",
            "opt_u64", "opt_f64", "strict_string", "strict_u64", "struct", "opt_struct", "map",
            "blocks"}

\* Every field has a reader of the table, the fields that may cost the line are the ones
\* without a fallback, and the fields with others inside are objects.
GoodField(f, reader) ==
  /\ reader \in Readers
  /\ Fatal(reader) # {} => f \in MayCostTheLine
  /\ f \in DOMAIN Inner => reader \in {"struct", "opt_struct", "map"}

\* It is so for each field of each kind.
LEMMA ReaderTable ==
  ASSUME NEW kind \in DOMAIN Fields, NEW f \in DOMAIN Fields[kind]
  PROVE  GoodField(f, Fields[kind][f])
<1> DEFINE Lenient == {"string", "bool", "u64", "u32", "f64", "strings", "value", "opt_string",
                       "opt_bool", "opt_u64", "opt_f64"}
<1>1. \A reader \in Lenient : Fatal(reader) = {}
  BY DEF Fatal
<1>2. DOMAIN Inner = {"message", "request", "rate_limit_info", "usage", "modelUsage",
                      "compact_metadata"}
  BY DEF Inner
<1> USE DEF GoodField, MayCostTheLine, Readers
<1>3. CASE kind = "assistant"
  BY <1>1, <1>2, <1>3, FieldsByKind DEF AssistantFields
<1>4. CASE kind = "user"
  BY <1>1, <1>2, <1>4, FieldsByKind DEF UserFields
<1>5. CASE kind = "rate_limit_event"
  BY <1>1, <1>2, <1>5, FieldsByKind DEF RateLimitFields
<1>6. CASE kind = "result"
  BY <1>1, <1>2, <1>6, FieldsByKind DEF ResultFields
<1>7. CASE kind = "control_request"
  BY <1>1, <1>2, <1>7, FieldsByKind DEF ControlRequestFields
<1>8. CASE kind \in SystemKinds
  <2>1. CASE kind = "init"
    BY <1>1, <1>2, <2>1, FieldsByKind DEF InitFields
  <2>2. CASE kind = "task_started"
    BY <1>1, <1>2, <2>2, FieldsByKind DEF TaskStartedFields
  <2>3. CASE kind = "task_progress"
    BY <1>1, <1>2, <2>3, FieldsByKind DEF TaskProgressFields
  <2>4. CASE kind = "task_notification"
    BY <1>1, <1>2, <2>4, FieldsByKind DEF TaskNotificationFields
  <2>5. CASE kind = "compact_boundary"
    BY <1>1, <1>2, <2>5, FieldsByKind DEF CompactBoundaryFields
  <2> QED BY <1>8, <2>1, <2>2, <2>3, <2>4, <2>5 DEF SystemKinds
<1> QED BY <1>3, <1>4, <1>5, <1>6, <1>7, <1>8, FieldsByKind DEF LineKindNames

\* The usual shape of a field is one its reader keeps.
LEMMA UsualIsKept ==
  ASSUME NEW reader \in Readers
  PROVE  /\ Usual(reader) \in Kept[reader] /\ Usual(reader) \in Shapes
         /\ Usual(reader) \notin Fatal(reader)
         /\ reader \in {"struct", "opt_struct", "map"} => Usual(reader) = "object"
BY DEF Readers, Usual, Kept, Shapes, Fatal

\* A line that can be printed.
IsLine(l) ==
  /\ l.kind \in DOMAIN Fields
  /\ l = [kind |-> l.kind, tag |-> l.tag, blocks |-> l.blocks, fields |-> l.fields]
  /\ l.fields \in [DOMAIN Fields[l.kind] -> Shapes]
  /\ l.blocks \in Seq(BlockTypes(l.kind) \cup {"unknown", "untyped"})

\* The event is the line's, and a response the one to its request.
ResponseIsDue ==
  /\ event # NotRead /\ event.kind = "control_request"
  /\ response.id = event.fields.request_id
  /\ response.behavior = "allow" => response.input = event.fields.input
  /\ response.answers # "none" =>
       response.answers = IF event.fields.input = "object" THEN "added" ELSE "lost"

\* The line was printed, the event is what parse_line makes of it and the response is
\* due.
ParserInd ==
  /\ IsLine(line)
  /\ event # NotRead => event = ParseLine(line)
  /\ response # NotWritten => ResponseIsDue

\* A line is printed the way Claude usually does.
LEMMA ParserInitial == ParserInit => ParserInd
<1> SUFFICES ASSUME ParserInit PROVE ParserInd
  OBVIOUS
<1>1. PICK kind \in DOMAIN Fields : line = UsualLine(kind)
  BY DEF ParserInit
<1>2. \A f \in DOMAIN Fields[kind] : Usual(Fields[kind][f]) \in Shapes
  BY ReaderTable, UsualIsKept DEF GoodField
<1>3. [f \in DOMAIN Fields[kind] |-> Usual(Fields[kind][f])] \in [DOMAIN Fields[kind] -> Shapes]
  BY <1>2
<1>4. IsLine(line)
  BY <1>1, <1>3 DEF IsLine, UsualLine
<1> QED BY <1>4 DEF ParserInit, ParserInd

\* Then fields are bent, the line is read and answered.
LEMMA ParserStep == ParserInd /\ [ParserNext]_parserVars => ParserInd'
<1> SUFFICES ASSUME ParserInd, [ParserNext]_parserVars PROVE ParserInd'
  OBVIOUS
<1>1. ASSUME NEW f \in DOMAIN line.fields, NEW shape \in Shapes, PrintOddly(f, shape)
      PROVE  ParserInd'
  <2> DEFINE fields == [line.fields EXCEPT ![f] = shape]
  <2>1. line' = [kind |-> line.kind, tag |-> line.tag, blocks |-> line.blocks, fields |-> fields]
    BY <1>1 DEF PrintOddly, ParserInd, IsLine
  <2>2. fields \in [DOMAIN Fields[line.kind] -> Shapes]
    BY DEF ParserInd, IsLine
  <2> HIDE DEF fields
  <2>3. IsLine(line')
    BY <2>1, <2>2 DEF ParserInd, IsLine
  <2>4. event' = NotRead /\ response' = response /\ event = NotRead
    BY <1>1 DEF PrintOddly
  <2> QED BY <2>3, <2>4 DEF ParserInd, ResponseIsDue
<1>2. CASE PrintTag
  <2>1. line' = [kind |-> line.kind, tag |-> "unknown", blocks |-> line.blocks,
                 fields |-> line.fields]
    BY <1>2 DEF PrintTag, ParserInd, IsLine
  <2>2. IsLine(line')
    BY <2>1 DEF ParserInd, IsLine
  <2>3. event' = NotRead /\ response' = response /\ event = NotRead
    BY <1>2 DEF PrintTag
  <2> QED BY <2>2, <2>3 DEF ParserInd, ResponseIsDue
<1>3. ASSUME NEW b \in BlockTypes(line.kind) \cup {"unknown", "untyped"}, PrintBlock(b)
      PROVE  ParserInd'
  <2> DEFINE blocks == Append(line.blocks, b)
  <2> DEFINE types == BlockTypes(line.kind) \cup {"unknown", "untyped"}
  <2>1. line' = [kind |-> line.kind, tag |-> line.tag, blocks |-> blocks, fields |-> line.fields]
    BY <1>3 DEF PrintBlock, ParserInd, IsLine
  <2>4. line.blocks \in Seq(types) /\ b \in types
    BY DEF ParserInd, IsLine
  <2>5. blocks \in Seq(types)
    <3> HIDE DEF types
    <3> QED BY <2>4
  <2>6. line'.blocks \in Seq(BlockTypes(line'.kind) \cup {"unknown", "untyped"})
    BY <2>1, <2>5
  <2> HIDE DEF blocks, types
  <2>2. IsLine(line')
    BY <2>1, <2>6 DEF ParserInd, IsLine
  <2>3. event' = NotRead /\ response' = response /\ event = NotRead
    BY <1>3 DEF PrintBlock
  <2> QED BY <2>2, <2>3 DEF ParserInd, ResponseIsDue
<1>4. CASE ReadLine
  BY <1>4 DEF ReadLine, ParserInd, ResponseIsDue
<1>5. ASSUME NEW behavior \in {"allow", "deny"}, Respond(behavior)
      PROVE  ParserInd'
  BY <1>5 DEF Respond, ParserInd, ResponseIsDue
<1>6. CASE RespondWithAnswers
  BY <1>6 DEF RespondWithAnswers, ParserInd, ResponseIsDue
<1>7. CASE UNCHANGED parserVars
  BY <1>7 DEF parserVars, ParserInd, ResponseIsDue
<1> QED BY <1>1, <1>2, <1>3, <1>4, <1>5, <1>6, <1>7 DEF ParserNext

\* What a reader makes of a field that is as usual, in containers that are.
LEMMA UsualValue ==
  ASSUME NEW l, IsLine(l), NEW f \in DOMAIN l.fields,
         (Containers(l.kind, f) \cup {f}) \cap Odd(l) = {}
  PROVE  /\ Seen(l, f) = l.fields[f] /\ l.fields[f] = Usual(Fields[l.kind][f])
         /\ Value(l, f) = Usual(Fields[l.kind][f])
<1>1. f \in DOMAIN Fields[l.kind] /\ l.fields[f] = Usual(Fields[l.kind][f])
  BY DEF IsLine, Odd
<1>2. ASSUME NEW c \in Containers(l.kind, f) PROVE l.fields[c] = "object"
  <2>1. c \in DOMAIN Inner /\ c \in DOMAIN Fields[l.kind]
    BY DEF Containers
  <2>2. l.fields[c] = Usual(Fields[l.kind][c])
    BY <2>1 DEF Odd, IsLine
  <2> QED BY <2>1, <2>2, ReaderTable, UsualIsKept DEF IsLine, GoodField
<1>3. Seen(l, f) = l.fields[f]
  BY <1>2 DEF Seen
<1>4. Usual(Fields[l.kind][f]) \in Kept[Fields[l.kind][f]]
  BY <1>1, ReaderTable, UsualIsKept DEF IsLine, GoodField
<1> QED BY <1>1, <1>3, <1>4 DEF Value

\* No kind of line is the kind of an event that stands for nothing.
LEMMA KindsDiffer == "unknown" \notin DOMAIN Fields /\ "none" \notin DOMAIN Fields
BY FieldsByKind DEF LineKindNames, SystemKinds

\* What is known of an event once there is one.
LEMMA EventOfLine ==
  ASSUME ParserInd, event # NotRead
  PROVE  /\ event.kind = "unknown" <=> ~Readable(line)
         /\ event.kind # "unknown" =>
              /\ event.kind = line.kind
              /\ event.fields = [f \in DOMAIN line.fields |-> Value(line, f)]
              /\ event.blocks = EventBlocks(line) /\ event.tokens = InputTokens(line)
BY KindsDiffer DEF ParserInd, ParseLine, IsLine, Unknown, NoFields

\* Odd fields cost the line only where nothing can replace them.
LEMMA OddFieldsForgiven == ParserInd => OddFieldsAreForgiven
<1> SUFFICES ASSUME ParserInd, event # NotRead, event.kind = "unknown",
                    line.tag = "known", "untyped" \notin ToSet(line.blocks)
             PROVE  Odd(line) \cap MayCostTheLine # {}
  BY DEF OddFieldsAreForgiven
<1>1. ~Readable(line)
  BY EventOfLine
<1>2. "untyped" \notin ToSet(Blocks(line))
  BY DEF Blocks, ToSet
<1>3. PICK f \in DOMAIN line.fields : Seen(line, f) \in Fatal(Fields[line.kind][f])
  BY <1>1, <1>2 DEF Readable
<1>4. f \in DOMAIN Fields[line.kind] /\ line.kind \in DOMAIN Fields
  BY DEF ParserInd, IsLine
<1>5. CASE \E c \in Containers(line.kind, f) : line.fields[c] # "object"
  <2>1. PICK c \in Containers(line.kind, f) : line.fields[c] # "object"
    BY <1>5
  <2>2. c \in DOMAIN Inner /\ c \in DOMAIN Fields[line.kind] /\ c \in DOMAIN line.fields
    BY DEF Containers, ParserInd, IsLine
  <2>3. Usual(Fields[line.kind][c]) = "object"
    BY <1>4, <2>2, ReaderTable, UsualIsKept DEF GoodField
  <2>4. c \in Odd(line) /\ c \in MayCostTheLine
    BY <2>1, <2>2, <2>3 DEF Odd, MayCostTheLine
  <2> QED BY <2>4
<1>6. CASE ~\E c \in Containers(line.kind, f) : line.fields[c] # "object"
  <2>1. line.fields[f] \in Fatal(Fields[line.kind][f])
    BY <1>3, <1>6 DEF Seen
  <2>2. line.fields[f] # Usual(Fields[line.kind][f]) /\ f \in MayCostTheLine
    BY <1>4, <2>1, ReaderTable, UsualIsKept DEF GoodField
  <2> QED BY <2>2 DEF Odd
<1> QED BY <1>5, <1>6

\* A field does not suffer from the others.
LEMMA OddFieldsAlone == ParserInd => OddFieldsStayAlone
<1> SUFFICES ASSUME ParserInd, event # NotRead, event.kind # "unknown",
                    NEW f \in DOMAIN line.fields,
                    (Containers(line.kind, f) \cup {f}) \cap Odd(line) = {}
             PROVE  event.fields[f] = Usual(Fields[line.kind][f])
  BY DEF OddFieldsStayAlone
<1> QED BY EventOfLine, UsualValue DEF ParserInd

\* The response has the request's id and kind.
LEMMA ResponseFits == ParserInd => ResponseFitsRequest
<1> SUFFICES ASSUME ParserInd, response # NotWritten,
                    Odd(line) \cap {"request", "request_id", "input"} = {}
             PROVE  /\ response.id = "string"
                    /\ response.behavior = "allow" => response.input = "object"
                    /\ response.answers # "lost"
  BY DEF ResponseFitsRequest
<1>1. ResponseIsDue
  BY DEF ParserInd
<1>2. event # NotRead /\ event.kind = "control_request" /\ line.kind = "control_request"
  BY <1>1, EventOfLine DEF ResponseIsDue
<1>3. DOMAIN line.fields = DOMAIN ControlRequestFields
  BY <1>2, FieldsByKind DEF ParserInd, IsLine
<1>4. "request_id" \in DOMAIN line.fields /\ "input" \in DOMAIN line.fields
  BY <1>3 DEF ControlRequestFields
<1>5. Containers(line.kind, "request_id") = {} /\ Containers(line.kind, "input") \subseteq {"request"}
  BY <1>2, FieldsByKind DEF Containers, Inner, ControlRequestFields
<1>6. ControlRequestFields.request_id = "string" /\ ControlRequestFields.input = "value"
  BY DEF ControlRequestFields
<1>7. Usual("string") = "string" /\ Usual("value") = "object"
  BY DEF Usual
<1>8. OddFieldsStayAlone
  BY OddFieldsAlone
<1>9. event.fields["request_id"] = "string" /\ event.fields["input"] = "object"
  BY <1>2, <1>4, <1>5, <1>6, <1>7, <1>8, FieldsByKind DEF OddFieldsStayAlone
<1> QED BY <1>1, <1>9 DEF ResponseIsDue

\* A saturating sum is a u64.
LEMMA Sums ==
  ASSUME NEW a \in 0..U64Max, NEW b \in 0..U64Max
  PROVE  /\ SaturatingAdd(a, b) \in 0..U64Max
         /\ SaturatingAdd(a, b) >= a /\ SaturatingAdd(a, b) >= b
BY ParserAssumption DEF SaturatingAdd

\* So is a token count.
LEMMA Amounts == ASSUME NEW shape PROVE Amount(shape) \in 0..U64Max
BY ParserAssumption DEF Amount

\* The tokens of the prompt are those of the message.
LEMMA TokensSum == ParserInd => TokensAddUp
<1> SUFFICES ASSUME ParserInd, event # NotRead, event.kind = "result"
             PROVE  /\ event.tokens <= U64Max
                    /\ \A f \in {"input_tokens", "cache_read_input_tokens"} :
                          event.tokens >= Amount(event.fields[f])
  BY DEF TokensAddUp
<1> DEFINE a == Amount(Value(line, "input_tokens"))
           b == Amount(Value(line, "cache_creation_input_tokens"))
           c == Amount(Value(line, "cache_read_input_tokens"))
<1>1. line.kind = "result" /\ event.tokens = InputTokens(line)
      /\ event.fields = [f \in DOMAIN line.fields |-> Value(line, f)]
  BY EventOfLine
<1>2. DOMAIN line.fields = DOMAIN ResultFields
  BY <1>1, FieldsByKind DEF ParserInd, IsLine
<1>3. "input_tokens" \in DOMAIN line.fields /\ "cache_read_input_tokens" \in DOMAIN line.fields
  BY <1>2 DEF ResultFields
<1>4. a = Amount(event.fields["input_tokens"]) /\ c = Amount(event.fields["cache_read_input_tokens"])
  BY <1>1, <1>3
<1>5. event.tokens = SaturatingAdd(SaturatingAdd(a, b), c)
  BY <1>1 DEF InputTokens
<1>6. a \in 0..U64Max /\ b \in 0..U64Max /\ c \in 0..U64Max
  BY Amounts
<1> HIDE DEF a, b, c
<1>7. SaturatingAdd(a, b) \in 0..U64Max /\ SaturatingAdd(a, b) >= a
  BY <1>6, Sums
<1>8. /\ event.tokens \in 0..U64Max
      /\ event.tokens >= SaturatingAdd(a, b) /\ event.tokens >= c
  BY <1>5, <1>6, <1>7, Sums
<1>9. event.tokens >= a
  BY <1>6, <1>7, <1>8
<1> QED BY <1>4, <1>8, <1>9, ParserAssumption

\* A selection looks at the elements only.
LEMMA OnlySame ==
  ASSUME NEW s, NEW S, NEW T, \A i \in 0..Len(s) : i # 0 => (s[i] \in S <=> s[i] \in T)
  PROVE  Only(s, S) = Only(s, T)
<1> DEFINE Next(f, types, i) ==
             IF i = 0 THEN <<>>
             ELSE IF s[i] \in types THEN Append(f[i - 1], s[i]) ELSE f[i - 1]
           Walk(f, types) == f = [i \in 0..Len(s) |-> Next(f, types, i)]
<1>1. \A f : Walk(f, S) <=> Walk(f, T)
  <2> TAKE f
  <2>1. ASSUME NEW i \in 0..Len(s) PROVE Next(f, S, i) = Next(f, T, i)
    BY Zenon
  <2> QED BY <2>1, Zenon
<1>2. /\ Only(s, S) = (CHOOSE f : Walk(f, S))[Len(s)]
      /\ Only(s, T) = (CHOOSE f : Walk(f, T))[Len(s)]
  BY DEF Only
<1> HIDE DEF Walk
<1>3. (CHOOSE f : Walk(f, S)) = (CHOOSE f : Walk(f, T))
  BY <1>1, Zenon
<1> QED BY <1>2, <1>3, Zenon

\* And no block is lost or moved.
LEMMA BlocksSame == ParserInd => BlocksAreKept
<1> SUFFICES ASSUME ParserInd, event # NotRead, event.kind = "assistant", Odd(line) = {}
             PROVE  event.blocks = Only(line.blocks, ToSet(line.blocks) \ {"unknown"})
  BY DEF BlocksAreKept
<1> DEFINE s == line.blocks
<1>1. line.kind = "assistant" /\ Readable(line) /\ event.blocks = EventBlocks(line)
  BY EventOfLine
<1>2. "content" \in DOMAIN line.fields /\ Fields[line.kind]["content"] = "blocks"
  BY <1>1, FieldsByKind DEF ParserInd, IsLine, AssistantFields
<1>3. Seen(line, "content") = "array"
  BY <1>2, UsualValue DEF ParserInd, Usual
<1>4. Blocks(line) = s
  BY <1>2, <1>3 DEF Blocks
<1>5. event.blocks = Only(s, {"text", "thinking", "tool_use"})
  BY <1>1, <1>4 DEF EventBlocks, BlockTypes
<1>6. /\ s \in Seq({"text", "thinking", "tool_use", "unknown", "untyped"})
      /\ "untyped" \notin ToSet(s)
  BY <1>1, <1>4 DEF ParserInd, IsLine, BlockTypes, Readable
<1>7. ASSUME NEW i \in 0..Len(s), i # 0
      PROVE  s[i] \in {"text", "thinking", "tool_use"} <=> s[i] \in ToSet(s) \ {"unknown"}
  <2>1. i \in 1..Len(s) /\ s[i] \in ToSet(s)
    BY <1>6, <1>7 DEF ToSet
  <2>2. s[i] \in {"text", "thinking", "tool_use", "unknown", "untyped"}
    BY <1>6, <2>1
  <2> QED BY <1>6, <2>1, <2>2
<1> HIDE DEF s
<1>8. Only(s, {"text", "thinking", "tool_use"}) = Only(s, ToSet(s) \ {"unknown"})
  BY <1>7, OnlySame
<1> QED BY <1>5, <1>8 DEF s

\* What Claude prints is read as what it is and answered as what it was: whatever shapes
\* its fields have, for any number of odd ones, any blocks and any token counts.
THEOREM LinesStayUnderstood == ParserSpec => []LinesAreUnderstood
<1>1. ParserInd => LinesAreUnderstood
  BY OddFieldsForgiven, OddFieldsAlone, BlocksSame, ResponseFits, TokensSum
     DEF LinesAreUnderstood
<1> QED BY <1>1, ParserInitial, ParserStep, PTL DEF ParserSpec

\* How far a line is bent.
BoundsInd == IsFiniteSet(Odd(line)) /\ OddCount(line) <= MaxOdd /\ Len(line.blocks) <= MaxBlocks

\* Each print bends one field or the tag, or adds a block.
LEMMA BoundsStep == ParserInd /\ BoundsInd /\ [ParserNext]_parserVars => BoundsInd'
<1> SUFFICES ASSUME ParserInd, BoundsInd, [ParserNext]_parserVars PROVE BoundsInd'
  OBVIOUS
<1>1. /\ line = [kind |-> line.kind, tag |-> line.tag, blocks |-> line.blocks, fields |-> line.fields]
      /\ line.blocks \in Seq(BlockTypes(line.kind) \cup {"unknown", "untyped"})
  BY DEF ParserInd, IsLine
<1>2. MaxOdd \in Nat /\ MaxBlocks \in Nat /\ Cardinality(Odd(line)) \in Nat
  BY ParserAssumption, FS_CardinalityType DEF BoundsInd
<1>3. ASSUME NEW f \in DOMAIN line.fields, NEW shape, PrintOddly(f, shape)
      PROVE  BoundsInd'
  <2> DEFINE fields == [line.fields EXCEPT ![f] = shape]
  <2>1. line' = [kind |-> line.kind, tag |-> line.tag, blocks |-> line.blocks, fields |-> fields]
    BY <1>1, <1>3 DEF PrintOddly
  <2>2. /\ DOMAIN fields = DOMAIN line.fields
        /\ \A g \in DOMAIN line.fields : g # f => fields[g] = line.fields[g]
    OBVIOUS
  <2> HIDE DEF fields
  <2>3. Odd(line') = Odd(line) \/ Odd(line') = Odd(line) \cup {f}
    BY <1>3, <2>1, <2>2 DEF Odd, PrintOddly
  <2>4. IsFiniteSet(Odd(line')) /\ Cardinality(Odd(line')) <= Cardinality(Odd(line)) + 1
        /\ Cardinality(Odd(line')) \in Nat
    <3>1. CASE Odd(line') = Odd(line)
      BY <1>2, <3>1 DEF BoundsInd
    <3>2. CASE Odd(line') = Odd(line) \cup {f}
      <4> DEFINE odd == Odd(line)
      <4>1. IsFiniteSet(odd) /\ Cardinality(odd) \in Nat
        BY <1>2 DEF BoundsInd
      <4> HIDE DEF odd
      <4>2. /\ IsFiniteSet(odd \cup {f})
            /\ Cardinality(odd \cup {f}) = IF f \in odd THEN Cardinality(odd) ELSE Cardinality(odd) + 1
        BY <4>1, FS_AddElement
      <4>3. Cardinality(odd \cup {f}) <= Cardinality(odd) + 1 /\ Cardinality(odd \cup {f}) \in Nat
        BY <4>1, <4>2
      <4>4. Odd(line') = odd \cup {f} /\ Odd(line) = odd
        BY <3>2 DEF odd
      <4> QED BY <4>2, <4>3, <4>4
    <3> QED BY <2>3, <3>1, <3>2
  <2>5. OddCount(line') <= OddCount(line) + 1 /\ OddCount(line) < MaxOdd
        /\ OddCount(line') \in Nat /\ OddCount(line) \in Nat
    BY <1>2, <1>3, <2>1, <2>4 DEF OddCount, PrintOddly
  <2> QED BY <1>2, <2>1, <2>4, <2>5 DEF BoundsInd
<1>4. CASE PrintTag
  <2>1. line' = [kind |-> line.kind, tag |-> "unknown", blocks |-> line.blocks,
                 fields |-> line.fields]
    BY <1>1, <1>4 DEF PrintTag
  <2>2. Odd(line') = Odd(line)
    BY <2>1 DEF Odd
  <2>3. OddCount(line') <= MaxOdd
    BY <1>2, <1>4, <2>1, <2>2 DEF OddCount, PrintTag
  <2> QED BY <2>1, <2>2, <2>3 DEF BoundsInd
<1>5. ASSUME NEW b \in BlockTypes(line.kind) \cup {"unknown", "untyped"}, PrintBlock(b)
      PROVE  BoundsInd'
  <2> DEFINE blocks == Append(line.blocks, b)
             types == BlockTypes(line.kind) \cup {"unknown", "untyped"}
  <2>1. line' = [kind |-> line.kind, tag |-> line.tag, blocks |-> blocks, fields |-> line.fields]
    BY <1>1, <1>5 DEF PrintBlock
  <2>2. Len(blocks) = Len(line.blocks) + 1 /\ Len(line.blocks) \in Nat
    <3>1. line.blocks \in Seq(types)
      BY <1>1
    <3> HIDE DEF types
    <3> QED BY <3>1
  <2>3. Len(line.blocks) < MaxBlocks
    BY <1>5 DEF PrintBlock
  <2> HIDE DEF blocks
  <2>4. Odd(line') = Odd(line) /\ OddCount(line') = OddCount(line)
    BY <2>1 DEF Odd, OddCount
  <2> QED BY <1>2, <2>1, <2>2, <2>3, <2>4 DEF BoundsInd
<1>6. CASE UNCHANGED line
  BY <1>6 DEF BoundsInd
<1>7. CASE ReadLine \/ (\E behavior \in {"allow", "deny"} : Respond(behavior)) \/ RespondWithAnswers
           \/ UNCHANGED parserVars
  <2>1. UNCHANGED line
    BY <1>7 DEF ReadLine, Respond, RespondWithAnswers, parserVars
  <2> QED BY <1>6, <2>1
<1> QED BY <1>3, <1>4, <1>5, <1>7 DEF ParserNext

\* A line is bent and filled no more than its bounds say, and an answer is only ever
\* written for a line that was read as a control_request (ParserTypeOK).
THEOREM LinesStayTyped == ParserSpec => []ParserTypeOK
<1>1. ParserInit => BoundsInd
  <2> SUFFICES ASSUME ParserInit PROVE BoundsInd
    OBVIOUS
  <2>1. PICK kind \in DOMAIN Fields : line = UsualLine(kind)
    BY DEF ParserInit
  <2>2. Odd(line) = {} /\ line.tag = "known" /\ line.blocks = <<>>
    BY <2>1 DEF Odd, UsualLine
  <2> QED BY <2>2, ParserAssumption, FS_EmptySet DEF BoundsInd, OddCount
<1>2. ASSUME ParserInd, BoundsInd PROVE ParserTypeOK
  <2>1. response # NotWritten => event # NotRead /\ event.kind = "control_request"
    BY <1>2 DEF ParserInd, ResponseIsDue
  <2>2. event # NotRead /\ event.kind = "control_request" => line.kind = "control_request"
    BY <1>2, EventOfLine
  <2> QED BY <1>2, <2>1, <2>2 DEF ParserTypeOK, BoundsInd
<1> QED BY <1>1, <1>2, ParserInitial, ParserStep, BoundsStep, PTL DEF ParserSpec
-----------------------------------------------------------------------------
(* The splitter.  The message under way and the last piece of a line are below the    *)
(* limit; only flush adds to a message, and what it adds closes a code block.          *)

\* A message or a piece of one; only the tail of a cut line may be computed below zero.
Sizes == [size : Int, marks : Nat]

\* What the splitter's state is made of.
SplitTypes ==
  /\ rest \in Seq(LineKinds)
  /\ current \in [size : 0..MaxLen, marks : Nat]
  /\ codeLang \in {-1} \cup 0..(MaxLen - 13)
  /\ messages \in Seq(Sizes)

\* Every message made so far is near the limit.
SplitInd == SplitTypes /\ \A i \in 1..Len(messages) : messages[i].size <= MaxLen + 3

\* A line of s characters is cut into pieces of e, of which the last one is no longer.
LEMMA LastPiece ==
  ASSUME NEW s \in Nat, NEW e \in Nat \ {0}
  PROVE  /\ (s + e - 1) \div e \in Nat
         /\ s - ((s + e - 1) \div e - 1) * e \in Int
         /\ s - ((s + e - 1) \div e - 1) * e <= e
OBVIOUS

\* split_long_line: no piece is longer than the limit, the mark that closes a code
\* block included.
LEMMA PiecesFit ==
  ASSUME NEW m \in [size : Nat, marks : Nat], NEW lang \in Int
  PROVE  /\ Pieces(m, lang) \in Seq(Sizes)
         /\ \A i \in 1..Len(Pieces(m, lang)) : Pieces(m, lang)[i].size <= MaxLen
<1> DEFINE eff == IF lang >= 0 THEN MaxLen - 10 ELSE MaxLen
           n == (m.size + eff - 1) \div eff
           tail == m.size - (n - 1) * eff
           kept == IF tail = 1 THEN n - 1 ELSE n
           Size(i) == IF i < n THEN eff ELSE tail
           Marks(i) == IF i = 1 THEN m.marks ELSE 0
           Piece(i) == IF lang >= 0 /\ i < kept
                       THEN [size |-> Size(i) + 4, marks |-> Marks(i) + 1]
                       ELSE [size |-> Size(i), marks |-> Marks(i)]
<1>1. eff \in Nat \ {0} /\ eff <= MaxLen /\ (lang >= 0 => eff + 4 <= MaxLen)
  BY SplitAssumption
<1>2. m.size \in Nat /\ m.marks \in Nat
  OBVIOUS
<1>3. n \in Nat /\ tail \in Int /\ tail <= eff
  <2> HIDE DEF eff
  <2> QED BY <1>1, <1>2, LastPiece
<1>4. kept \in Int
  <2> HIDE DEF n, tail
  <2> QED BY <1>3
<1>5. ASSUME NEW i \in 1..kept
      PROVE  Piece(i) \in Sizes /\ Piece(i).size <= MaxLen
  <2> HIDE DEF eff, n, tail, kept
  <2>1. Size(i) \in Int /\ Size(i) <= eff /\ Marks(i) \in Nat
    BY <1>1, <1>2, <1>3, <1>4
  <2> HIDE DEF Size, Marks
  <2> QED BY <2>1, <1>1, SplitAssumption DEF Sizes
<1>6. Pieces(m, lang) = [i \in 1..kept |-> Piece(i)]
  BY DEF Pieces
<1> HIDE DEF Piece, kept
<1>7. CASE kept \in Nat
  <2>1. Pieces(m, lang) \in Seq(Sizes) /\ Len(Pieces(m, lang)) = kept
    BY <1>5, <1>6, <1>7
  <2> QED BY <1>5, <1>6, <2>1
<1>8. CASE kept \notin Nat
  <2>1. 1..kept = 1..0
    BY <1>4, <1>8
  <2>2. Pieces(m, lang) = [i \in 1..0 |-> Piece(i)]
    BY <1>6, <2>1
  <2>3. ASSUME NEW f, f = [i \in 1..0 |-> Piece(i)]
        PROVE  f \in Seq(Sizes) /\ Len(f) = 0
    BY <2>3
  <2> QED BY <2>2, <2>3
<1> QED BY <1>7, <1>8

\* The lines of the texts have lengths.
LEMMA LineLength ==
  ASSUME SplitTypes, rest # <<>>
  PROVE  /\ Head(rest) \in LineKinds /\ Tail(rest) \in Seq(LineKinds)
         /\ Head(rest) \in [size : Nat \ {0}, fence : BOOLEAN]
         /\ Head(rest).fence => Head(rest).size \in 3..(MaxLen - 10)
<1>1. Head(rest) \in LineKinds /\ Tail(rest) \in Seq(LineKinds)
  BY HeadTailProperties DEF SplitTypes
<1> QED BY <1>1, SplitAssumption

\* A block that is opened again fits an empty message.
LEMMA ReopenedFits ==
  ASSUME NEW lang \in {-1} \cup 0..(MaxLen - 13)
  PROVE  Reopened(lang) \in [size : 0..MaxLen, marks : Nat]
BY SplitAssumption DEF Reopened, Blank

\* Trimming the end makes nothing longer.
LEMMA TrimmedFits ==
  ASSUME NEW max \in Nat, NEW m \in [size : 0..max, marks : Nat]
  PROVE  Trimmed(m) \in Sizes /\ Trimmed(m).size <= max - 1
BY DEF Trimmed, Sizes

\* flush: the messages it adds are near the limit when the one under way is.
LEMMA FlushedFits ==
  ASSUME SplitInd, NEW taken \in [size : Nat \ {0}, fence : BOOLEAN]
  PROVE  LET f == FlushedBefore(taken)
         IN /\ f.cur \in [size : 0..MaxLen, marks : Nat]
            /\ f.out \in Seq(Sizes)
            /\ \A i \in 1..Len(f.out) : f.out[i].size <= MaxLen + 3
<1> DEFINE cut == InCode /\ ~taken.fence
           closed == IF cut THEN [size |-> current.size + 4, marks |-> current.marks + 1]
                            ELSE current
           next == IF cut THEN Reopened(codeLang) ELSE Blank
           f == FlushedBefore(taken)
           fits == current.size + taken.size + 1 <= MaxLen \/ current.size = 0
<1>1. CASE fits
  BY <1>1 DEF FlushedBefore, SplitInd, SplitTypes
<1>2. CASE ~fits
  <2>1. f.cur = next /\ f.out = Append(messages, Trimmed(closed))
    BY <1>2 DEF FlushedBefore
  <2>2. next \in [size : 0..MaxLen, marks : Nat]
    BY ReopenedFits, SplitAssumption DEF SplitInd, SplitTypes, Blank
  <2>3. closed \in [size : 0..(MaxLen + 4), marks : Nat]
    BY SplitAssumption DEF SplitInd, SplitTypes
  <2>4. Trimmed(closed) \in Sizes /\ Trimmed(closed).size <= MaxLen + 3
    <3> HIDE DEF closed
    <3> DEFINE top == MaxLen + 4
    <3>1. top \in Nat /\ closed \in [size : 0..top, marks : Nat]
      BY <2>3, SplitAssumption
    <3> HIDE DEF top
    <3>2. Trimmed(closed) \in Sizes /\ Trimmed(closed).size <= top - 1
      BY <3>1, TrimmedFits
    <3> QED BY <3>2, SplitAssumption DEF Sizes, top
  <2> HIDE DEF closed, next, f
  <2> DEFINE last == Trimmed(closed)
  <2> HIDE DEF last
  <2>5. /\ Append(messages, last) \in Seq(Sizes)
        /\ \A i \in 1..Len(Append(messages, last)) : Append(messages, last)[i].size <= MaxLen + 3
    BY <2>4 DEF SplitInd, SplitTypes, last
  <2> QED BY <2>1, <2>2, <2>5 DEF f, last
<1> QED BY <1>1, <1>2

\* The language of a block is one that was read, or none.
LEMMA LangFits ==
  ASSUME SplitTypes, NEW taken \in [size : Nat \ {0}, fence : BOOLEAN],
         taken.fence => taken.size \in 3..(MaxLen - 10)
  PROVE  LangAfter(taken) \in {-1} \cup 0..(MaxLen - 13)
BY SplitAssumption DEF LangAfter, SplitTypes, InCode

\* One line more.
LEMMA TakeLineKeeps == ASSUME SplitInd, TakeLine PROVE SplitInd'
<1> DEFINE taken == Head(rest)
           f == FlushedBefore(taken)
           lang == LangAfter(taken)
           longer == [size |-> f.cur.size + taken.size + 1,
                      marks |-> f.cur.marks + IF taken.fence THEN 1 ELSE 0]
<1>1. SplitTypes /\ rest # <<>>
  BY DEF SplitInd, TakeLine
<1>2. /\ taken \in [size : Nat \ {0}, fence : BOOLEAN]
      /\ taken.fence => taken.size \in 3..(MaxLen - 10)
      /\ Tail(rest) \in Seq(LineKinds)
  BY <1>1, LineLength
<1>3. /\ f.cur \in [size : 0..MaxLen, marks : Nat]
      /\ f.out \in Seq(Sizes)
      /\ \A i \in 1..Len(f.out) : f.out[i].size <= MaxLen + 3
  BY <1>2, FlushedFits
<1>4. lang \in {-1} \cup 0..(MaxLen - 13)
  BY <1>1, <1>2, LangFits
<1>5. longer \in [size : Nat, marks : Nat]
  <2> HIDE DEF f, taken
  <2> QED BY <1>2, <1>3, SplitAssumption
<1>6. /\ rest' = Tail(rest) /\ codeLang' = lang
      /\ IF longer.size > MaxLen
         THEN messages' = f.out \o Pieces(longer, lang) /\ current' = Reopened(lang)
         ELSE messages' = f.out /\ current' = longer
  BY DEF TakeLine
<1> HIDE DEF taken, f, lang, longer
<1>7. rest' \in Seq(LineKinds) /\ codeLang' \in {-1} \cup 0..(MaxLen - 13)
  BY <1>2, <1>4, <1>6 DEF taken
<1>8. CASE longer.size > MaxLen
  <2> DEFINE pieces == Pieces(longer, lang)
  <2>1. pieces \in Seq(Sizes) /\ \A i \in 1..Len(pieces) : pieces[i].size <= MaxLen
    BY <1>4, <1>5, SplitAssumption, PiecesFit
  <2>2. messages' = f.out \o pieces /\ current' = Reopened(lang)
    BY <1>6, <1>8
  <2>3. current' \in [size : 0..MaxLen, marks : Nat]
    BY <2>2, <1>4, ReopenedFits
  <2> HIDE DEF pieces
  <2> DEFINE out == f.out
  <2> HIDE DEF out
  <2>4. /\ messages' \in Seq(Sizes)
        /\ \A i \in 1..Len(messages') : messages'[i].size <= MaxLen + 3
    <3>1. out \in Seq(Sizes) /\ \A i \in 1..Len(out) : out[i].size <= MaxLen + 3
      BY <1>3 DEF out
    <3>2. messages' = out \o pieces
      BY <2>2 DEF out
    <3>3. messages' \in Seq(Sizes) /\ Len(messages') = Len(out) + Len(pieces)
      BY <3>1, <3>2, <2>1, ConcatProperties
    <3>4. ASSUME NEW i \in 1..Len(messages')
          PROVE  messages'[i].size <= MaxLen + 3
      <4>1. Len(out) \in Nat /\ Len(pieces) \in Nat /\ i \in Int
        BY <3>1, <2>1, LenProperties
      <4>2. CASE i <= Len(out)
        BY <4>1, <4>2, <3>1, <3>2, <2>1, ConcatProperties
      <4>3. CASE i > Len(out)
        <5> DEFINE j == i - Len(out)
        <5>1. j \in 1..Len(pieces) /\ messages'[i] = pieces[j]
          BY <4>1, <4>3, <3>1, <3>2, <3>3, <2>1, ConcatProperties
        <5>2. pieces[j].size <= MaxLen /\ pieces[j] \in Sizes
          BY <5>1, <2>1, ElementOfSeq
        <5> QED BY <5>1, <5>2, SplitAssumption DEF Sizes
      <4> QED BY <4>1, <4>2, <4>3
    <3> QED BY <3>3, <3>4
  <2> QED BY <1>7, <2>3, <2>4 DEF SplitInd, SplitTypes
<1>9. CASE ~(longer.size > MaxLen)
  <2>1. messages' = f.out /\ current' = longer
    BY <1>6, <1>9
  <2>2. current' \in [size : 0..MaxLen, marks : Nat]
    BY <2>1, <1>5, <1>9, SplitAssumption
  <2> QED BY <1>3, <1>7, <2>1, <2>2 DEF SplitInd, SplitTypes
<1> QED BY <1>8, <1>9

\* The end of the text.
LEMMA LastMessageKeeps == ASSUME SplitInd, LastMessage PROVE SplitInd'
<1> DEFINE last == Trimmed(current)
<1>1. last \in Sizes /\ last.size <= MaxLen + 3
  <2>1. last \in Sizes /\ last.size <= MaxLen - 1
    BY SplitAssumption, TrimmedFits DEF SplitInd, SplitTypes
  <2> QED BY <2>1, SplitAssumption DEF Sizes
<1>2. messages' = Append(messages, last) /\ current' = Blank /\ UNCHANGED <<rest, codeLang>>
  BY DEF LastMessage
<1> HIDE DEF last
<1>3. /\ messages' \in Seq(Sizes)
      /\ \A i \in 1..Len(messages') : messages'[i].size <= MaxLen + 3
  BY <1>1, <1>2 DEF SplitInd, SplitTypes
<1>4. current' \in [size : 0..MaxLen, marks : Nat]
  BY <1>2, SplitAssumption DEF Blank
<1> QED BY <1>2, <1>3, <1>4 DEF SplitInd, SplitTypes

\* Before the first line.
LEMMA SplitInitial == SplitInit => SplitInd
<1> SUFFICES ASSUME SplitInit PROVE SplitInd
  OBVIOUS
<1>1. PICK n \in 0..MaxLines : rest \in [1..n -> LineKinds]
  BY DEF SplitInit, BoundedSeq, SeqOf
<1>2. rest \in Seq(LineKinds)
  BY <1>1, SplitAssumption, IsASeq
<1>3. current \in [size : 0..MaxLen, marks : Nat]
  BY SplitAssumption DEF SplitInit, Blank
<1>4. messages = <<>> /\ codeLang = -1
  BY DEF SplitInit
<1>5. messages \in Seq(Sizes) /\ Len(messages) = 0
  BY <1>4
<1> QED BY <1>2, <1>3, <1>4, <1>5 DEF SplitInit, SplitInd, SplitTypes

\* No message passes the limit by more than the three marks that close a block, for
\* any text, any limit above ten and any lengths of its lines.
THEOREM MessagesStaySmall == SplitSpec => []MessagesNearTheLimit
<1>1. SplitInd /\ [SplitNext]_splitVars => SplitInd'
  <2> SUFFICES ASSUME SplitInd, [SplitNext]_splitVars PROVE SplitInd'
    OBVIOUS
  <2>1. CASE UNCHANGED splitVars
    BY <2>1 DEF SplitInd, SplitTypes, splitVars
  <2> QED BY <2>1, TakeLineKeeps, LastMessageKeeps DEF SplitNext
<1>2. SplitInd => MessagesNearTheLimit
  BY DEF SplitInd, SplitTypes, MessagesNearTheLimit, Range
<1> QED BY <1>1, <1>2, SplitInitial, PTL DEF SplitSpec
-----------------------------------------------------------------------------
(* The names.  What the cache, a fetched list or an event says of a member is true or *)
(* an event behind it says otherwise; a name that moved to another member is taken    *)
(* from the first before the second gets it.                                           *)

\* What the states are made of; a list names no member twice and each with two names.
NameLists == {<<>>} \cup [1..2 -> Names]
MemberEvents == [member : Members, names : NameLists]
Listed == [member : Members, names : [1..2 -> Names]]
HasList(f) == fetch[f].at \in {"release", "build"}

MentionTypes ==
  /\ guild \in [Members -> NameLists]
  /\ events \in Seq(MemberEvents)
  /\ \A n \in DOMAIN nameToId : n \in Names /\ nameToId[n] \in Members
  /\ ~cached => DOMAIN nameToId = {}
  /\ DOMAIN fetch = Fetchers
  /\ \A f \in Fetchers : fetch[f] = [at |-> fetch[f].at, members |-> fetch[f].members]
  /\ \A f \in Fetchers : HasList(f) => fetch[f].members \in Seq(Listed)

\* An event of the member is on its way; the event at k is the member's last; the member
\* has the name.
Pends(u) == \E i \in 1..Len(events) : events[i].member = u
Final(k) == \A j \in 1..Len(events) : j > k => events[j].member # events[k].member
Holds(u, n) == n \in Range(guild[u])

\* Where it is said that n is a name of v: in the cache or a fetched list (0), or in the
\* event at i.
InList(f, n, v) ==
  \E i \in 1..Len(fetch[f].members) :
    fetch[f].members[i].member = v /\ n \in Range(fetch[f].members[i].names)
SaidNow(n, v) ==
  \/ n \in DOMAIN nameToId /\ nameToId[n] = v
  \/ \E f \in Fetchers : HasList(f) /\ InList(f, n, v)
SaidBy(i, n, v) == events[i].member = v /\ n \in Range(events[i].names)

\* The last event of a member has its names, and what is said of a member of whom no
\* event is on its way is true.
UpToDate ==
  ~crossed =>
    /\ \A k \in 1..Len(events) : Final(k) => events[k].names = guild[events[k].member]
    /\ \A n \in Names, v \in Members : SaidNow(n, v) /\ ~Pends(v) => Holds(v, n)

\* A name that was never shared has one holder.
OneHolder ==
  \A n \in Names \ shared : \A u, v \in Members : Holds(u, n) /\ Holds(v, n) => u = v

\* Between what is said of a former holder v of a name and the event that gave the name
\* to its holder u there is an event of v.
Corrected(i, v, u) ==
  \E j, k \in 1..Len(events) :
    i < j /\ j < k /\ events[j].member = v /\ events[k].member = u /\ Final(k)
Corrections ==
  ~(crossed \/ reordered) =>
    \A n \in Names \ shared, v \in Members, u \in Members :
      u # v /\ Holds(u, n) =>
        /\ SaidNow(n, v) => Corrected(0, v, u)
        /\ \A i \in 1..Len(events) : SaidBy(i, n, v) => Corrected(i, v, u)

\* A holder of whom no event is on its way is known.
Known ==
  ~(crossed \/ reordered) =>
    \A n \in Names \ shared, u \in Members :
      Holds(u, n) /\ ~Pends(u) =>
        /\ cached /\ ~partial => n \in DOMAIN nameToId /\ nameToId[n] = u
        /\ \A f \in Fetchers : HasList(f) => InList(f, n, u)

\* The inductive invariant.
MentionInd == MentionTypes /\ UpToDate /\ OneHolder /\ Corrections /\ Known
-----------------------------------------------------------------------------
(* One name, two names, and a list of members. *)

\* check_and_clear_conflict and the insertion: no other name is touched, and the name
\* is the member's unless it was another one's.
LEMMA OneName ==
  ASSUME NEW map, NEW u, NEW n
  PROVE  LET M == InsertName(map, u, n)
         IN /\ \A x \in DOMAIN M : (x \in DOMAIN map /\ M[x] = map[x]) \/ (x = n /\ M[x] = u)
            /\ \A x : x # n => (x \in DOMAIN M <=> x \in DOMAIN map)
            /\ \A x \in DOMAIN map : x # n => M[x] = map[x]
            /\ n \notin DOMAIN map \/ map[n] = u => n \in DOMAIN M /\ M[n] = u
BY DEF InsertName, Restrict

\* A member's names, whether or not they are equal.
LEMMA TwoNames ==
  ASSUME NEW map, NEW u, NEW names, DOMAIN names = 1..2
  PROVE  LET M == InsertNames(map, u, names)
         IN /\ \A x \in DOMAIN M : \/ x \in DOMAIN map /\ M[x] = map[x]
                                   \/ x \in Range(names) /\ M[x] = u
            /\ \A x \in DOMAIN map : x \notin Range(names) => x \in DOMAIN M /\ M[x] = map[x]
            /\ \A x \in Range(names) :
                 x \notin DOMAIN map \/ map[x] = u => x \in DOMAIN M /\ M[x] = u
<1> DEFINE A == InsertName(map, u, names[1])
           B == InsertName(A, u, names[2])
<1>1. InsertNames(map, u, names) = B
  BY DEF InsertNames
<1>2. Range(names) = {names[1], names[2]}
  BY DEF Range
<1>3. /\ \A x \in DOMAIN A : (x \in DOMAIN map /\ A[x] = map[x]) \/ (x = names[1] /\ A[x] = u)
      /\ \A x : x # names[1] => (x \in DOMAIN A <=> x \in DOMAIN map)
      /\ \A x \in DOMAIN map : x # names[1] => A[x] = map[x]
      /\ names[1] \notin DOMAIN map \/ map[names[1]] = u => names[1] \in DOMAIN A /\ A[names[1]] = u
  BY OneName
<1> HIDE DEF A
<1>4. /\ \A x \in DOMAIN B : (x \in DOMAIN A /\ B[x] = A[x]) \/ (x = names[2] /\ B[x] = u)
      /\ \A x : x # names[2] => (x \in DOMAIN B <=> x \in DOMAIN A)
      /\ \A x \in DOMAIN A : x # names[2] => B[x] = A[x]
      /\ names[2] \notin DOMAIN A \/ A[names[2]] = u => names[2] \in DOMAIN B /\ B[names[2]] = u
  BY OneName
<1> HIDE DEF B
<1>5. \A x \in DOMAIN B : \/ x \in DOMAIN map /\ B[x] = map[x]
                          \/ x \in Range(names) /\ B[x] = u
  BY <1>2, <1>3, <1>4
<1>6. \A x \in DOMAIN map : x \notin Range(names) => x \in DOMAIN B /\ B[x] = map[x]
  BY <1>2, <1>3, <1>4
<1>7. ASSUME NEW x \in Range(names), x \notin DOMAIN map \/ map[x] = u
      PROVE  x \in DOMAIN B /\ B[x] = u
  BY <1>2, <1>3, <1>4, <1>7
<1> QED BY <1>1, <1>5, <1>6, <1>7

\* The recursion of CacheOf.
LEMMA CacheIsBuilt ==
  ASSUME NEW list \in Seq(Listed)
  PROVE  \E b : /\ CacheOf(list) = b[Len(list)]
                /\ b[0] = <<>>
                /\ \A i \in 1..Len(list) :
                     b[i] = InsertNames(b[i - 1], list[i].member, list[i].names)
<1> DEFINE Made(f, i) == IF i = 0 THEN <<>>
                          ELSE InsertNames(f[i - 1], list[i].member, list[i].names)
           Built(f, n) == f = [i \in 0..n |-> Made(f, i)]
           S == {n \in Nat : \E f : Built(f, n)}
<1>1. 0 \in S
  <2>1. Built([i \in 0..0 |-> <<>>], 0)
    OBVIOUS
  <2> QED BY <2>1
<1>2. ASSUME NEW n \in Nat, n \in S PROVE n + 1 \in S
  <2>1. PICK f : Built(f, n)
    BY <1>2
  <2> DEFINE g == [i \in 0..(n + 1) |-> IF i <= n THEN f[i] ELSE Made(f, n + 1)]
  <2>2. ASSUME NEW i \in 0..(n + 1) PROVE g[i] = Made(g, i)
    <3>1. CASE i = 0
      <4>1. g[i] = f[0] /\ f[0] = Made(f, 0)
        BY <2>1, <3>1
      <4> QED BY <3>1, <4>1
    <3>2. CASE i # 0 /\ i <= n
      <4>1. g[i] = f[i] /\ f[i] = Made(f, i) /\ g[i - 1] = f[i - 1]
        BY <2>1, <3>2
      <4> QED BY <3>2, <4>1
    <3>3. CASE i = n + 1
      <4>1. g[i] = Made(f, n + 1) /\ g[i - 1] = f[i - 1] /\ i # 0
        BY <3>3
      <4> QED BY <3>3, <4>1
    <3> QED BY <3>1, <3>2, <3>3
  <2>3. Built(g, n + 1)
    <3>1. g = [i \in 0..(n + 1) |-> g[i]]
      OBVIOUS
    <3> HIDE DEF g, Made
    <3> QED BY <2>2, <3>1
  <2> HIDE DEF g, Built
  <2>4. \E h : Built(h, n + 1)
    BY <2>3
  <2> QED BY <2>4
<1>3. Nat \subseteq S
  <2> HIDE DEF S
  <2> QED BY <1>1, <1>2, SetInduction
<1>4. Len(list) \in Nat
  OBVIOUS
<1> DEFINE b == CHOOSE f : Built(f, Len(list))
<1>5. Built(b, Len(list))
  <2> HIDE DEF Built
  <2> QED BY <1>3, <1>4
<1>6. CacheOf(list) = b[Len(list)]
  BY DEF CacheOf
<1> HIDE DEF b
<1>7. b[0] = <<>> /\ \A i \in 1..Len(list) : b[i] = Made(b, i)
  BY <1>4, <1>5
<1> QED BY <1>6, <1>7

\* What a list makes of a name: nobody gets it who is not listed with it, and a member who
\* is listed with it alone gets it.
LEMMA ListMakesCache ==
  ASSUME NEW list \in Seq(Listed)
  PROVE  LET M == CacheOf(list)
             Lists(i, n, v) == list[i].member = v /\ n \in Range(list[i].names)
         IN /\ \A n \in DOMAIN M : \E i \in 1..Len(list) : Lists(i, n, M[n])
            /\ \A n, u : /\ \E i \in 1..Len(list) : Lists(i, n, u)
                         /\ \A v : \A i \in 1..Len(list) : Lists(i, n, v) => v = u
                         => n \in DOMAIN M /\ M[n] = u
<1> DEFINE Lists(i, n, v) == list[i].member = v /\ n \in Range(list[i].names)
           N == Len(list)
<1>1. N \in Nat /\ \A i \in 1..N : list[i] \in Listed
  OBVIOUS
<1>2. PICK b : /\ CacheOf(list) = b[N]
               /\ b[0] = <<>>
               /\ \A i \in 1..N : b[i] = InsertNames(b[i - 1], list[i].member, list[i].names)
  BY CacheIsBuilt
<1>3. ASSUME NEW i \in 1..N PROVE DOMAIN list[i].names = 1..2
  BY <1>1 DEF Listed
<1> DEFINE From(i) == \A n \in DOMAIN b[i] : \E j \in 1..i : Lists(j, n, b[i][n])
           Alone(n, u) == \A v : \A i \in 1..N : Lists(i, n, v) => v = u
           Gets(i) == \A n, u : /\ \E j \in 1..i : Lists(j, n, u)
                                /\ Alone(n, u)
                                => n \in DOMAIN b[i] /\ b[i][n] = u
           S == {i \in Nat : i <= N => From(i) /\ Gets(i)}
<1>4. 0 \in S
  <2>1. DOMAIN b[0] = {}
    BY <1>2
  <2> QED BY <2>1
<1>5. ASSUME NEW i \in Nat, i \in S PROVE i + 1 \in S
  <2> HIDE DEF From, Gets
  <2> SUFFICES ASSUME i + 1 <= N PROVE From(i + 1) /\ Gets(i + 1)
    OBVIOUS
  <2>1. i + 1 \in 1..N /\ From(i) /\ Gets(i)
    BY <1>1, <1>5
  <2> USE DEF From, Gets
  <2> DEFINE u == list[i + 1].member
             names == list[i + 1].names
             A == b[i]
             B == b[i + 1]
  <2>2. B = InsertNames(A, u, names) /\ DOMAIN names = 1..2
    BY <1>2, <1>3, <2>1
  <2>3. /\ \A x \in DOMAIN B : \/ x \in DOMAIN A /\ B[x] = A[x]
                               \/ x \in Range(names) /\ B[x] = u
        /\ \A x \in DOMAIN A : x \notin Range(names) => x \in DOMAIN B /\ B[x] = A[x]
        /\ \A x \in Range(names) :
             x \notin DOMAIN A \/ A[x] = u => x \in DOMAIN B /\ B[x] = u
    <3> HIDE DEF A, B, u, names
    <3> QED BY <2>2, TwoNames
  <2>4. From(i + 1)
    <3> SUFFICES ASSUME NEW n \in DOMAIN B PROVE \E j \in 1..(i + 1) : Lists(j, n, B[n])
      OBVIOUS
    <3>1. CASE n \in DOMAIN A /\ B[n] = A[n]
      <4>1. PICK j \in 1..i : Lists(j, n, A[n])
        BY <2>1, <3>1
      <4>2. j \in 1..(i + 1)
        OBVIOUS
      <4> QED BY <3>1, <4>1, <4>2
    <3>2. CASE n \in Range(names) /\ B[n] = u
      <4>1. i + 1 \in 1..(i + 1)
        OBVIOUS
      <4> QED BY <3>2, <4>1
    <3> QED BY <2>3, <3>1, <3>2
  <2>5. Gets(i + 1)
    <3> SUFFICES ASSUME NEW n, NEW w, \E j \in 1..(i + 1) : Lists(j, n, w), Alone(n, w)
                 PROVE  n \in DOMAIN B /\ B[n] = w
      OBVIOUS
    <3>1. n \in DOMAIN A => A[n] = w
      <4> SUFFICES ASSUME n \in DOMAIN A PROVE A[n] = w
        OBVIOUS
      <4>1. PICK j \in 1..i : Lists(j, n, A[n])
        BY <2>1
      <4>2. j \in 1..N
        BY <2>1, <1>1
      <4> QED BY <4>1, <4>2
    <3>2. CASE n \in Range(names)
      <4>1. u = w
        BY <2>1, <3>2
      <4> QED BY <2>3, <3>1, <3>2, <4>1
    <3>3. CASE n \notin Range(names)
      <4>1. PICK j \in 1..(i + 1) : Lists(j, n, w)
        OBVIOUS
      <4>2. j # i + 1
        BY <3>3, <4>1
      <4>3. j \in 1..i
        BY <4>2
      <4>4. n \in DOMAIN A /\ A[n] = w
        <5> HIDE DEF Alone, Lists
        <5> QED BY <2>1, <4>1, <4>3
      <4> HIDE DEF A, B, u, names, Lists
      <4> QED BY <2>3, <3>3, <4>4
    <3> QED BY <3>2, <3>3
  <2> QED BY <2>4, <2>5
<1>6. N \in S
  <2> HIDE DEF S
  <2> QED BY <1>1, <1>4, <1>5, SetInduction
<1>7. From(N) /\ Gets(N)
  <2> HIDE DEF From, Gets
  <2> QED BY <1>1, <1>6
<1> QED BY <1>2, <1>7
-----------------------------------------------------------------------------
(* The steps. *)

\* Everybody has a name of their own, and nothing is said.
LEMMA MentionInitial == MentionInit => MentionInd
<1> SUFFICES ASSUME MentionInit PROVE MentionInd
  OBVIOUS
<1>1. /\ guild \in [Members -> {<<n, n>> : n \in Names}] /\ IsInjective(guild)
      /\ events = <<>> /\ cached = FALSE /\ nameToId = <<>> /\ shared = {}
      /\ fetch = [f \in Fetchers |-> NotFetched]
  BY DEF MentionInit
<1>2. \A f \in Fetchers : ~HasList(f) /\ fetch[f] = NotFetched
  BY <1>1 DEF HasList, NotFetched
<1>3. \A n \in Names : <<n, n>> \in [1..2 -> Names]
  OBVIOUS
<1>4. MentionTypes
  <2>1. guild \in [Members -> NameLists]
    BY <1>1, <1>3 DEF NameLists
  <2>2. events \in Seq(MemberEvents) /\ DOMAIN nameToId = {}
    BY <1>1
  <2> QED BY <1>1, <1>2, <2>1, <2>2 DEF MentionTypes, NotFetched
<1>5. Len(events) = 0 /\ ~Pends(CHOOSE u : TRUE)
  BY <1>1 DEF Pends
<1>6. \A n, v : ~SaidNow(n, v)
  BY <1>1, <1>2 DEF SaidNow
<1>7. OneHolder
  <2> SUFFICES ASSUME NEW n \in Names, NEW u \in Members, NEW v \in Members,
                      Holds(u, n), Holds(v, n)
               PROVE  u = v
    BY DEF OneHolder
  <2>1. PICK a \in Names : guild[u] = <<a, a>>
    BY <1>1
  <2>2. PICK b \in Names : guild[v] = <<b, b>>
    BY <1>1
  <2>3. a = n /\ b = n
    BY <2>1, <2>2 DEF Holds, Range
  <2> QED BY <1>1, <2>1, <2>2, <2>3 DEF IsInjective
<1> QED BY <1>1, <1>2, <1>4, <1>5, <1>6, <1>7 DEF MentionInd, UpToDate, Corrections, Known

\* A step that makes no list and touches nothing else.
LEMMA ListsStay ==
  ASSUME MentionInd, DOMAIN fetch' = Fetchers,
         UNCHANGED <<guild, events, cached, nameToId, crossed, reordered, partial, shared>>,
         \A f \in Fetchers :
           /\ fetch'[f] = [at |-> fetch'[f].at, members |-> fetch'[f].members]
           /\ HasList(f)' => HasList(f) /\ fetch'[f].members = fetch[f].members
  PROVE  MentionInd'
<1>1. MentionTypes'
  BY DEF MentionInd, MentionTypes
<1>2. \A u : Pends(u)' <=> Pends(u)
  BY DEF Pends
<1>3. \A k : Final(k)' <=> Final(k)
  BY DEF Final
<1>4. \A n, v : SaidNow(n, v)' => SaidNow(n, v)
  BY DEF SaidNow, InList
<1>5. \A u, n : Holds(u, n)' <=> Holds(u, n)
  BY DEF Holds
<1>6. UpToDate' /\ OneHolder'
  BY <1>2, <1>3, <1>4, <1>5 DEF MentionInd, UpToDate, OneHolder
<1>7. \A i, v, u : Corrected(i, v, u)' <=> Corrected(i, v, u)
  BY <1>3 DEF Corrected
<1>8. Corrections'
  BY <1>4, <1>5, <1>7 DEF MentionInd, Corrections, SaidBy
<1>9. Known'
  BY <1>2, <1>5 DEF MentionInd, Known, InList
<1> QED BY <1>1, <1>6, <1>8, <1>9 DEF MentionInd

\* A step of one answer's fetch.
LEMMA FetchGoes ==
  ASSUME MentionInd, NEW f \in Fetchers, NEW moved, FetchTo(f, moved)
  PROVE  /\ DOMAIN fetch' = Fetchers
         /\ \A g \in Fetchers : /\ fetch'[g] = [at |-> fetch'[g].at, members |-> fetch'[g].members]
                                /\ fetch'[g].members = fetch[g].members
                                /\ fetch'[g].at = IF g = f THEN moved ELSE fetch[g].at
<1>1. /\ DOMAIN fetch = Fetchers
      /\ \A g \in Fetchers : fetch[g] = [at |-> fetch[g].at, members |-> fetch[g].members]
  BY DEF MentionInd, MentionTypes
<1>2. fetch' = [g \in Fetchers |-> IF g = f THEN [fetch[g] EXCEPT !.at = moved] ELSE fetch[g]]
  BY <1>1 DEF FetchTo
<1>3. [fetch[f] EXCEPT !.at = moved] = [at |-> moved, members |-> fetch[f].members]
  BY <1>1
<1> QED BY <1>1, <1>2, <1>3

\* The steps before the list comes and after it is dropped.
LEMMA FetchKeeps ==
  ASSUME MentionInd, NEW f \in Fetchers,
         MissCache(f) \/ ClaimFetch(f) \/ ListFails(f) \/ ReleaseFetch(f)
  PROVE  MentionInd'
<1>1. UNCHANGED <<guild, events, cached, nameToId, crossed, reordered, partial, shared>>
  BY DEF MissCache, ClaimFetch, ListFails, ReleaseFetch
<1>2. CASE MissCache(f)
  BY <1>1, <1>2, FetchGoes, ListsStay DEF MissCache, HasList
<1>3. CASE ClaimFetch(f)
  BY <1>1, <1>3, FetchGoes, ListsStay DEF ClaimFetch, HasList
<1>4. CASE ListFails(f)
  BY <1>1, <1>4, FetchGoes, ListsStay DEF ListFails, HasList
<1>5. CASE ReleaseFetch(f)
  BY <1>1, <1>5, FetchGoes, ListsStay DEF ReleaseFetch, HasList
<1> QED BY <1>2, <1>3, <1>4, <1>5

\* A list says what is true now, so that it is up to date and whole.
LEMMA ListKeeps == ASSUME MentionInd, NEW f \in Fetchers, ListMembers(f) PROVE MentionInd'
<1> DEFINE there == {u \in Members : guild[u] # <<>>}
           c == Cardinality(there)
<1>1. PICK order \in Bijection(1..c, there) :
        fetch' = [fetch EXCEPT ![f] = [at |-> "release",
                    members |-> [i \in DOMAIN order |->
                                   [member |-> order[i], names |-> guild[order[i]]]]]]
  BY DEF ListMembers
<1>2. UNCHANGED <<guild, events, cached, nameToId, crossed, reordered, partial, shared>>
  BY DEF ListMembers
<1>3. c \in Nat
  BY MentionAssumption, FS_Subset, FS_CardinalityType
<1>4. /\ order \in [1..c -> there] /\ \A u \in there : \E i \in 1..c : order[i] = u
  BY <1>1 DEF Bijection, Injection, Surjection
<1> DEFINE list == [i \in 1..c |-> [member |-> order[i], names |-> guild[order[i]]]]
<1>5. fetch' = [fetch EXCEPT ![f] = [at |-> "release", members |-> list]]
  BY <1>1, <1>4
<1>6. list \in Seq(Listed) /\ Len(list) = c
  <2>1. ASSUME NEW i \in 1..c PROVE list[i] \in Listed
    <3>1. order[i] \in Members /\ guild[order[i]] \in [1..2 -> Names]
      BY <1>4 DEF MentionInd, MentionTypes, NameLists
    <3> QED BY <3>1 DEF Listed
  <2> HIDE DEF c
  <2>2. list \in [1..c -> Listed]
    BY <2>1
  <2> HIDE DEF list
  <2> QED BY <1>3, <2>2, IsASeq, LenProperties
<1>7. \A i \in 1..Len(list) : list[i].member \in there /\ list[i].names = guild[list[i].member]
  BY <1>4, <1>6
<1>8. \A u \in there : \E i \in 1..Len(list) : list[i].member = u
  BY <1>4, <1>6
<1> HIDE DEF there, c, list
<1>9. /\ DOMAIN fetch' = Fetchers
      /\ fetch'[f] = [at |-> "release", members |-> list]
      /\ \A g \in Fetchers \ {f} : fetch'[g] = fetch[g]
  BY <1>5 DEF MentionInd, MentionTypes
<1>10. MentionTypes'
  BY <1>2, <1>6, <1>9 DEF MentionInd, MentionTypes, HasList
<1>11. \A n, v : SaidNow(n, v)' => SaidNow(n, v) \/ (v \in Members /\ Holds(v, n))
  <2> SUFFICES ASSUME NEW n, NEW v, SaidNow(n, v)', ~SaidNow(n, v)
               PROVE  v \in Members /\ Holds(v, n)
    OBVIOUS
  <2>1. PICK g \in Fetchers : HasList(g)' /\ InList(g, n, v)'
    BY <1>2 DEF SaidNow
  <2>2. g = f
    BY <1>9, <2>1 DEF SaidNow, HasList, InList
  <2>3. PICK i \in 1..Len(list) : list[i].member = v /\ n \in Range(list[i].names)
    BY <1>9, <2>1, <2>2 DEF InList
  <2> QED BY <1>7, <2>3 DEF Holds, there
<1>12. \A u, n : Holds(u, n)' <=> Holds(u, n)
  BY <1>2 DEF Holds
<1>13. \A u : Pends(u)' <=> Pends(u)
  BY <1>2 DEF Pends
<1>14. \A k : Final(k)' <=> Final(k)
  BY <1>2 DEF Final
<1>15. UpToDate' /\ OneHolder'
  BY <1>2, <1>11, <1>12, <1>13, <1>14 DEF MentionInd, UpToDate, OneHolder
<1>16. \A i, v, u : Corrected(i, v, u)' <=> Corrected(i, v, u)
  BY <1>2, <1>14 DEF Corrected
<1>17. Corrections'
  <2> SUFFICES ASSUME ~(crossed \/ reordered), NEW n \in Names \ shared, NEW v \in Members,
                      NEW u \in Members, u # v, Holds(u, n)
               PROVE  /\ SaidNow(n, v)' => Corrected(0, v, u)
                      /\ \A i \in 1..Len(events) : SaidBy(i, n, v) => Corrected(i, v, u)
    BY <1>2, <1>12, <1>16 DEF Corrections, SaidBy
  <2>1. ~Holds(v, n)
    BY DEF MentionInd, OneHolder
  <2> QED BY <1>11, <2>1 DEF MentionInd, Corrections
<1>18. Known'
  <2> SUFFICES ASSUME ~(crossed \/ reordered), NEW n \in Names \ shared, NEW u \in Members,
                      Holds(u, n), ~Pends(u)
               PROVE  /\ cached /\ ~partial => n \in DOMAIN nameToId /\ nameToId[n] = u
                      /\ \A g \in Fetchers : HasList(g)' => InList(g, n, u)'
    BY <1>2, <1>12, <1>13 DEF Known
  <2>1. /\ cached /\ ~partial => n \in DOMAIN nameToId /\ nameToId[n] = u
        /\ \A g \in Fetchers : HasList(g) => InList(g, n, u)
    BY DEF MentionInd, Known
  <2>2. InList(f, n, u)'
    <3>1. u \in there
      BY DEF Holds, Range, there
    <3>2. PICK i \in 1..Len(list) : list[i].member = u
      BY <1>8, <3>1
    <3>3. n \in Range(list[i].names)
      BY <1>7, <3>2 DEF Holds
    <3> QED BY <1>9, <3>2, <3>3 DEF InList
  <2>3. ASSUME NEW g \in Fetchers \ {f}, HasList(g)' PROVE InList(g, n, u)'
    BY <1>9, <2>1, <2>3 DEF HasList, InList
  <2> QED BY <2>1, <2>2, <2>3
<1> QED BY <1>10, <1>15, <1>17, <1>18 DEF MentionInd

\* The entry says no more than its list did.
LEMMA BuildKeeps == ASSUME MentionInd, NEW f \in Fetchers, BuildCache(f) PROVE MentionInd'
<1> DEFINE list == fetch[f].members
           cache == CacheOf(list)
<1>1. /\ UNCHANGED <<guild, events, crossed, reordered, shared>>
      /\ nameToId' = cache /\ cached' = TRUE /\ partial' = FALSE
      /\ HasList(f)
  BY DEF BuildCache, HasList
<1>2. /\ DOMAIN fetch' = Fetchers
      /\ fetch'[f] = [at |-> "done", members |-> <<>>]
      /\ \A g \in Fetchers \ {f} : fetch'[g] = fetch[g]
  BY DEF BuildCache, NotFetched, MentionInd, MentionTypes
<1>3. list \in Seq(Listed)
  BY <1>1 DEF MentionInd, MentionTypes
<1>4. /\ \A n \in DOMAIN cache : InList(f, n, cache[n])
      /\ \A n, u : InList(f, n, u) /\ (\A v : InList(f, n, v) => v = u)
                   => n \in DOMAIN cache /\ cache[n] = u
  <2> DEFINE Lists(i, n, v) == list[i].member = v /\ n \in Range(list[i].names)
  <2>1. \A n, v : InList(f, n, v) <=> \E i \in 1..Len(list) : Lists(i, n, v)
    BY DEF InList
  <2> HIDE DEF list
  <2>2. /\ \A n \in DOMAIN cache : \E i \in 1..Len(list) : Lists(i, n, cache[n])
        /\ \A n, u : /\ \E i \in 1..Len(list) : Lists(i, n, u)
                     /\ \A v : \A i \in 1..Len(list) : Lists(i, n, v) => v = u
                     => n \in DOMAIN cache /\ cache[n] = u
    BY <1>3, ListMakesCache
  <2> HIDE DEF cache, Lists
  <2>3. ASSUME NEW n, NEW u, InList(f, n, u), \A v : InList(f, n, v) => v = u
        PROVE  n \in DOMAIN cache /\ cache[n] = u
    BY <2>1, <2>2, <2>3
  <2> QED BY <2>1, <2>2, <2>3
<1> HIDE DEF cache
<1>5. \A n, v : InList(f, n, v) => n \in Names /\ v \in Members
  <2> SUFFICES ASSUME NEW i \in 1..Len(list), NEW n \in Range(list[i].names)
               PROVE  n \in Names /\ list[i].member \in Members
    BY DEF InList
  <2>1. list[i] \in Listed
    BY <1>3
  <2> QED BY <2>1 DEF Listed, Range
<1>6. MentionTypes'
  <2>1. \A g \in Fetchers : HasList(g)' => g # f /\ HasList(g)
    BY <1>2 DEF HasList
  <2> QED BY <1>1, <1>2, <1>4, <1>5, <2>1 DEF MentionInd, MentionTypes
<1>7. \A n, v : SaidNow(n, v)' => SaidNow(n, v)
  BY <1>1, <1>2, <1>4 DEF SaidNow, HasList, InList
<1>8. \A u, n : Holds(u, n)' <=> Holds(u, n)
  BY <1>1 DEF Holds
<1>9. \A u : Pends(u)' <=> Pends(u)
  BY <1>1 DEF Pends
<1>10. \A k : Final(k)' <=> Final(k)
  BY <1>1 DEF Final
<1>11. UpToDate' /\ OneHolder'
  BY <1>1, <1>7, <1>8, <1>9, <1>10 DEF MentionInd, UpToDate, OneHolder
<1>12. \A i, v, u : Corrected(i, v, u)' <=> Corrected(i, v, u)
  BY <1>1, <1>10 DEF Corrected
<1>13. Corrections'
  BY <1>1, <1>7, <1>8, <1>12 DEF MentionInd, Corrections, SaidBy
<1>14. Known'
  <2> SUFFICES ASSUME ~(crossed \/ reordered), NEW n \in Names \ shared, NEW u \in Members,
                      Holds(u, n), ~Pends(u)
               PROVE  /\ n \in DOMAIN cache /\ cache[n] = u
                      /\ \A g \in Fetchers : HasList(g)' => InList(g, n, u)'
    BY <1>1, <1>8, <1>9 DEF Known
  <2>1. \A g \in Fetchers : HasList(g) => InList(g, n, u)
    BY DEF MentionInd, Known
  <2>2. ASSUME NEW v, InList(f, n, v) PROVE v = u
    <3>1. SaidNow(n, v) /\ v \in Members
      BY <1>1, <1>5, <2>2 DEF SaidNow
    <3>2. v # u => Corrected(0, v, u)
      BY <3>1 DEF MentionInd, Corrections
    <3> QED BY <3>2 DEF Corrected, Pends
  <2>3. n \in DOMAIN cache /\ cache[n] = u
    BY <1>1, <1>4, <2>1, <2>2
  <2>4. ASSUME NEW g \in Fetchers, HasList(g)' PROVE InList(g, n, u)'
    BY <1>2, <2>1, <2>4 DEF HasList, InList
  <2> QED BY <2>3, <2>4
<1> QED BY <1>6, <1>11, <1>13, <1>14 DEF MentionInd

\* A change becomes the last event of its member, behind all that is said of a former
\* holder of the new names.
LEMMA ChangeKeeps ==
  ASSUME MentionInd, NEW w \in Members, NEW names \in NameLists, MemberChanges(w, names)
  PROVE  MentionInd'
<1> DEFINE e == [member |-> w, names |-> names]
<1>1. /\ events' = Append(events, e)
      /\ guild' = [guild EXCEPT ![w] = names]
      /\ UNCHANGED <<cached, nameToId, fetch, crossed, reordered, partial>>
  BY DEF MemberChanges
<1>2. events \in Seq(MemberEvents) /\ e \in MemberEvents
  BY DEF MentionInd, MentionTypes, MemberEvents
<1>0. PICK N \in Nat : N = Len(events)
  BY <1>2
<1> HIDE DEF e
<1>3. /\ N = Len(events) /\ Len(events') = N + 1 /\ events' \in Seq(MemberEvents)
      /\ \A i \in 1..N : events'[i] = events[i]
      /\ events'[N + 1] = e
  BY <1>0, <1>1, <1>2
<1>4. /\ \A n : \A u \in Members \ {w} : Holds(u, n)' <=> Holds(u, n)
      /\ \A n : Holds(w, n)' <=> n \in Range(names)
      /\ guild' \in [Members -> NameLists]
      /\ \A u \in Members : guild'[u] = IF u = w THEN names ELSE guild[u]
  BY <1>1 DEF MentionInd, MentionTypes, Holds
<1>5. \A n, v : n \in Range(names) /\ v \in Members \ {w} /\ Holds(v, n) => n \in shared'
  BY DEF MemberChanges, Holds
<1>6. shared \subseteq shared'
  BY DEF MemberChanges
<1>7. e.member = w /\ e.names = names
  BY DEF e
<1>8. MentionTypes'
  BY <1>1, <1>3, <1>4 DEF MentionInd, MentionTypes, HasList
<1>9. Pends(w)' /\ \A u : u # w => (Pends(u)' <=> Pends(u))
  BY <1>3, <1>7 DEF Pends
<1>10. /\ Final(N + 1)'
       /\ \A k \in 1..N : Final(k)' <=> Final(k) /\ events[k].member # w
  BY <1>3, <1>7 DEF Final
<1>11. \A n, v : SaidNow(n, v)' <=> SaidNow(n, v)
  BY <1>1 DEF SaidNow, HasList, InList
<1>12. OneHolder'
  <2> SUFFICES ASSUME NEW n \in Names \ shared', NEW u \in Members, NEW v \in Members,
                      Holds(u, n)', Holds(v, n)', u # v
               PROVE  FALSE
    BY DEF OneHolder
  <2>1. CASE u # w /\ v # w
    BY <1>4, <1>6, <2>1 DEF MentionInd, OneHolder
  <2>2. CASE u = w \/ v = w
    BY <1>4, <1>5, <2>2
  <2> QED BY <2>1, <2>2
<1>13. UpToDate'
  <2> SUFFICES ASSUME ~crossed
               PROVE  /\ \A k \in 1..(N + 1) : Final(k)' => events'[k].names = guild'[events'[k].member]
                      /\ \A n \in Names, v \in Members :
                           SaidNow(n, v)' /\ ~Pends(v)' => Holds(v, n)'
    BY <1>1, <1>3 DEF UpToDate
  <2>1. ASSUME NEW k \in 1..(N + 1), Final(k)'
        PROVE  events'[k].names = guild'[events'[k].member]
    <3>1. CASE k = N + 1
      BY <1>3, <1>4, <1>7, <3>1
    <3>2. CASE k \in 1..N
      <4>1. events[k] \in MemberEvents
        BY <1>2, <1>3, <3>2
      <4>2. events[k].member \in Members
        BY <4>1 DEF MemberEvents
      <4>3. Final(k) /\ events[k].member # w
        BY <1>10, <2>1, <3>2
      <4>4. events[k].names = guild[events[k].member]
        BY <1>3, <3>2, <4>3 DEF MentionInd, UpToDate
      <4> QED BY <1>3, <1>4, <3>2, <4>2, <4>3, <4>4
    <3>3. k \in 1..N \/ k = N + 1
      BY <1>3
    <3> QED BY <3>1, <3>2, <3>3
  <2>2. ASSUME NEW n \in Names, NEW v \in Members, SaidNow(n, v)', ~Pends(v)'
        PROVE  Holds(v, n)'
    BY <1>4, <1>9, <1>11, <2>2 DEF MentionInd, UpToDate
  <2> QED BY <2>1, <2>2
<1>14. Corrections'
  <2> SUFFICES ASSUME ~(crossed \/ reordered), NEW n \in Names \ shared', NEW v \in Members,
                      NEW u \in Members, u # v, Holds(u, n)'
               PROVE  /\ SaidNow(n, v)' => Corrected(0, v, u)'
                      /\ \A i \in 1..(N + 1) : SaidBy(i, n, v)' => Corrected(i, v, u)'
    BY <1>1, <1>3 DEF Corrections
  <2>1. ~(v = w /\ n \in Range(names))
    BY <1>4, <1>5
  <2>5. ~SaidBy(N + 1, n, v)'
    BY <1>3, <1>7, <2>1 DEF SaidBy
  <2>6. \A i \in 1..(N + 1) : i \in 1..N \/ i = N + 1
    BY <1>3
  <2>2. \A i \in 1..N : SaidBy(i, n, v)' <=> SaidBy(i, n, v)
    BY <1>3 DEF SaidBy
  <2>3. CASE u # w
    <3>1. ASSUME NEW i, Corrected(i, v, u) PROVE Corrected(i, v, u)'
      <4>1. PICK j \in 1..N, k \in 1..N :
              i < j /\ j < k /\ events[j].member = v /\ events[k].member = u /\ Final(k)
        BY <1>3, <3>1 DEF Corrected
      <4>2. j \in 1..(N + 1) /\ k \in 1..(N + 1) /\ Final(k)'
        BY <1>3, <1>10, <2>3, <4>1
      <4> QED BY <1>3, <4>1, <4>2 DEF Corrected
    <3>2. Holds(u, n) /\ n \in Names \ shared
      BY <1>4, <1>6, <2>3
    <3>3. /\ SaidNow(n, v) => Corrected(0, v, u)
          /\ \A i \in 1..N : SaidBy(i, n, v) => Corrected(i, v, u)
      BY <1>3, <3>2 DEF MentionInd, Corrections
    <3>4. SaidNow(n, v)' => Corrected(0, v, u)'
      BY <1>11, <3>1, <3>3
    <3>5. ASSUME NEW i \in 1..(N + 1), SaidBy(i, n, v)' PROVE Corrected(i, v, u)'
      <4>1. i \in 1..N
        BY <2>5, <2>6, <3>5
      <4> QED BY <2>2, <3>1, <3>3, <3>5, <4>1
    <3> QED BY <3>4, <3>5
  <2>4. CASE u = w
    <3>1. n \in Range(names) /\ v # w /\ ~Holds(v, n)
      BY <1>4, <1>5, <2>4
    <3>2. ASSUME NEW i \in 0..N, \E j \in 1..N : i < j /\ events[j].member = v
          PROVE  Corrected(i, v, u)'
      <4>1. PICK j \in 1..N : i < j /\ events[j].member = v
        BY <3>2
      <4>2. /\ j \in 1..(N + 1) /\ N + 1 \in 1..(N + 1) /\ j < N + 1
        BY <1>3
      <4>3. events'[j].member = v /\ events'[N + 1].member = u
        BY <1>3, <1>7, <2>4, <4>1
      <4>4. Corrected(i, v, u)' <=>
              \E a, b \in 1..(N + 1) : i < a /\ a < b /\ events'[a].member = v
                                      /\ events'[b].member = u /\ Final(b)'
        BY <1>3 DEF Corrected
      <4> QED BY <1>10, <4>1, <4>2, <4>3, <4>4
    <3>3. SaidNow(n, v) => Corrected(0, v, u)'
      <4> SUFFICES ASSUME SaidNow(n, v) PROVE Corrected(0, v, u)'
        OBVIOUS
      <4>1. Pends(v)
        BY <3>1 DEF MentionInd, UpToDate
      <4>2. PICK j \in 1..N : events[j].member = v
        BY <1>3, <4>1 DEF Pends
      <4> QED BY <1>3, <3>2, <4>2
    <3>4. ASSUME NEW i \in 1..N, SaidBy(i, n, v) PROVE Corrected(i, v, u)'
      <4>1. events[i].names # guild[v]
        BY <3>1, <3>4 DEF SaidBy, Holds
      <4>2. ~Final(i)
        BY <1>3, <3>4, <4>1 DEF MentionInd, UpToDate, SaidBy
      <4>3. PICK j \in 1..N : i < j /\ events[j].member = v
        BY <1>3, <3>4, <4>2 DEF Final, SaidBy
      <4> QED BY <1>3, <3>2, <4>3
    <3>5. SaidNow(n, v)' => Corrected(0, v, u)'
      BY <1>11, <3>3
    <3>6. ASSUME NEW i \in 1..(N + 1), SaidBy(i, n, v)' PROVE Corrected(i, v, u)'
      <4>1. i \in 1..N
        BY <2>5, <2>6, <3>6
      <4> QED BY <2>2, <3>4, <3>6, <4>1
    <3> QED BY <3>5, <3>6
  <2> QED BY <2>3, <2>4
<1>15. Known'
  <2> SUFFICES ASSUME ~(crossed \/ reordered), NEW n \in Names \ shared', NEW u \in Members,
                      Holds(u, n)', ~Pends(u)'
               PROVE  /\ cached /\ ~partial => n \in DOMAIN nameToId /\ nameToId[n] = u
                      /\ \A f \in Fetchers : HasList(f) => InList(f, n, u)
    BY <1>1 DEF Known, HasList, InList
  <2>1. u # w /\ Holds(u, n) /\ ~Pends(u) /\ n \in Names \ shared
    BY <1>4, <1>6, <1>9
  <2> QED BY <2>1 DEF MentionInd, Known
<1> QED BY <1>8, <1>12, <1>13, <1>14, <1>15 DEF MentionInd

\* An element is taken out of a sequence.
LEMMA RemoveOne ==
  ASSUME NEW S, NEW s \in Seq(S), NEW i \in 1..Len(s)
  PROVE  /\ RemoveAt(s, i) \in Seq(S)
         /\ Len(RemoveAt(s, i)) = Len(s) - 1
         /\ \A k \in 1..(Len(s) - 1) : RemoveAt(s, i)[k] = IF k < i THEN s[k] ELSE s[k + 1]
<1> DEFINE a == SubSeq(s, 1, i - 1)
           b == SubSeq(s, i + 1, Len(s))
<1>1. Len(s) \in Nat /\ \A k \in 1..Len(s) : s[k] \in S
  OBVIOUS
<1>2. /\ a \in Seq(S) /\ Len(a) = i - 1
      /\ \A k \in 1..(i - 1) : a[k] = s[k]
  <2>1. \A k \in 1..(i - 1) : s[k] \in S
    BY <1>1
  <2>2. /\ a \in Seq(S) /\ Len(a) = IF 1 <= i - 1 THEN (i - 1) - 1 + 1 ELSE 0
        /\ \A k \in 1..((i - 1) - 1 + 1) : a[k] = s[1 + k - 1]
    BY <2>1, SubSeqProperties
  <2> HIDE DEF a
  <2> QED BY <2>2
<1>3. /\ b \in Seq(S) /\ Len(b) = Len(s) - i
      /\ \A k \in 1..(Len(s) - i) : b[k] = s[i + k]
  <2>1. \A k \in (i + 1)..Len(s) : s[k] \in S
    BY <1>1
  <2>2. /\ b \in Seq(S) /\ Len(b) = IF i + 1 <= Len(s) THEN Len(s) - (i + 1) + 1 ELSE 0
        /\ \A k \in 1..(Len(s) - (i + 1) + 1) : b[k] = s[i + 1 + k - 1]
    BY <1>1, <2>1, SubSeqProperties
  <2> HIDE DEF b
  <2> QED BY <1>1, <2>2
<1>4. RemoveAt(s, i) = a \o b
  BY DEF RemoveAt
<1> HIDE DEF a, b
<1>5. /\ a \o b \in Seq(S)
      /\ Len(a \o b) = Len(a) + Len(b)
      /\ \A k \in 1..(Len(a) + Len(b)) :
           (a \o b)[k] = IF k <= Len(a) THEN a[k] ELSE b[k - Len(a)]
  BY <1>2, <1>3, ConcatProperties
<1> DEFINE r == a \o b
<1>6. r = RemoveAt(s, i)
  BY <1>4
<1>7. /\ r \in Seq(S) /\ Len(r) = Len(s) - 1
      /\ \A k \in 1..(Len(s) - 1) : r[k] = IF k <= i - 1 THEN a[k] ELSE b[k - (i - 1)]
  <2> HIDE DEF r
  <2>1. /\ r \in Seq(S) /\ Len(r) = Len(a) + Len(b)
        /\ \A k \in 1..(Len(a) + Len(b)) : r[k] = IF k <= Len(a) THEN a[k] ELSE b[k - Len(a)]
    BY <1>5 DEF r
  <2> QED BY <1>1, <1>2, <1>3, <2>1
<1> HIDE DEF r
<1>8. ASSUME NEW k \in 1..(Len(s) - 1) PROVE r[k] = IF k < i THEN s[k] ELSE s[k + 1]
  <2>1. CASE k < i
    BY <1>1, <1>2, <1>7, <2>1
  <2>2. CASE ~(k < i)
    <3>1. k - (i - 1) \in 1..(Len(s) - i) /\ i + (k - (i - 1)) = k + 1
      BY <1>1, <2>2
    <3> QED BY <1>1, <1>3, <1>7, <2>2, <3>1
  <2> QED BY <2>1, <2>2
<1> QED BY <1>6, <1>7, <1>8

\* What an event makes of the map.
LEMMA EventMakesMap ==
  ASSUME MentionInd, NEW i, Apply(i)
  PROVE  LET w == events[i].member
             said == Range(events[i].names)
         IN /\ \A n \in DOMAIN nameToId' :
                 \/ n \in said /\ nameToId'[n] = w
                 \/ n \in DOMAIN nameToId /\ nameToId'[n] = nameToId[n] /\ nameToId[n] # w
            /\ \A n \in DOMAIN nameToId :
                 nameToId[n] # w /\ n \notin said => n \in DOMAIN nameToId' /\ nameToId'[n] = nameToId[n]
            /\ \A n \in said :
                 n \notin DOMAIN nameToId \/ nameToId[n] = w => n \in DOMAIN nameToId' /\ nameToId'[n] = w
            /\ ~cached' => DOMAIN nameToId' \subseteq DOMAIN nameToId /\ ~cached
            /\ cached' /\ ~partial' => cached /\ ~partial
<1> DEFINE e == events[i]
           others == Without(nameToId, e.member)
<1>1. events \in Seq(MemberEvents) /\ i \in DOMAIN events
  BY DEF MentionInd, MentionTypes, Apply
<1>2. e \in MemberEvents
  BY <1>1
<1>3. e.names = <<>> \/ DOMAIN e.names = 1..2
  BY <1>2 DEF MemberEvents, NameLists
<1>4. /\ DOMAIN others = {n \in DOMAIN nameToId : nameToId[n] # e.member}
      /\ \A n \in DOMAIN others : others[n] = nameToId[n]
  BY DEF Without, Restrict
<1>5. \/ e.names = <<>> /\ nameToId' = others /\ UNCHANGED <<cached, partial>>
      \/ /\ e.names # <<>> /\ nameToId' = InsertNames(others, e.member, e.names)
         /\ cached' = TRUE /\ partial' = (partial \/ ~cached)
  BY DEF Apply, UpdateMember
<1> HIDE DEF e, others
<1>6. CASE e.names = <<>>
  <2>1. Range(e.names) = {}
    BY <1>6 DEF Range
  <2> QED BY <1>4, <1>5, <1>6, <2>1 DEF e
<1>7. CASE e.names # <<>>
  <2>1. nameToId' = InsertNames(others, e.member, e.names) /\ DOMAIN e.names = 1..2
    BY <1>3, <1>5, <1>7
  <2> DEFINE M == InsertNames(others, e.member, e.names)
  <2>2. /\ \A x \in DOMAIN M : \/ x \in DOMAIN others /\ M[x] = others[x]
                               \/ x \in Range(e.names) /\ M[x] = e.member
        /\ \A x \in DOMAIN others : x \notin Range(e.names) => x \in DOMAIN M /\ M[x] = others[x]
        /\ \A x \in Range(e.names) :
             x \notin DOMAIN others \/ others[x] = e.member => x \in DOMAIN M /\ M[x] = e.member
    BY <2>1, TwoNames
  <2>3. M = nameToId'
    BY <2>1
  <2> HIDE DEF M
  <2>4. cached' /\ (~partial' => cached /\ ~partial)
    BY <1>5, <1>7
  <2> QED BY <1>4, <2>2, <2>3, <2>4 DEF e
<1> QED BY <1>6, <1>7

\* An event is applied: the last one of a member makes the entry true of them, and the
\* first one of all leaves the others as far behind as they were.
LEMMA ApplyKeeps == ASSUME MentionInd, NEW i \in Nat, Apply(i) PROVE MentionInd'
<1>1. /\ events \in Seq(MemberEvents) /\ i \in 1..Len(events)
      /\ events' = RemoveAt(events, i)
      /\ UNCHANGED <<guild, fetch, shared>>
  BY DEF MentionInd, MentionTypes, Apply
<1>2. PICK N \in Nat : N = Len(events)
  BY <1>1
<1>3. PICK w, said : w = events[i].member /\ said = Range(events[i].names)
  OBVIOUS
<1>4. /\ events' \in Seq(MemberEvents) /\ Len(events') = N - 1
      /\ \A k \in 1..(N - 1) : events'[k] = IF k < i THEN events[k] ELSE events[k + 1]
  BY <1>1, <1>2, RemoveOne
<1>5. i \in 1..N /\ \A k \in 1..N : events[k] \in MemberEvents
  BY <1>1, <1>2
<1>6. w \in Members /\ said \subseteq Names
  <2>1. events[i].member \in Members /\ events[i].names \in NameLists
    BY <1>5 DEF MemberEvents
  <2> QED BY <1>3, <2>1 DEF NameLists, Range
<1>7. /\ \A n \in DOMAIN nameToId' :
           \/ n \in said /\ nameToId'[n] = w
           \/ n \in DOMAIN nameToId /\ nameToId'[n] = nameToId[n] /\ nameToId[n] # w
      /\ \A n \in DOMAIN nameToId :
           nameToId[n] # w /\ n \notin said => n \in DOMAIN nameToId' /\ nameToId'[n] = nameToId[n]
      /\ \A n \in said :
           n \notin DOMAIN nameToId \/ nameToId[n] = w => n \in DOMAIN nameToId' /\ nameToId'[n] = w
      /\ ~cached' => DOMAIN nameToId' \subseteq DOMAIN nameToId /\ ~cached
      /\ cached' /\ ~partial' => cached /\ ~partial
  BY <1>3, EventMakesMap
<1>8. MentionTypes'
  BY <1>1, <1>4, <1>6, <1>7 DEF MentionInd, MentionTypes, HasList
<1>9. \A u, n : Holds(u, n)' <=> Holds(u, n)
  BY <1>1 DEF Holds
<1>10. OneHolder'
  BY <1>1, <1>9 DEF MentionInd, OneHolder
<1>11. ~crossed' => /\ ~crossed
                    /\ \A j \in 1..(i - 1) : events[j].member # w
                    /\ \A f \in Fetchers : ~HasList(f)
  BY <1>3 DEF Apply, HasList
<1>12. ~reordered' => ~reordered /\ i = 1
  BY DEF Apply
<1>13. \A u : u # w => (Pends(u) => Pends(u)')
  <2> SUFFICES ASSUME NEW u, u # w, NEW j \in 1..N, events[j].member = u PROVE Pends(u)'
    BY <1>2 DEF Pends
  <2>1. CASE j < i
    <3>1. j \in 1..(N - 1) /\ events'[j].member = u
      BY <1>4, <1>5, <2>1
    <3> QED BY <1>4, <3>1 DEF Pends
  <2>2. CASE j > i
    <3>1. j - 1 \in 1..(N - 1) /\ ~(j - 1 < i) /\ (j - 1) + 1 = j
      BY <1>5, <2>2
    <3>2. events'[j - 1].member = u
      BY <1>4, <3>1
    <3> QED BY <1>4, <3>1, <3>2 DEF Pends
  <2> QED BY <1>3, <1>5, <2>1, <2>2
<1>14. ~Pends(w)' => \A j \in 1..N : j > i => events[j].member # w
  <2> SUFFICES ASSUME NEW j \in 1..N, j > i, events[j].member = w PROVE Pends(w)'
    OBVIOUS
  <2>1. j - 1 \in 1..(N - 1) /\ ~(j - 1 < i) /\ (j - 1) + 1 = j
    BY <1>5
  <2>2. events'[j - 1].member = w
    BY <1>4, <2>1
  <2> QED BY <1>4, <2>1, <2>2 DEF Pends
<1>15. ~crossed' => \A n, v : SaidNow(n, v)' =>
         \/ v = w /\ n \in said
         \/ v # w /\ SaidNow(n, v)
  <2> SUFFICES ASSUME ~crossed', NEW n, NEW v, SaidNow(n, v)'
               PROVE  (v = w /\ n \in said) \/ (v # w /\ SaidNow(n, v))
    OBVIOUS
  <2>1. n \in DOMAIN nameToId' /\ nameToId'[n] = v
    BY <1>1, <1>11 DEF SaidNow, HasList
  <2>2. \/ n \in said /\ v = w
        \/ n \in DOMAIN nameToId /\ nameToId[n] = v /\ v # w
    BY <1>7, <2>1
  <2> QED BY <2>2 DEF SaidNow
<1>16. UpToDate'
  <2> SUFFICES ASSUME ~crossed'
               PROVE  /\ \A k \in 1..(N - 1) : Final(k)' => events'[k].names = guild[events'[k].member]
                      /\ \A n \in Names, v \in Members : SaidNow(n, v)' /\ ~Pends(v)' => Holds(v, n)
    BY <1>1, <1>4, <1>9 DEF UpToDate
  <2>1. /\ \A k \in 1..N : Final(k) => events[k].names = guild[events[k].member]
        /\ \A n \in Names, v \in Members : SaidNow(n, v) /\ ~Pends(v) => Holds(v, n)
    BY <1>2, <1>11 DEF MentionInd, UpToDate
  <2>2. ASSUME NEW k \in 1..(N - 1), Final(k)'
        PROVE  events'[k].names = guild[events'[k].member]
    <3>1. PICK old \in 1..N : old = IF k < i THEN k ELSE k + 1
      BY <1>2
    <3>2. events'[k] = events[old] /\ old # i
      BY <1>4, <3>1
    <3>3. \A j \in 1..(N - 1) : j > k => events'[j].member # events[old].member
      BY <1>4, <2>2, <3>2 DEF Final
    <3>4. ASSUME NEW j \in 1..N, j > old PROVE events[j].member # events[old].member
      <4>1. CASE j = i
        BY <1>3, <1>11, <3>1, <3>2, <3>4, <4>1
      <4>2. CASE j < i
        <5>1. j \in 1..(N - 1) /\ j > k /\ events'[j] = events[j]
          BY <1>4, <1>5, <3>1, <3>4, <4>2
        <5> QED BY <3>3, <5>1
      <4>3. CASE j > i
        <5>1. j - 1 \in 1..(N - 1) /\ j - 1 > k /\ ~(j - 1 < i) /\ (j - 1) + 1 = j
          BY <1>5, <3>1, <3>2, <3>4, <4>3
        <5>2. events'[j - 1] = events[j]
          BY <1>4, <5>1
        <5> QED BY <3>3, <5>1, <5>2
      <4> QED BY <1>5, <4>1, <4>2, <4>3
    <3>5. Final(old)
      BY <1>2, <3>4 DEF Final
    <3> QED BY <2>1, <3>2, <3>5
  <2>3. ASSUME NEW n \in Names, NEW v \in Members, SaidNow(n, v)', ~Pends(v)'
        PROVE  Holds(v, n)
    <3>1. CASE v = w /\ n \in said
      <4>1. Final(i)
        BY <1>2, <1>3, <1>14, <2>3, <3>1 DEF Final
      <4> QED BY <1>3, <1>5, <2>1, <3>1, <4>1 DEF Holds
    <3>2. CASE v # w /\ SaidNow(n, v)
      BY <1>13, <2>1, <2>3, <3>2
    <3> QED BY <1>15, <2>3, <3>1, <3>2
  <2> QED BY <2>2, <2>3
<1>17. ASSUME i = 1, NEW a \in Nat, NEW v, NEW u, Corrected(a + 1, v, u) PROVE Corrected(a, v, u)'
  <2>1. PICK j, k \in 1..N : /\ a + 1 < j /\ j < k
                             /\ events[j].member = v /\ events[k].member = u /\ Final(k)
    BY <1>2, <1>17 DEF Corrected
  <2>2. PICK b, c \in 1..(N - 1) : b + 1 = j /\ c + 1 = k
    <3>1. j - 1 \in 1..(N - 1) /\ (j - 1) + 1 = j /\ k - 1 \in 1..(N - 1) /\ (k - 1) + 1 = k
      BY <2>1
    <3> QED BY <3>1
  <2>5. ~(b < i) /\ ~(c < i)
    BY <1>17
  <2>6. events'[b] = events[b + 1] /\ events'[c] = events[c + 1]
    BY <1>4, <2>5
  <2>3. a < b /\ b < c /\ events'[b] = events[j] /\ events'[c] = events[k]
    BY <2>1, <2>2, <2>6
  <2>4. Final(c)'
    <3> SUFFICES ASSUME NEW d \in 1..(N - 1), d > c PROVE events'[d].member # events'[c].member
      BY <1>4 DEF Final
    <3>1. d + 1 \in 1..N /\ d + 1 > k /\ events'[d] = events[d + 1]
      BY <1>4, <1>17, <2>2
    <3>2. events[d + 1].member # events[k].member
      BY <1>2, <2>1, <3>1 DEF Final
    <3> QED BY <2>3, <3>1, <3>2
  <2> QED BY <1>4, <2>1, <2>3, <2>4 DEF Corrected
<1>18. Corrections'
  <2> SUFFICES ASSUME ~(crossed' \/ reordered'), NEW n \in Names \ shared, NEW v \in Members,
                      NEW u \in Members, u # v, Holds(u, n)
               PROVE  /\ SaidNow(n, v)' => Corrected(0, v, u)'
                      /\ \A a \in 1..(N - 1) : SaidBy(a, n, v)' => Corrected(a, v, u)'
    BY <1>1, <1>4, <1>9 DEF Corrections
  <2>1. /\ SaidNow(n, v) => Corrected(0, v, u)
        /\ \A a \in 1..N : SaidBy(a, n, v) => Corrected(a, v, u)
    BY <1>2, <1>11, <1>12 DEF MentionInd, Corrections
  <2>2. i = 1
    BY <1>12
  <2>3. SaidNow(n, v)' => Corrected(0, v, u)'
    <3> SUFFICES ASSUME SaidNow(n, v)' PROVE Corrected(0 + 1, v, u)
      BY <1>17, <2>2
    <3>1. CASE v = w /\ n \in said
      <4>1. SaidBy(1, n, v)
        BY <1>3, <2>2, <3>1 DEF SaidBy
      <4> QED BY <1>5, <2>1, <2>2, <4>1
    <3>2. CASE v # w /\ SaidNow(n, v)
      <4>1. PICK j, k \in 1..N : /\ 0 < j /\ j < k
                                 /\ events[j].member = v /\ events[k].member = u /\ Final(k)
        BY <1>2, <2>1, <3>2 DEF Corrected
      <4>2. 0 + 1 < j
        BY <1>3, <2>2, <3>2, <4>1
      <4> QED BY <1>2, <4>1, <4>2 DEF Corrected
    <3> QED BY <1>15, <3>1, <3>2
  <2>4. ASSUME NEW a \in 1..(N - 1), SaidBy(a, n, v)' PROVE Corrected(a, v, u)'
    <3>1. events'[a] = events[a + 1] /\ a + 1 \in 1..N /\ a \in Nat
      BY <1>4, <2>2
    <3>2. SaidBy(a + 1, n, v)
      BY <2>4, <3>1 DEF SaidBy
    <3> QED BY <1>17, <2>1, <2>2, <3>1, <3>2
  <2> QED BY <2>3, <2>4
<1>19. Known'
  <2> SUFFICES ASSUME ~(crossed' \/ reordered'), NEW n \in Names \ shared, NEW u \in Members,
                      Holds(u, n), ~Pends(u)', cached' /\ ~partial'
               PROVE  n \in DOMAIN nameToId' /\ nameToId'[n] = u
    BY <1>1, <1>9, <1>11 DEF Known, HasList
  <2>1. /\ i = 1 /\ cached /\ ~partial /\ ~crossed /\ ~reordered
    BY <1>7, <1>11, <1>12
  <2>2. CASE u = w
    <3>1. \A j \in 1..N : j > 1 => events[j].member # w
      BY <1>14, <2>1, <2>2
    <3>2. Final(1)
      BY <1>2, <1>3, <2>1, <3>1 DEF Final
    <3>3. events[1].names = guild[events[1].member]
      BY <1>2, <1>5, <2>1, <3>2 DEF MentionInd, UpToDate
    <3>4. n \in said
      BY <1>3, <2>1, <2>2, <3>3 DEF Holds
    <3>5. n \in DOMAIN nameToId => nameToId[n] = w
      <4> SUFFICES ASSUME n \in DOMAIN nameToId, nameToId[n] # w PROVE FALSE
        OBVIOUS
      <4>1. nameToId[n] \in Members
        BY DEF MentionInd, MentionTypes
      <4>2. PICK v \in Members : v = nameToId[n]
        BY <4>1
      <4>3. SaidNow(n, v)
        BY <4>2 DEF SaidNow
      <4>4. Corrected(0, v, w)
        BY <2>1, <2>2, <4>2, <4>3 DEF MentionInd, Corrections
      <4> QED BY <1>2, <3>1, <4>4 DEF Corrected
    <3> QED BY <1>7, <2>2, <3>4, <3>5
  <2>3. CASE u # w
    <3>1. ~Pends(u)
      BY <1>13, <2>3
    <3>2. n \in DOMAIN nameToId /\ nameToId[n] = u
      BY <2>1, <3>1 DEF MentionInd, Known
    <3>3. n \notin said
      <4> SUFFICES ASSUME n \in said PROVE FALSE
        OBVIOUS
      <4>1. SaidBy(1, n, w)
        BY <1>3, <2>1 DEF SaidBy
      <4>2. Corrected(1, w, u)
        BY <1>2, <1>5, <1>6, <2>1, <2>3, <4>1 DEF MentionInd, Corrections
      <4> QED BY <3>1, <4>2 DEF Corrected, Pends
    <3> QED BY <1>7, <2>3, <3>2, <3>3
  <2> QED BY <2>2, <2>3
<1> QED BY <1>8, <1>10, <1>16, <1>18, <1>19 DEF MentionInd

\* A dropped update promises nothing more of the cache.
LEMMA DropKeeps == ASSUME MentionInd, NEW i \in Nat, DropUpdate(i) PROVE MentionInd'
<1>1. /\ events \in Seq(MemberEvents) /\ i \in 1..Len(events)
      /\ events' = RemoveAt(events, i) /\ crossed'
      /\ UNCHANGED <<guild, cached, nameToId, fetch, shared>>
  BY DEF MentionInd, MentionTypes, DropUpdate
<1>2. PICK N \in Nat : N = Len(events)
  BY <1>1
<1>3. events' \in Seq(MemberEvents)
  BY <1>1, <1>2, RemoveOne
<1>4. MentionTypes'
  BY <1>1, <1>3 DEF MentionInd, MentionTypes, HasList
<1>5. OneHolder'
  BY <1>1 DEF MentionInd, OneHolder, Holds
<1> QED BY <1>1, <1>4, <1>5 DEF MentionInd, UpToDate, Corrections, Known

\* Every step.
LEMMA MentionIndStep == MentionInd /\ [MentionNext]_mentionVars => MentionInd'
<1> SUFFICES ASSUME MentionInd, [MentionNext]_mentionVars PROVE MentionInd'
  OBVIOUS
<1>1. CASE UNCHANGED mentionVars
  <2>1. DOMAIN fetch = Fetchers /\ \A f \in Fetchers :
          fetch[f] = [at |-> fetch[f].at, members |-> fetch[f].members]
    BY DEF MentionInd, MentionTypes
  <2> QED BY <1>1, <2>1, ListsStay DEF mentionVars, HasList
<1>2. CASE \E u \in Members, names \in {<<>>} \cup [1..2 -> Names] : MemberChanges(u, names)
  BY <1>2, ChangeKeeps DEF NameLists
<1>3. CASE \E i \in 1..MaxChanges : Apply(i) \/ DropUpdate(i)
  <2>1. \A i \in 1..MaxChanges : i \in Nat
    BY MentionAssumption
  <2> QED BY <1>3, <2>1, ApplyKeeps, DropKeeps
<1>4. CASE \E f \in Fetchers : \/ MissCache(f) \/ ClaimFetch(f) \/ ListMembers(f) \/ ListFails(f)
                               \/ ReleaseFetch(f) \/ BuildCache(f)
  BY <1>4, FetchKeeps, ListKeeps, BuildKeeps
<1> QED BY <1>1, <1>2, <1>3, <1>4 DEF MentionNext

\* NamesAreKnown: a name in the cache stands for a member who has it, and everybody is
\* known by each name that was never shared, for any members, names, answers and number
\* of changes, unless events overtook one another in the ways NamesAreKnown excepts.
THEOREM NamesStayKnown == MentionSpec => []NamesAreKnown
<1>1. MentionInd => NamesAreKnown
  <2> SUFFICES ASSUME MentionInd, Quiet PROVE NamesAreHeld /\ NobodyIsForgotten
    BY DEF NamesAreKnown, NamesAreHeld, NobodyIsForgotten
  <2>1. /\ \A u : ~Pends(u)
        /\ \A n, u : u \in Holders(n) <=> u \in Members /\ Holds(u, n)
    BY DEF Quiet, Pends, Holders, Holds
  <2>2. NamesAreHeld
    <3> SUFFICES ASSUME ~crossed, NEW n \in DOMAIN nameToId
                 PROVE  nameToId[n] \in Members /\ Holds(nameToId[n], n)
      BY <2>1 DEF NamesAreHeld
    <3>1. n \in Names /\ nameToId[n] \in Members
      BY DEF MentionInd, MentionTypes
    <3>2. PICK v \in Members : v = nameToId[n]
      BY <3>1
    <3>3. SaidNow(n, v)
      BY <3>2 DEF SaidNow
    <3> QED BY <2>1, <3>1, <3>2, <3>3 DEF MentionInd, UpToDate
  <2>3. NobodyIsForgotten
    BY <2>1 DEF NobodyIsForgotten, MentionInd, Known
  <2> QED BY <2>2, <2>3
<1> QED BY <1>1, MentionInitial, MentionIndStep, PTL DEF MentionSpec

\* Who is between the claim of the flight and its release.
Flying == {f \in Fetchers : fetch[f].at \in {"ask", "release", "failed"}}
FlightInd ==
  /\ ~cached => nameToId = <<>>
  /\ IF fetching THEN \E f \in Fetchers : Flying = {f} ELSE Flying = {}

\* The flight is claimed when nobody has it and released by the one who has.
LEMMA FlightStep == MentionInd /\ FlightInd /\ [MentionNext]_mentionVars => FlightInd'
<1> SUFFICES ASSUME MentionInd, FlightInd, [MentionNext]_mentionVars PROVE FlightInd'
  OBVIOUS
<1>1. DOMAIN fetch = Fetchers
  BY DEF MentionInd, MentionTypes
<1>2. CASE UNCHANGED <<fetch, fetching, cached, nameToId>>
  BY <1>2 DEF FlightInd, Flying
<1>3. CASE \/ UNCHANGED mentionVars \/ \E i \in 1..MaxChanges : DropUpdate(i)
           \/ \E u \in Members, names \in {<<>>} \cup [1..2 -> Names] : MemberChanges(u, names)
  BY <1>2, <1>3 DEF mentionVars, MemberChanges, DropUpdate
<1>4. ASSUME NEW i \in 1..MaxChanges, Apply(i) PROVE FlightInd'
  <2>1. UNCHANGED <<fetch, fetching>>
    BY <1>4 DEF Apply
  <2>2. ~cached' => nameToId' = <<>>
    <3>1. SUFFICES ASSUME ~cached' PROVE nameToId' = <<>>
      OBVIOUS
    <3>2. nameToId' = Without(nameToId, events[i].member) /\ ~cached
      BY <1>4, <3>1 DEF Apply
    <3>3. DOMAIN nameToId = {}
      BY <3>2 DEF FlightInd
    <3>4. nameToId' = [n \in {} |-> nameToId[n]]
      BY <3>2, <3>3 DEF Without, Restrict
    <3> QED BY <3>4
  <2> QED BY <2>1, <2>2 DEF FlightInd, Flying
<1>5. ASSUME NEW f \in Fetchers, MissCache(f) \/ ClaimFetch(f) \/ ListFails(f) \/ ReleaseFetch(f)
      PROVE  FlightInd'
  <2>1. UNCHANGED <<cached, nameToId>>
    BY <1>5 DEF MissCache, ClaimFetch, ListFails, ReleaseFetch
  <2>2. CASE MissCache(f)
    <3>1. fetch[f].at = "new" /\ fetching' = fetching /\ FetchTo(f, "claim")
      BY <2>2 DEF MissCache
    <3>0. \A g \in Fetchers : fetch'[g].at = IF g = f THEN "claim" ELSE fetch[g].at
      BY <3>1, FetchGoes
    <3>2. Flying' = Flying
      BY <3>0, <3>1 DEF Flying
    <3> QED BY <2>1, <3>1, <3>2 DEF FlightInd
  <2>3. CASE ListFails(f)
    <3>1. fetch[f].at = "ask" /\ fetching' = fetching /\ FetchTo(f, "failed")
      BY <2>3 DEF ListFails
    <3>0. \A g \in Fetchers : fetch'[g].at = IF g = f THEN "failed" ELSE fetch[g].at
      BY <3>1, FetchGoes
    <3>2. Flying' = Flying
      BY <3>0, <3>1 DEF Flying
    <3> QED BY <2>1, <3>1, <3>2 DEF FlightInd
  <2>4. CASE ClaimFetch(f) /\ fetching
    <3>1. fetch[f].at = "claim" /\ fetching' = TRUE /\ FetchTo(f, "done")
      BY <2>4 DEF ClaimFetch
    <3>0. \A g \in Fetchers : fetch'[g].at = IF g = f THEN "done" ELSE fetch[g].at
      BY <3>1, FetchGoes
    <3>2. Flying' = Flying
      BY <3>0, <3>1 DEF Flying
    <3> QED BY <2>1, <2>4, <3>1, <3>2 DEF FlightInd
  <2>5. CASE ClaimFetch(f) /\ ~fetching
    <3>1. fetch[f].at = "claim" /\ fetching' = TRUE /\ FetchTo(f, "ask")
      BY <2>5 DEF ClaimFetch
    <3>2. \A g \in Fetchers : fetch'[g].at = IF g = f THEN "ask" ELSE fetch[g].at
      BY <3>1, FetchGoes
    <3>3. Flying' = Flying \cup {f}
      BY <3>2 DEF Flying
    <3>4. Flying' = {f}
      BY <2>5, <3>3 DEF FlightInd
    <3> QED BY <2>1, <3>1, <3>4 DEF FlightInd
  <2>6. CASE ReleaseFetch(f)
    <3>1. PICK next \in {"build", "done"} : FetchTo(f, next)
      BY <2>6 DEF ReleaseFetch
    <3>2. f \in Flying /\ fetching' = FALSE
      BY <2>6 DEF ReleaseFetch, Flying
    <3>3. Flying = {f}
      BY <3>2 DEF FlightInd
    <3>4. \A g \in Fetchers : fetch'[g].at = IF g = f THEN next ELSE fetch[g].at
      BY <3>1, FetchGoes
    <3>5. Flying' = Flying \ {f}
      BY <3>4 DEF Flying
    <3> QED BY <2>1, <3>2, <3>3, <3>5 DEF FlightInd
  <2> QED BY <1>5, <2>2, <2>3, <2>4, <2>5, <2>6
<1>6. ASSUME NEW f \in Fetchers, ListMembers(f) PROVE FlightInd'
  <2>1. UNCHANGED <<cached, nameToId, fetching>> /\ fetch[f].at = "ask"
    BY <1>6 DEF ListMembers
  <2>2. \E list : fetch' = [fetch EXCEPT ![f] = [at |-> "release", members |-> list]]
    BY <1>6 DEF ListMembers
  <2>3. Flying' = Flying
    BY <1>1, <2>1, <2>2 DEF Flying
  <2> QED BY <2>1, <2>3 DEF FlightInd
<1>7. ASSUME NEW f \in Fetchers, BuildCache(f) PROVE FlightInd'
  <2>0. [NotFetched EXCEPT !.at = "done"] = [at |-> "done", members |-> <<>>]
    BY DEF NotFetched
  <2>1. /\ cached' = TRUE /\ fetching' = fetching /\ fetch[f].at = "build"
        /\ fetch' = [fetch EXCEPT ![f] = [at |-> "done", members |-> <<>>]]
    BY <1>7, <2>0 DEF BuildCache
  <2>2. Flying' = Flying
    BY <1>1, <2>1 DEF Flying
  <2> QED BY <2>1, <2>2 DEF FlightInd
<1> QED BY <1>3, <1>4, <1>5, <1>6, <1>7 DEF MentionNext

\* The cached names are names of members, none is cached without an entry, and one task
\* fetches at a time, however many answers look for names (MentionTypeOK).
THEOREM MentionsStayTyped == MentionSpec => []MentionTypeOK
<1>1. MentionInit => FlightInd
  BY DEF MentionInit, FlightInd, Flying, NotFetched
<1>2. ASSUME MentionInd, FlightInd PROVE MentionTypeOK
  <2>1. DOMAIN nameToId \subseteq Names /\ Range(nameToId) \subseteq Members
    BY <1>2 DEF MentionInd, MentionTypes, Range
  <2>2. Cardinality(Flying) = (IF fetching THEN 1 ELSE 0)
    BY <1>2, FS_EmptySet, FS_Singleton DEF FlightInd
  <2> QED BY <1>2, <2>1, <2>2 DEF MentionTypeOK, FlightInd, Flying
<1> QED BY <1>1, <1>2, MentionInitial, MentionIndStep, FlightStep, PTL DEF MentionSpec

(* The conversions of a text.  Each walk is followed line by line (WalkExists): what it  *)
(* has made of the lines so far reads like those lines, where a text is read as its      *)
(* lines of prose and of tables, each with whether it is code.                           *)

LineNames == LineForms \cup {"words", "fence", "blank", "header"}
FormTexts == Seq(LineNames)
ShownLines == [form : LineNames, quoted : BOOLEAN]
ShownTexts == Seq(ShownLines)

\* Whether a line is code, after one line more.
YesNo == BOOLEAN
BlockStep(block, form) == IF form = "fence" THEN ~block ELSE block

\* The recursion of InBlock.
LEMMA InBlockWalks ==
  ASSUME NEW lines \in FormTexts
  PROVE  \E c \in [0..Len(lines) -> YesNo] :
            /\ InBlock(lines) = c
            /\ c[0] = FALSE
            /\ \A i \in 1..Len(lines) : c[i] = BlockStep(c[i - 1], lines[i])
<1> DEFINE n == Len(lines)
<1>1. n \in Nat /\ FALSE \in YesNo
  BY DEF FormTexts, YesNo
<1> HIDE DEF n
<1>2. ASSUME NEW i \in 1..n, NEW x \in YesNo
      PROVE  BlockStep(x, lines[i]) \in YesNo
  BY DEF BlockStep, YesNo
<1> DEFINE G == [i \in 1..n |-> [x \in YesNo |-> BlockStep(x, lines[i])]]
<1>3. G \in [1..n -> [YesNo -> YesNo]]
  BY <1>2
<1>4. \A i \in 1..n, x \in YesNo : G[i][x] = BlockStep(x, lines[i])
  OBVIOUS
<1> HIDE DEF G
<1>5. PICK f \in [0..n -> YesNo] : Walks(f, n, FALSE, G)
  BY <1>1, <1>3, WalkExists
<1>6. ASSUME NEW i \in 1..n PROVE f[i] = BlockStep(f[i - 1], lines[i])
  <2>1. f[i - 1] \in YesNo
    BY <1>1
  <2>2. f[i] = G[i][f[i - 1]]
    BY <1>5 DEF Walks
  <2> QED BY <1>4, <2>1, <2>2
<1> DEFINE Walk(g) == g = [i \in 0..n |-> IF i = 0 THEN FALSE ELSE BlockStep(g[i - 1], lines[i])]
           Q == CHOOSE g : Walk(g)
<1>7. Walk(f)
  <2>1. ASSUME NEW i \in 0..n
        PROVE  f[i] = IF i = 0 THEN FALSE ELSE BlockStep(f[i - 1], lines[i])
    <3>1. CASE i = 0
      BY <1>5, <3>1 DEF Walks
    <3>2. CASE i # 0
      BY <1>1, <1>6, <3>2
    <3> QED BY <3>1, <3>2
  <2> QED BY <2>1
<1>8. Walk(Q)
  <2> HIDE DEF Walk
  <2> QED BY <1>7
<1>9. InBlock(lines) = Q
  BY DEF InBlock, n, BlockStep
<1> HIDE DEF Q
<1>10. Q = [i \in 0..n |-> IF i = 0 THEN FALSE ELSE BlockStep(Q[i - 1], lines[i])]
  BY <1>8
<1> HIDE DEF Walk
<1>11. Q[0] = FALSE
  BY <1>1, <1>10
<1>12. ASSUME NEW i \in 1..n PROVE Q[i] = BlockStep(Q[i - 1], lines[i])
  <2>1. i \in 0..n /\ i # 0
    BY <1>1
  <2> QED BY <1>10, <2>1, Zenon
<1>13. DOMAIN Q = 0..n /\ Q = [i \in 0..n |-> Q[i]]
  BY <1>10
<1>14. \A i \in 1..n : Q[i - 1] \in YesNo => Q[i] \in YesNo
  BY <1>2, <1>12
<1>15. \A i \in 0..n : Q[i] \in YesNo
  BY <1>1, <1>11, <1>14, WalkStays
<1>16. Q \in [0..n -> YesNo]
  BY <1>13, <1>15
<1> QED BY <1>9, <1>11, <1>12, <1>16 DEF n

\* The lines of prose and tables, after one line more.
BodyLines == [form : {"words", "tick", "row", "escaped"}, code : BOOLEAN]
BodyStep(bodies, form, code) ==
  IF form \in {"words", "tick", "row", "escaped"}
  THEN Append(bodies, [form |-> form, code |-> code])
  ELSE bodies

\* The recursion of Bodies.
LEMMA BodiesWalks ==
  ASSUME NEW lines \in FormTexts
  PROVE  \E c \in [0..Len(lines) -> Seq(BodyLines)] :
            /\ Bodies(lines) = c
            /\ c[0] = <<>>
            /\ \A i \in 1..Len(lines) : c[i] = BodyStep(c[i - 1], lines[i], InBlock(lines)[i])
<1> DEFINE n == Len(lines)
<1>1. n \in Nat /\ <<>> \in Seq(BodyLines)
  BY DEF FormTexts
<1> HIDE DEF n
<1>2. ASSUME NEW i \in 1..n, NEW x \in Seq(BodyLines)
      PROVE  BodyStep(x, lines[i], InBlock(lines)[i]) \in Seq(BodyLines)
  <2>1. InBlock(lines)[i] \in BOOLEAN
    <3>1. InBlock(lines) \in [0..n -> YesNo]
      BY InBlockWalks DEF n
    <3>2. i \in 0..n
      BY <1>1
    <3>3. InBlock(lines)[i] \in YesNo
      BY <3>1, <3>2
    <3> QED BY <3>3 DEF YesNo
  <2>2. lines[i] \in {"words", "tick", "row", "escaped"} =>
          [form |-> lines[i], code |-> InBlock(lines)[i]] \in BodyLines
    BY <2>1 DEF BodyLines
  <2> QED BY <2>2 DEF BodyStep
<1> DEFINE G == [i \in 1..n |-> [x \in Seq(BodyLines) |-> BodyStep(x, lines[i], InBlock(lines)[i])]]
<1>3. G \in [1..n -> [Seq(BodyLines) -> Seq(BodyLines)]]
  BY <1>2
<1>4. \A i \in 1..n, x \in Seq(BodyLines) : G[i][x] = BodyStep(x, lines[i], InBlock(lines)[i])
  OBVIOUS
<1> HIDE DEF G
<1>5. PICK f \in [0..n -> Seq(BodyLines)] : Walks(f, n, <<>>, G)
  BY <1>1, <1>3, WalkExists
<1>6. ASSUME NEW i \in 1..n PROVE f[i] = BodyStep(f[i - 1], lines[i], InBlock(lines)[i])
  <2>1. f[i - 1] \in Seq(BodyLines)
    BY <1>1
  <2>2. f[i] = G[i][f[i - 1]]
    BY <1>5 DEF Walks
  <2> QED BY <1>4, <2>1, <2>2
<1> DEFINE Walk(g) == g = [i \in 0..n |-> IF i = 0 THEN <<>>
                        ELSE BodyStep(g[i - 1], lines[i], InBlock(lines)[i])]
           Q == CHOOSE g : Walk(g)
<1>7. Walk(f)
  <2>1. ASSUME NEW i \in 0..n
        PROVE  f[i] = IF i = 0 THEN <<>> ELSE BodyStep(f[i - 1], lines[i], InBlock(lines)[i])
    <3>1. CASE i = 0
      BY <1>5, <3>1 DEF Walks
    <3>2. CASE i # 0
      BY <1>1, <1>6, <3>2
    <3> QED BY <3>1, <3>2
  <2> QED BY <2>1
<1>8. Walk(Q)
  <2> HIDE DEF Walk
  <2> QED BY <1>7
<1>9. Bodies(lines) = Q
  BY DEF Bodies, n, BodyStep
<1> HIDE DEF Q
<1>10. Q = [i \in 0..n |-> IF i = 0 THEN <<>> ELSE BodyStep(Q[i - 1], lines[i], InBlock(lines)[i])]
  BY <1>8
<1> HIDE DEF Walk
<1>11. Q[0] = <<>>
  BY <1>1, <1>10
<1>12. ASSUME NEW i \in 1..n PROVE Q[i] = BodyStep(Q[i - 1], lines[i], InBlock(lines)[i])
  <2>1. i \in 0..n /\ i # 0
    BY <1>1
  <2> QED BY <1>10, <2>1, Zenon
<1>13. DOMAIN Q = 0..n /\ Q = [i \in 0..n |-> Q[i]]
  BY <1>10
<1>14. \A i \in 1..n : Q[i - 1] \in Seq(BodyLines) => Q[i] \in Seq(BodyLines)
  BY <1>2, <1>12
<1>15. \A i \in 0..n : Q[i] \in Seq(BodyLines)
  BY <1>1, <1>11, <1>14, WalkStays
<1>16. Q \in [0..n -> Seq(BodyLines)]
  BY <1>13, <1>15
<1> QED BY <1>9, <1>11, <1>12, <1>16 DEF n

\* The states of the mentions' walk.
MentionStates == [at : SUBSET Nat, triple : BOOLEAN, inline : BOOLEAN]

\* The recursion of Mentions.
LEMMA MentionsWalks ==
  ASSUME NEW lines \in ShownTexts
  PROVE  \E c \in [0..Len(lines) -> MentionStates] :
            /\ Mentions(lines) = c[Len(lines)].at
            /\ c[0] = [at |-> {}, triple |-> FALSE, inline |-> FALSE]
            /\ \A i \in 1..Len(lines) : c[i] = MentionStep(lines, c[i - 1], i)
<1> DEFINE n == Len(lines)
<1>1. n \in Nat /\ [at |-> {}, triple |-> FALSE, inline |-> FALSE] \in MentionStates
  BY DEF ShownTexts, MentionStates
<1> HIDE DEF n
<1>2. ASSUME NEW i \in 1..n, NEW x \in MentionStates
      PROVE  MentionStep(lines, x, i) \in MentionStates
  <2>1. i \in Nat
    BY <1>1
  <2>2. x.at \cup {i} \in SUBSET Nat
    BY <2>1 DEF MentionStates
  <2> QED BY <2>2 DEF MentionStep, MentionStates
<1> DEFINE G == [i \in 1..n |-> [x \in MentionStates |-> MentionStep(lines, x, i)]]
<1>3. G \in [1..n -> [MentionStates -> MentionStates]]
  BY <1>2
<1>4. \A i \in 1..n, x \in MentionStates : G[i][x] = MentionStep(lines, x, i)
  OBVIOUS
<1> HIDE DEF G
<1>5. PICK f \in [0..n -> MentionStates] :
        Walks(f, n, [at |-> {}, triple |-> FALSE, inline |-> FALSE], G)
  BY <1>1, <1>3, WalkExists
<1>6. ASSUME NEW i \in 1..n PROVE f[i] = MentionStep(lines, f[i - 1], i)
  <2>1. f[i - 1] \in MentionStates
    BY <1>1
  <2>2. f[i] = G[i][f[i - 1]]
    BY <1>5 DEF Walks
  <2> QED BY <1>4, <2>1, <2>2
<1> DEFINE Walk(g) == g = [i \in 0..n |->
          IF i = 0 THEN [at |-> {}, triple |-> FALSE, inline |-> FALSE]
          ELSE MentionStep(lines, g[i - 1], i)]
           Q == CHOOSE g : Walk(g)
<1>7. Walk(f)
  <2>1. ASSUME NEW i \in 0..n
        PROVE  f[i] = IF i = 0 THEN [at |-> {}, triple |-> FALSE, inline |-> FALSE]
                      ELSE MentionStep(lines, f[i - 1], i)
    <3>1. CASE i = 0
      BY <1>5, <3>1 DEF Walks
    <3>2. CASE i # 0
      BY <1>1, <1>6, <3>2
    <3> QED BY <3>1, <3>2
  <2> QED BY <2>1
<1>8. Walk(Q)
  <2> HIDE DEF Walk
  <2> QED BY <1>7
<1>9. Mentions(lines) = Q[Len(lines)].at
  BY DEF Mentions, n
<1> HIDE DEF Q
<1>10. Q = [i \in 0..n |-> IF i = 0 THEN [at |-> {}, triple |-> FALSE, inline |-> FALSE]
                        ELSE MentionStep(lines, Q[i - 1], i)]
  BY <1>8
<1> HIDE DEF Walk
<1>11. Q[0] = [at |-> {}, triple |-> FALSE, inline |-> FALSE]
  BY <1>1, <1>10
<1>12. ASSUME NEW i \in 1..n PROVE Q[i] = MentionStep(lines, Q[i - 1], i)
  <2>1. i \in 0..n /\ i # 0
    BY <1>1
  <2> QED BY <1>10, <2>1, Zenon
<1>13. DOMAIN Q = 0..n /\ Q = [i \in 0..n |-> Q[i]]
  BY <1>10
<1>14. \A i \in 1..n : Q[i - 1] \in MentionStates => Q[i] \in MentionStates
  BY <1>2, <1>12
<1>15. \A i \in 0..n : Q[i] \in MentionStates
  BY <1>1, <1>11, <1>14, WalkStays
<1>16. Q \in [0..n -> MentionStates]
  BY <1>13, <1>15
<1> QED BY <1>9, <1>11, <1>12, <1>16 DEF n

\* The states of the markers' walk, and of the tables'.
MarkStates ==
  [out : FormTexts, paths : FormTexts, mode : {"text", "code", "inline", "stopped"}, next : Nat]
TableStates == [out : FormTexts, code : BOOLEAN, next : Nat]

\* One step of the markers' walk leads from a state of it to another.
LEMMA MarkerStates ==
  ASSUME NEW lines \in FormTexts, NEW i \in 1..Len(lines), NEW acc \in MarkStates
  PROVE  MarkerStep(lines, acc, i) \in MarkStates
<1> DEFINE form == lines[i]
           ends == {j \in i..Len(lines) : lines[j] = "marker"}
           keep == [acc EXCEPT !.out = Append(@, form)]
           cut == [acc EXCEPT !.out = Append(@, "blank"), !.next = Min(ends) + 1,
                              !.paths = Append(@, form)]
           moved == MarkerStep(lines, acc, i)
<1>1. Len(lines) \in Nat /\ form \in LineNames /\ "blank" \in LineNames
  BY DEF FormTexts, LineNames
<1>2. /\ Append(acc.out, form) \in FormTexts /\ Append(acc.out, "blank") \in FormTexts
      /\ Append(acc.paths, form) \in FormTexts
  BY <1>1 DEF FormTexts, MarkStates
<1>3. keep \in MarkStates /\ \A m \in {"text", "code", "inline", "stopped"} :
                               [keep EXCEPT !.mode = m] \in MarkStates
  <2> HIDE DEF form
  <2> QED BY <1>2 DEF MarkStates
<1>4. ends # {} => cut \in MarkStates
  <2> SUFFICES ASSUME ends # {} PROVE cut \in MarkStates
    OBVIOUS
  <2>1. ends \in SUBSET (0..Len(lines))
    BY <1>1
  <2> HIDE DEF ends, form
  <2>2. Min(ends) \in 0..Len(lines)
    BY <1>1, <2>1, MinOf
  <2>3. Min(ends) + 1 \in Nat
    BY <1>1, <2>2
  <2> QED BY <1>2, <2>3 DEF MarkStates
<1>5. \/ moved = acc \/ moved = keep \/ (ends # {} /\ moved = cut)
      \/ moved = [keep EXCEPT !.mode = IF form = "fence" THEN "text" ELSE "code"]
      \/ moved = [keep EXCEPT !.mode = IF form \in {"fence", "tick"} THEN "text" ELSE "inline"]
      \/ moved = [keep EXCEPT !.mode = "code"] \/ moved = [keep EXCEPT !.mode = "inline"]
      \/ moved = [keep EXCEPT !.mode = "stopped"]
  <2>1. (i < acc.next /\ ~(i >= acc.next)) \/ (i >= acc.next /\ ~(i < acc.next))
    <3>1. i \in Nat /\ acc.next \in Nat
      BY DEF MarkStates
    <3> QED BY <3>1
  <2>2. CASE i < acc.next
    BY <2>1, <2>2 DEF MarkerStep
  <2>3. CASE i >= acc.next /\ acc.mode = "code"
    BY <2>1, <2>3 DEF MarkerStep
  <2>4. CASE i >= acc.next /\ acc.mode = "inline"
    BY <2>1, <2>4 DEF MarkerStep
  <2>5. CASE i >= acc.next /\ acc.mode = "stopped"
    BY <2>1, <2>5 DEF MarkerStep
  <2>6. CASE i >= acc.next /\ acc.mode \notin {"code", "inline", "stopped"}
    <3> DEFINE inText ==
                 CASE form = "fence" -> [keep EXCEPT !.mode = "code"]
                   [] form = "tick" -> [keep EXCEPT !.mode = "inline"]
                   [] form = "open_marker" /\ ends = {} -> [keep EXCEPT !.mode = "stopped"]
                   [] form \in {"marker", "open_marker"} /\ ends # {} -> cut
                   [] OTHER -> keep
    <3>1. moved = inText
      BY <2>1, <2>6 DEF MarkerStep
    <3> HIDE DEF moved, form, ends, keep, cut
    <3>2. CASE form = "fence"
      BY <3>1, <3>2
    <3>3. CASE form = "tick"
      BY <3>1, <3>3
    <3>4. CASE form = "open_marker" /\ ends = {}
      BY <3>1, <3>4
    <3>5. CASE form \in {"marker", "open_marker"} /\ ends # {}
      BY <3>1, <3>5
    <3>6. CASE form \notin {"fence", "tick"} /\ ~(form = "open_marker" /\ ends = {})
               /\ ~(form \in {"marker", "open_marker"} /\ ends # {})
      BY <3>1, <3>6
    <3> HIDE DEF inText
    <3> QED BY <3>2, <3>3, <3>4, <3>5, <3>6
  <2> HIDE DEF moved, keep, cut
  <2> QED BY <2>1, <2>2, <2>3, <2>4, <2>5, <2>6
<1> HIDE DEF moved, keep, cut
<1>6. QED
  BY <1>3, <1>4, <1>5 DEF moved

\* The end of a table lies behind its row and its rule.
LEMMA TableEndLies ==
  ASSUME NEW lines \in FormTexts, NEW i \in 1..Len(lines), i + 2 <= Len(lines)
  PROVE  /\ TableEnd(lines, i) \in (i + 2)..(Len(lines) + 1)
         /\ \A j \in (i + 2)..(TableEnd(lines, i) - 1) : IsTableRow(lines[j])
<1> DEFINE N == Len(lines)
           S == {j \in (i + 2)..(N + 1) : j > N \/ ~IsTableRow(lines[j])}
<1>1. N \in Nat
  BY DEF FormTexts
<1>2. N + 1 \in S /\ S \in SUBSET (0..(N + 1)) /\ S # {} /\ N + 1 \in Nat
  <2>1. N + 1 \in S
    BY <1>1
  <2>2. \A j \in S : j \in 0..(N + 1)
    BY <1>1
  <2> HIDE DEF S
  <2> QED BY <1>1, <2>1, <2>2
<1>3. Min(S) \in S /\ \A j \in S : Min(S) <= j
  <2> HIDE DEF S
  <2> QED BY <1>1, <1>2, MinOf
<1>4. TableEnd(lines, i) = Min(S)
  BY DEF TableEnd
<1>5. ASSUME NEW j \in (i + 2)..(Min(S) - 1) PROVE IsTableRow(lines[j])
  <2>1. Min(S) \in (i + 2)..(N + 1)
    BY <1>3
  <2>2. j \notin S
    <3> HIDE DEF S
    <3> QED BY <1>1, <1>3, <2>1
  <2>3. j \in (i + 2)..(N + 1) /\ ~(j > N)
    BY <1>1, <2>1
  <2> QED BY <2>2, <2>3
<1> QED BY <1>3, <1>4, <1>5

\* A drawn table is a text, with the rows of the table between its fences.
LEMMA DrawnTable ==
  ASSUME NEW lines \in FormTexts, NEW i \in 1..Len(lines), IsTable(lines, i)
  PROVE  LET m == TableEnd(lines, i) - (i + 2)
         IN /\ m \in Nat /\ m # 0 /\ i + 1 + m <= Len(lines)
            /\ Drawn(lines, i) \in FormTexts /\ Len(Drawn(lines, i)) = m + 3
            /\ Drawn(lines, i)[1] = "fence" /\ Drawn(lines, i)[2] = lines[i]
            /\ \A k \in 1..m : Drawn(lines, i)[2 + k] = lines[i + 1 + k]
            /\ Drawn(lines, i)[m + 3] = "fence"
            /\ lines[i] = "row" \/ lines[i] = "rule"
            /\ lines[i + 1] = "rule"
            /\ \A k \in 1..m : lines[i + 1 + k] = "row" \/ lines[i + 1 + k] = "rule"
<1> DEFINE N == Len(lines)
           e == TableEnd(lines, i)
           m == e - (i + 2)
           body == SubSeq(lines, i + 2, e - 1)
           head == <<"fence", lines[i]>>
           most == head \o body
           all == Drawn(lines, i)
<1>1. N \in Nat /\ lines \in Seq(LineNames) /\ "fence" \in LineNames
  BY DEF FormTexts, LineNames
<1>2. i + 2 <= N /\ e > i + 2 /\ lines[i + 1] = "rule"
  BY DEF IsTable
<1>3. e \in (i + 2)..(N + 1) /\ \A j \in (i + 2)..(e - 1) : IsTableRow(lines[j])
  BY <1>2, TableEndLies
<1>4. IsTableRow(lines[i]) /\ "escaped" \notin Range(SubSeq(lines, i, e - 1))
  BY DEF IsTable
<1> HIDE DEF e
<1>5. m \in Nat /\ m # 0 /\ i + 1 + m <= N /\ i \in Nat /\ e \in Nat
  BY <1>1, <1>2, <1>3
<1>6. \A j \in i..(e - 1) : lines[j] # "escaped"
  <2> DEFINE cutOut == SubSeq(lines, i, e - 1)
  <2>1. /\ cutOut \in Seq(LineNames) /\ Len(cutOut) = e - 1 - i + 1
        /\ \A k \in 1..(e - 1 - i + 1) : cutOut[k] = lines[i + k - 1]
    <3>1. \A j \in i..(e - 1) : lines[j] \in LineNames
      BY <1>1, <1>3
    <3>2. i <= e - 1 /\ i \in Nat /\ e - 1 \in Nat
      BY <1>5
    <3> QED BY <3>1, <3>2, SubSeqProperties
  <2>2. "escaped" \notin Range(cutOut)
    BY <1>4
  <2> HIDE DEF cutOut
  <2>3. ASSUME NEW j \in i..(e - 1) PROVE lines[j] # "escaped"
    <3>1. (j - i + 1) \in 1..(e - 1 - i + 1) /\ i + (j - i + 1) - 1 = j
      BY <1>5
    <3>2. cutOut[j - i + 1] = lines[j]
      BY <2>1, <3>1
    <3>3. j - i + 1 \in DOMAIN cutOut
      BY <2>1, <3>1
    <3> QED BY <2>2, <3>2, <3>3 DEF Range
  <2> QED BY <2>3
<1>7. /\ body \in Seq(LineNames) /\ Len(body) = m
      /\ \A k \in 1..m : body[k] = lines[i + 1 + k]
  <2>1. \A j \in (i + 2)..(e - 1) : lines[j] \in LineNames
    BY <1>1, <1>3, <1>5
  <2>2. /\ body \in Seq(LineNames) /\ Len(body) = e - 1 - (i + 2) + 1
        /\ \A k \in 1..(e - 1 - (i + 2) + 1) : body[k] = lines[i + 2 + k - 1]
    <3>1. i + 2 <= e - 1 /\ i + 2 \in Nat /\ e - 1 \in Nat
      BY <1>2, <1>5
    <3> QED BY <2>1, <3>1, SubSeqProperties
  <2>3. e - 1 - (i + 2) + 1 = m
    BY <1>5
  <2>4. \A k \in 1..m : i + 2 + k - 1 = i + 1 + k
    BY <1>5
  <2> HIDE DEF body, m
  <2> QED BY <2>2, <2>3, <2>4
<1> HIDE DEF body, m
<1>8. lines[i] \in LineNames
  BY <1>1
<1>9. head \in Seq(LineNames) /\ Len(head) = 2 /\ head[1] = "fence" /\ head[2] = lines[i]
  BY <1>1, <1>8
<1> HIDE DEF head
<1>10. /\ most \in Seq(LineNames) /\ Len(most) = 2 + m
       /\ most[1] = "fence" /\ most[2] = lines[i]
       /\ \A k \in 1..m : most[2 + k] = lines[i + 1 + k]
  <2>1. /\ most \in Seq(LineNames) /\ Len(most) = Len(head) + Len(body)
        /\ \A k \in 1..(Len(head) + Len(body)) :
             most[k] = IF k <= Len(head) THEN head[k] ELSE body[k - Len(head)]
    BY <1>7, <1>9, ConcatProperties
  <2>2. \A k \in 1..m : 2 + k \in 1..(2 + m) /\ ~(2 + k <= 2) /\ (2 + k) - 2 = k
    BY <1>5
  <2>3. 1 \in 1..(2 + m) /\ 2 \in 1..(2 + m) /\ 1 <= 2 /\ 2 <= 2
    BY <1>5
  <2> HIDE DEF most
  <2> QED BY <1>7, <1>9, <2>1, <2>2, <2>3
<1> HIDE DEF most
<1>11. all = most \o <<"fence">>
  BY DEF Drawn, most, head, body, e
<1>12. <<"fence">> \in Seq(LineNames) /\ Len(<<"fence">>) = 1 /\ <<"fence">>[1] = "fence"
  BY <1>1
<1> HIDE DEF all
<1>13. /\ all \in Seq(LineNames) /\ Len(all) = (2 + m) + 1
       /\ \A k \in 1..((2 + m) + 1) :
            all[k] = IF k <= 2 + m THEN most[k] ELSE <<"fence">>[k - (2 + m)]
  BY <1>10, <1>11, <1>12, ConcatProperties
<1>14. /\ all[1] = "fence" /\ all[2] = lines[i] /\ all[m + 3] = "fence" /\ Len(all) = m + 3
       /\ \A k \in 1..m : all[2 + k] = lines[i + 1 + k]
  <2>1. /\ 1 \in 1..((2 + m) + 1) /\ 2 \in 1..((2 + m) + 1) /\ 1 <= 2 + m /\ 2 <= 2 + m
        /\ m + 3 \in 1..((2 + m) + 1) /\ ~(m + 3 <= 2 + m) /\ (m + 3) - (2 + m) = 1
        /\ (2 + m) + 1 = m + 3
    BY <1>5
  <2>2. \A k \in 1..m : 2 + k \in 1..((2 + m) + 1) /\ 2 + k <= 2 + m
    BY <1>5
  <2> QED BY <1>10, <1>12, <1>13, <2>1, <2>2
<1>15. lines[i] = "row" \/ lines[i] = "rule"
  <2>1. i \in i..(e - 1)
    BY <1>2, <1>5
  <2> QED BY <1>4, <1>6, <2>1 DEF IsTableRow
<1>16. ASSUME NEW k \in 1..m PROVE lines[i + 1 + k] = "row" \/ lines[i + 1 + k] = "rule"
  <2>1. i + 1 + k \in (i + 2)..(e - 1) /\ i + 1 + k \in i..(e - 1)
    BY <1>5 DEF m
  <2> QED BY <1>3, <1>6, <2>1 DEF IsTableRow
<1>17. all \in FormTexts
  BY <1>13 DEF FormTexts
<1> QED BY <1>2, <1>5, <1>14, <1>15, <1>16, <1>17 DEF m, e, all

\* One step of the tables' walk: the lines below a table's first are skipped.
LEMMA TableMoves ==
  ASSUME NEW lines \in FormTexts, NEW i \in 1..Len(lines), NEW acc \in TableStates
  PROVE  LET moved == TableStep(lines, acc, i)
         IN \/ i < acc.next /\ moved = acc
            \/ /\ i >= acc.next /\ lines[i] = "fence"
               /\ moved.out = Append(acc.out, "fence") /\ moved.code = ~acc.code
               /\ moved.next = acc.next
            \/ /\ i >= acc.next /\ lines[i] # "fence" /\ ~acc.code /\ IsTable(lines, i)
               /\ moved.out = acc.out \o Drawn(lines, i) /\ moved.code = acc.code
               /\ moved.next = TableEnd(lines, i)
            \/ /\ i >= acc.next /\ lines[i] # "fence"
               /\ moved.out = Append(acc.out, lines[i]) /\ moved.code = acc.code
               /\ moved.next = acc.next
<1> DEFINE moved == TableStep(lines, acc, i)
<1>5. /\ (i < acc.next /\ ~(i >= acc.next)) \/ (i >= acc.next /\ ~(i < acc.next))
      /\ IsTable(lines, i) => lines[i] # "fence"
  <2>1. i \in Nat /\ acc.next \in Nat
    BY DEF TableStates
  <2> QED BY <2>1 DEF IsTable, IsTableRow
<1>1. CASE i < acc.next
  BY <1>1, <1>5 DEF TableStep
<1>2. CASE i >= acc.next /\ lines[i] = "fence"
  <2>1. moved = [acc EXCEPT !.out = Append(@, "fence"), !.code = ~@]
    BY <1>2, <1>5 DEF TableStep
  <2> HIDE DEF moved
  <2>2. moved.out = Append(acc.out, "fence") /\ moved.code = ~acc.code /\ moved.next = acc.next
    BY <2>1 DEF TableStates
  <2> QED BY <1>2, <2>2 DEF moved
<1>3. CASE i >= acc.next /\ lines[i] # "fence" /\ ~acc.code /\ IsTable(lines, i)
  <2> DEFINE all == acc.out \o Drawn(lines, i)
             e == TableEnd(lines, i)
  <2>1. moved = [acc EXCEPT !.next = e, !.out = all]
    BY <1>3, <1>5 DEF TableStep
  <2> HIDE DEF moved, all, e
  <2>2. moved.out = all /\ moved.code = acc.code /\ moved.next = e
    BY <2>1 DEF TableStates
  <2> QED BY <1>3, <2>2 DEF moved, all, e
<1>4. CASE i >= acc.next /\ lines[i] # "fence" /\ ~(~acc.code /\ IsTable(lines, i))
  <2>1. moved = [acc EXCEPT !.out = Append(@, lines[i])]
    BY <1>4, <1>5 DEF TableStep
  <2> HIDE DEF moved
  <2>2. moved.out = Append(acc.out, lines[i]) /\ moved.code = acc.code /\ moved.next = acc.next
    BY <2>1 DEF TableStates
  <2> QED BY <1>4, <2>2 DEF moved
<1> HIDE DEF moved
<1> QED BY <1>1, <1>2, <1>3, <1>4, <1>5 DEF moved

\* One step of that walk leads from a state of it to another.
LEMMA TableStepState ==
  ASSUME NEW lines \in FormTexts, NEW i \in 1..Len(lines), NEW acc \in TableStates
  PROVE  TableStep(lines, acc, i) \in TableStates
<1> DEFINE moved == TableStep(lines, acc, i)
           drawn == acc.out \o Drawn(lines, i)
           e == TableEnd(lines, i)
<1>1. lines[i] \in LineNames /\ "fence" \in LineNames /\ Len(lines) \in Nat
  BY DEF FormTexts, LineNames
<1>2. Append(acc.out, "fence") \in FormTexts /\ Append(acc.out, lines[i]) \in FormTexts
  BY <1>1 DEF TableStates, FormTexts
<1>3. IsTable(lines, i) => drawn \in FormTexts /\ e \in Nat
  <2> SUFFICES ASSUME IsTable(lines, i) PROVE drawn \in FormTexts /\ e \in Nat
    OBVIOUS
  <2>1. Drawn(lines, i) \in FormTexts
    BY DrawnTable
  <2>2. e \in (i + 2)..(Len(lines) + 1)
    BY TableEndLies DEF IsTable
  <2> HIDE DEF e
  <2>3. e \in Nat
    BY <1>1, <2>2
  <2> QED BY <2>1, <2>3 DEF FormTexts, TableStates
<1>4. \/ moved = acc
      \/ moved = [acc EXCEPT !.out = Append(@, "fence"), !.code = ~@]
      \/ IsTable(lines, i) /\ moved = [acc EXCEPT !.next = e, !.out = drawn]
      \/ moved = [acc EXCEPT !.out = Append(@, lines[i])]
  <2>1. /\ (i < acc.next /\ ~(i >= acc.next)) \/ (i >= acc.next /\ ~(i < acc.next))
        /\ IsTable(lines, i) => lines[i] # "fence"
    <3>1. i \in Nat /\ acc.next \in Nat
      BY DEF TableStates
    <3> QED BY <3>1 DEF IsTable, IsTableRow
  <2>2. CASE i < acc.next
    BY <2>1, <2>2 DEF TableStep
  <2>3. CASE i >= acc.next /\ lines[i] = "fence"
    BY <2>1, <2>3 DEF TableStep
  <2>4. CASE i >= acc.next /\ ~acc.code /\ IsTable(lines, i)
    BY <2>1, <2>4 DEF TableStep
  <2>5. CASE i >= acc.next /\ lines[i] # "fence" /\ ~(~acc.code /\ IsTable(lines, i))
    BY <2>1, <2>5 DEF TableStep
  <2> HIDE DEF moved, drawn, e
  <2> QED BY <2>1, <2>2, <2>3, <2>4, <2>5
<1> HIDE DEF moved, drawn, e
<1> QED BY <1>2, <1>3, <1>4 DEF TableStates, moved

\* The recursion of ExtractFileMarkers.
LEMMA MarkersWalks ==
  ASSUME NEW lines \in FormTexts
  PROVE  \E c \in [0..Len(lines) -> MarkStates] :
            /\ ExtractFileMarkers(lines) = c[Len(lines)]
            /\ c[0] = [out |-> <<>>, paths |-> <<>>, mode |-> "text", next |-> 1]
            /\ \A i \in 1..Len(lines) : c[i] = MarkerStep(lines, c[i - 1], i)
<1> DEFINE n == Len(lines)
<1>1. n \in Nat /\ [out |-> <<>>, paths |-> <<>>, mode |-> "text", next |-> 1] \in MarkStates
  BY DEF FormTexts, MarkStates
<1> HIDE DEF n
<1>2. ASSUME NEW i \in 1..n, NEW x \in MarkStates
      PROVE  MarkerStep(lines, x, i) \in MarkStates
  BY <1>1, <1>2, MarkerStates DEF n
<1> DEFINE G == [i \in 1..n |-> [x \in MarkStates |-> MarkerStep(lines, x, i)]]
<1>3. G \in [1..n -> [MarkStates -> MarkStates]]
  BY <1>2
<1>4. \A i \in 1..n, x \in MarkStates : G[i][x] = MarkerStep(lines, x, i)
  OBVIOUS
<1> HIDE DEF G
<1>5. PICK f \in [0..n -> MarkStates] :
        Walks(f, n, [out |-> <<>>, paths |-> <<>>, mode |-> "text", next |-> 1], G)
  BY <1>1, <1>3, WalkExists
<1>6. ASSUME NEW i \in 1..n PROVE f[i] = MarkerStep(lines, f[i - 1], i)
  <2>1. f[i - 1] \in MarkStates
    BY <1>1
  <2>2. f[i] = G[i][f[i - 1]]
    BY <1>5 DEF Walks
  <2> QED BY <1>4, <2>1, <2>2
<1> DEFINE Walk(g) == g = [i \in 0..n |->
          IF i = 0 THEN [out |-> <<>>, paths |-> <<>>, mode |-> "text", next |-> 1]
          ELSE MarkerStep(lines, g[i - 1], i)]
           Q == CHOOSE g : Walk(g)
<1>7. Walk(f)
  <2>1. ASSUME NEW i \in 0..n
        PROVE  f[i] = IF i = 0 THEN [out |-> <<>>, paths |-> <<>>, mode |-> "text", next |-> 1]
                      ELSE MarkerStep(lines, f[i - 1], i)
    <3>1. CASE i = 0
      BY <1>5, <3>1 DEF Walks
    <3>2. CASE i # 0
      BY <1>1, <1>6, <3>2
    <3> QED BY <3>1, <3>2
  <2> QED BY <2>1
<1>8. Walk(Q)
  <2> HIDE DEF Walk
  <2> QED BY <1>7
<1>9. ExtractFileMarkers(lines) = Q[Len(lines)]
  BY DEF ExtractFileMarkers, n
<1> HIDE DEF Q
<1>10. Q = [i \in 0..n |-> IF i = 0 THEN [out |-> <<>>, paths |-> <<>>, mode |-> "text", next |-> 1]
                        ELSE MarkerStep(lines, Q[i - 1], i)]
  BY <1>8
<1> HIDE DEF Walk
<1>11. Q[0] = [out |-> <<>>, paths |-> <<>>, mode |-> "text", next |-> 1]
  BY <1>1, <1>10
<1>12. ASSUME NEW i \in 1..n PROVE Q[i] = MarkerStep(lines, Q[i - 1], i)
  <2>1. i \in 0..n /\ i # 0
    BY <1>1
  <2> QED BY <1>10, <2>1, Zenon
<1>13. DOMAIN Q = 0..n /\ Q = [i \in 0..n |-> Q[i]]
  BY <1>10
<1>14. \A i \in 1..n : Q[i - 1] \in MarkStates => Q[i] \in MarkStates
  BY <1>2, <1>12
<1>15. \A i \in 0..n : Q[i] \in MarkStates
  BY <1>1, <1>11, <1>14, WalkStays
<1>16. Q \in [0..n -> MarkStates]
  BY <1>13, <1>15
<1> QED BY <1>9, <1>11, <1>12, <1>16 DEF n

\* The recursion of ConvertMarkdownTables.
LEMMA TablesWalks ==
  ASSUME NEW lines \in FormTexts
  PROVE  \E c \in [0..Len(lines) -> TableStates] :
            /\ ConvertMarkdownTables(lines) = c[Len(lines)].out
            /\ c[0] = [out |-> <<>>, code |-> FALSE, next |-> 1]
            /\ \A i \in 1..Len(lines) : c[i] = TableStep(lines, c[i - 1], i)
<1> DEFINE n == Len(lines)
<1>1. n \in Nat /\ [out |-> <<>>, code |-> FALSE, next |-> 1] \in TableStates
  BY DEF FormTexts, TableStates
<1> HIDE DEF n
<1>2. ASSUME NEW i \in 1..n, NEW x \in TableStates
      PROVE  TableStep(lines, x, i) \in TableStates
  BY <1>1, <1>2, TableStepState DEF n
<1> DEFINE G == [i \in 1..n |-> [x \in TableStates |-> TableStep(lines, x, i)]]
<1>3. G \in [1..n -> [TableStates -> TableStates]]
  BY <1>2
<1>4. \A i \in 1..n, x \in TableStates : G[i][x] = TableStep(lines, x, i)
  OBVIOUS
<1> HIDE DEF G
<1>5. PICK f \in [0..n -> TableStates] : Walks(f, n, [out |-> <<>>, code |-> FALSE, next |-> 1], G)
  BY <1>1, <1>3, WalkExists
<1>6. ASSUME NEW i \in 1..n PROVE f[i] = TableStep(lines, f[i - 1], i)
  <2>1. f[i - 1] \in TableStates
    BY <1>1
  <2>2. f[i] = G[i][f[i - 1]]
    BY <1>5 DEF Walks
  <2> QED BY <1>4, <2>1, <2>2
<1> DEFINE Walk(g) == g = [i \in 0..n |-> IF i = 0 THEN [out |-> <<>>, code |-> FALSE, next |-> 1]
                        ELSE TableStep(lines, g[i - 1], i)]
           Q == CHOOSE g : Walk(g)
<1>7. Walk(f)
  <2>1. ASSUME NEW i \in 0..n
        PROVE  f[i] = IF i = 0 THEN [out |-> <<>>, code |-> FALSE, next |-> 1]
                      ELSE TableStep(lines, f[i - 1], i)
    <3>1. CASE i = 0
      BY <1>5, <3>1 DEF Walks
    <3>2. CASE i # 0
      BY <1>1, <1>6, <3>2
    <3> QED BY <3>1, <3>2
  <2> QED BY <2>1
<1>8. Walk(Q)
  <2> HIDE DEF Walk
  <2> QED BY <1>7
<1>9. ConvertMarkdownTables(lines) = Q[Len(lines)].out
  BY DEF ConvertMarkdownTables, n
<1> HIDE DEF Q
<1>10. Q = [i \in 0..n |-> IF i = 0 THEN [out |-> <<>>, code |-> FALSE, next |-> 1]
                        ELSE TableStep(lines, Q[i - 1], i)]
  BY <1>8
<1> HIDE DEF Walk
<1>11. Q[0] = [out |-> <<>>, code |-> FALSE, next |-> 1]
  BY <1>1, <1>10
<1>12. ASSUME NEW i \in 1..n PROVE Q[i] = TableStep(lines, Q[i - 1], i)
  <2>1. i \in 0..n /\ i # 0
    BY <1>1
  <2> QED BY <1>10, <2>1, Zenon
<1>13. DOMAIN Q = 0..n /\ Q = [i \in 0..n |-> Q[i]]
  BY <1>10
<1>14. \A i \in 1..n : Q[i - 1] \in TableStates => Q[i] \in TableStates
  BY <1>2, <1>12
<1>15. \A i \in 0..n : Q[i] \in TableStates
  BY <1>1, <1>11, <1>14, WalkStays
<1>16. Q \in [0..n -> TableStates]
  BY <1>13, <1>15
<1> QED BY <1>9, <1>11, <1>12, <1>16 DEF n

\* The states of the walk through details.
DetailStates ==
  [out : ShownTexts, held : ShownTexts, header : ShownTexts, inside : BOOLEAN, code : BOOLEAN]
DetailStart == [out |-> <<>>, held |-> <<>>, header |-> <<>>, inside |-> FALSE, code |-> FALSE]

\* One step of that walk leads from a state of it to another.
LEMMA DetailStepState ==
  ASSUME NEW acc \in DetailStates, NEW form \in LineNames
  PROVE  DetailsStep(acc, form) \in DetailStates
<1> DEFINE moved == DetailsStep(acc, form)
           plain == Append(acc.out, Plainly(form))
           quoted == Append(acc.held, Quoted(form))
           ended == acc.out \o acc.header \o acc.held
           top == <<Plainly("header")>>
           whole == acc.out \o <<Plainly("header"), Quoted("words")>>
<1>1. /\ Plainly(form) \in ShownLines /\ Quoted(form) \in ShownLines
      /\ Plainly("header") \in ShownLines /\ Quoted("words") \in ShownLines
  BY DEF ShownLines, Plainly, Quoted, LineNames
<1>2. /\ plain \in ShownTexts /\ quoted \in ShownTexts /\ ended \in ShownTexts
      /\ top \in ShownTexts /\ whole \in ShownTexts /\ <<>> \in ShownTexts
  <2> DEFINE two == <<Plainly("header"), Quoted("words")>>
  <2>1. two \in ShownTexts /\ top \in ShownTexts /\ <<>> \in ShownTexts
    BY <1>1 DEF ShownTexts
  <2> HIDE DEF two
  <2>2. whole = acc.out \o two
    BY DEF two
  <2> HIDE DEF whole
  <2> QED BY <1>1, <2>1, <2>2 DEF ShownTexts, DetailStates
<1>3. \/ \E code \in BOOLEAN : moved = [acc EXCEPT !.code = code, !.held = quoted]
      \/ \E code \in BOOLEAN : moved = [acc EXCEPT !.code = code, !.out = plain]
      \/ moved = [acc EXCEPT !.inside = FALSE, !.out = ended, !.header = <<>>, !.held = <<>>]
      \/ moved = [acc EXCEPT !.header = top]
      \/ moved = [acc EXCEPT !.held = quoted]
      \/ moved = [acc EXCEPT !.inside = TRUE, !.header = <<>>, !.held = <<>>]
      \/ moved = [acc EXCEPT !.out = whole]
      \/ moved = [acc EXCEPT !.out = plain]
  <2>1. CASE form = "fence" \/ acc.code
    <3> DEFINE code == IF form = "fence" THEN ~acc.code ELSE acc.code
    <3>1. code \in BOOLEAN
      BY DEF DetailStates
    <3>2. moved = IF acc.inside THEN [acc EXCEPT !.code = code, !.held = quoted]
                 ELSE [acc EXCEPT !.code = code, !.out = plain]
      BY <2>1 DEF DetailsStep
    <3> HIDE DEF code, moved, quoted, plain
    <3> QED BY <3>1, <3>2
  <2>2. CASE form # "fence" /\ ~acc.code /\ acc.inside
    <3>1. moved = InDetails(acc, form)
      BY <2>2 DEF DetailsStep
    <3> HIDE DEF moved
    <3> QED BY <3>1 DEF InDetails
  <2>3. CASE form # "fence" /\ ~acc.code /\ ~acc.inside
    <3>1. moved = OutOfDetails(acc, form)
      BY <2>3 DEF DetailsStep
    <3> HIDE DEF moved
    <3> QED BY <3>1 DEF OutOfDetails
  <2> QED BY <2>1, <2>2, <2>3
<1> HIDE DEF moved, plain, quoted, ended, top, whole
<1> QED BY <1>2, <1>3 DEF DetailStates, moved

\* The recursion of ConvertHtmlDetails.
LEMMA DetailsWalks ==
  ASSUME NEW lines \in FormTexts
  PROVE  \E c \in [0..Len(lines) -> DetailStates] :
            /\ ConvertHtmlDetails(lines) =
                 IF c[Len(lines)].inside THEN [i \in DOMAIN lines |-> Plainly(lines[i])]
                 ELSE c[Len(lines)].out
            /\ c[0] = DetailStart
            /\ \A i \in 1..Len(lines) : c[i] = DetailsStep(c[i - 1], lines[i])
<1> DEFINE n == Len(lines)
<1>1. n \in Nat /\ DetailStart \in DetailStates
  BY DEF FormTexts, DetailStates, DetailStart, ShownTexts
<1> HIDE DEF n
<1>2. ASSUME NEW i \in 1..n, NEW x \in DetailStates
      PROVE  DetailsStep(x, lines[i]) \in DetailStates
  <2>1. lines[i] \in LineNames
    BY DEF FormTexts, n
  <2> QED BY <2>1, DetailStepState
<1> DEFINE G == [i \in 1..n |-> [x \in DetailStates |-> DetailsStep(x, lines[i])]]
<1>3. G \in [1..n -> [DetailStates -> DetailStates]]
  BY <1>2
<1>4. \A i \in 1..n, x \in DetailStates : G[i][x] = DetailsStep(x, lines[i])
  OBVIOUS
<1> HIDE DEF G
<1>5. PICK f \in [0..n -> DetailStates] : Walks(f, n, DetailStart, G)
  BY <1>1, <1>3, WalkExists
<1>6. ASSUME NEW i \in 1..n PROVE f[i] = DetailsStep(f[i - 1], lines[i])
  <2>1. f[i - 1] \in DetailStates
    BY <1>1
  <2>2. f[i] = G[i][f[i - 1]]
    BY <1>5 DEF Walks
  <2> QED BY <1>4, <2>1, <2>2
<1> DEFINE Walk(g) == g = [i \in 0..n |-> IF i = 0 THEN DetailStart
                        ELSE DetailsStep(g[i - 1], lines[i])]
           Q == CHOOSE g : Walk(g)
<1>7. Walk(f)
  <2>1. ASSUME NEW i \in 0..n
        PROVE  f[i] = IF i = 0 THEN DetailStart ELSE DetailsStep(f[i - 1], lines[i])
    <3>1. CASE i = 0
      BY <1>5, <3>1 DEF Walks
    <3>2. CASE i # 0
      BY <1>1, <1>6, <3>2
    <3> QED BY <3>1, <3>2
  <2> QED BY <2>1
<1>8. Walk(Q)
  <2> HIDE DEF Walk
  <2> QED BY <1>7
<1>9. ConvertHtmlDetails(lines) =
                 IF Q[Len(lines)].inside THEN [i \in DOMAIN lines |-> Plainly(lines[i])]
                 ELSE Q[Len(lines)].out
  BY DEF ConvertHtmlDetails, n, DetailStart
<1> HIDE DEF Q
<1>10. Q = [i \in 0..n |-> IF i = 0 THEN DetailStart ELSE DetailsStep(Q[i - 1], lines[i])]
  BY <1>8
<1> HIDE DEF Walk
<1>11. Q[0] = DetailStart
  BY <1>1, <1>10
<1>12. ASSUME NEW i \in 1..n PROVE Q[i] = DetailsStep(Q[i - 1], lines[i])
  <2>1. i \in 0..n /\ i # 0
    BY <1>1
  <2> QED BY <1>10, <2>1, Zenon
<1>13. DOMAIN Q = 0..n /\ Q = [i \in 0..n |-> Q[i]]
  BY <1>10
<1>14. \A i \in 1..n : Q[i - 1] \in DetailStates => Q[i] \in DetailStates
  BY <1>2, <1>12
<1>15. \A i \in 0..n : Q[i] \in DetailStates
  BY <1>1, <1>11, <1>14, WalkStays
<1>16. Q \in [0..n -> DetailStates]
  BY <1>13, <1>15
<1> QED BY <1>9, <1>11, <1>12, <1>16 DEF n

\* One line more of a text: what InBlock and Bodies make of it.
LEMMA ReadLineOf ==
  ASSUME NEW x \in FormTexts
  PROVE  /\ InBlock(x)[0] = FALSE /\ Bodies(x)[0] = <<>>
         /\ \A i \in 0..Len(x) : InBlock(x)[i] \in YesNo /\ Bodies(x)[i] \in Seq(BodyLines)
         /\ \A i \in 1..Len(x) :
              /\ InBlock(x)[i] = BlockStep(InBlock(x)[i - 1], x[i])
              /\ Bodies(x)[i] = BodyStep(Bodies(x)[i - 1], x[i], InBlock(x)[i])
<1>1. PICK b \in [0..Len(x) -> YesNo] :
        /\ InBlock(x) = b /\ b[0] = FALSE
        /\ \A i \in 1..Len(x) : b[i] = BlockStep(b[i - 1], x[i])
  BY InBlockWalks
<1>2. PICK c \in [0..Len(x) -> Seq(BodyLines)] :
        /\ Bodies(x) = c /\ c[0] = <<>>
        /\ \A i \in 1..Len(x) : c[i] = BodyStep(c[i - 1], x[i], InBlock(x)[i])
  BY BodiesWalks
<1>3. \A i \in 0..Len(x) : InBlock(x)[i] \in YesNo
  BY <1>1
<1>4. \A i \in 0..Len(x) : Bodies(x)[i] \in Seq(BodyLines)
  BY <1>2
<1> QED BY <1>1, <1>2, <1>3, <1>4

\* Two texts read the same up to a line of each.
SameReading(x, p, y, q) ==
  InBlock(x)[p] = InBlock(y)[q] /\ Bodies(x)[p] = Bodies(y)[q]

\* They do so after the same line more,
LEMMA ReadOn ==
  ASSUME NEW x \in FormTexts, NEW y \in FormTexts, NEW p \in 1..Len(x), NEW q \in 1..Len(y),
         SameReading(x, p - 1, y, q - 1), x[p] = y[q]
  PROVE  SameReading(x, p, y, q)
<1>1. InBlock(x)[p] = BlockStep(InBlock(x)[p - 1], x[p])
  BY ReadLineOf
<1>2. InBlock(y)[q] = BlockStep(InBlock(y)[q - 1], y[q])
  BY ReadLineOf
<1>3. Bodies(x)[p] = BodyStep(Bodies(x)[p - 1], x[p], InBlock(x)[p])
  BY ReadLineOf
<1>4. Bodies(y)[q] = BodyStep(Bodies(y)[q - 1], y[q], InBlock(y)[q])
  BY ReadLineOf
<1>5. InBlock(x)[p] = InBlock(y)[q]
  BY <1>1, <1>2 DEF SameReading
<1>6. Bodies(x)[p] = Bodies(y)[q]
  BY <1>3, <1>4, <1>5 DEF SameReading
<1> QED BY <1>5, <1>6 DEF SameReading

\* after any number of the same lines,
LEMMA ReadAlong ==
  ASSUME NEW x \in FormTexts, NEW y \in FormTexts, NEW m \in Nat, NEW p \in Nat, NEW q \in Nat,
         p + m <= Len(x), q + m <= Len(y),
         SameReading(x, p, y, q), \A k \in 1..m : x[p + k] = y[q + k]
  PROVE  SameReading(x, p + m, y, q + m)
<1> DEFINE S == {k \in 0..m : SameReading(x, p + k, y, q + k)}
<1>1. Len(x) \in Nat /\ Len(y) \in Nat
  BY DEF FormTexts
<1>2. 0 \in S
  <2>1. p + 0 = p /\ q + 0 = q
    OBVIOUS
  <2> QED BY <2>1
<1>3. ASSUME NEW k \in 0..m, k < m, k \in S PROVE k + 1 \in S
  <2>1. /\ p + (k + 1) \in 1..Len(x) /\ q + (k + 1) \in 1..Len(y) /\ k + 1 \in 1..m
        /\ (p + (k + 1)) - 1 = p + k /\ (q + (k + 1)) - 1 = q + k
    BY <1>1, <1>3
  <2>2. x[p + (k + 1)] = y[q + (k + 1)]
    BY <2>1
  <2>3. SameReading(x, (p + (k + 1)) - 1, y, (q + (k + 1)) - 1)
    BY <1>3, <2>1
  <2>4. SameReading(x, p + (k + 1), y, q + (k + 1))
    BY <2>1, <2>2, <2>3, ReadOn
  <2> QED BY <2>1, <2>4
<1> HIDE DEF S
<1>4. \A k \in 0..m : k \in S
  BY <1>2, <1>3, WalkInduction
<1> QED BY <1>4 DEF S

\* and after a line that is neither prose nor a row nor a fence.
LEMMA ReadOver ==
  ASSUME NEW x \in FormTexts, NEW y \in FormTexts, NEW p \in 1..Len(x), NEW q,
         SameReading(x, p - 1, y, q),
         x[p] \notin {"words", "tick", "row", "escaped", "fence"}
  PROVE  SameReading(x, p, y, q)
<1>1. InBlock(x)[p] = InBlock(x)[p - 1]
  <2>1. InBlock(x)[p] = BlockStep(InBlock(x)[p - 1], x[p])
    BY ReadLineOf
  <2> QED BY <2>1, Zenon DEF BlockStep
<1>2. Bodies(x)[p] = Bodies(x)[p - 1]
  <2>1. Bodies(x)[p] = BodyStep(Bodies(x)[p - 1], x[p], InBlock(x)[p])
    BY ReadLineOf
  <2> QED BY <2>1 DEF BodyStep
<1> QED BY <1>1, <1>2, Zenon DEF SameReading

\* A text followed by another.
Joined(z, x, y) == z = x \o y

\* The beginning of a text reads the same whatever follows it.
LEMMA ReadPrefix ==
  ASSUME NEW x \in FormTexts, NEW y \in FormTexts, NEW z, Joined(z, x, y)
  PROVE  /\ z \in FormTexts /\ Len(z) = Len(x) + Len(y)
         /\ \A k \in 1..Len(x) : z[k] = x[k]
         /\ \A k \in 1..Len(y) : z[Len(x) + k] = y[k]
         /\ SameReading(x, Len(x), z, Len(x))
<1>1. Len(x) \in Nat /\ Len(y) \in Nat
  BY DEF FormTexts
<1>2. /\ z \in Seq(LineNames) /\ Len(z) = Len(x) + Len(y)
      /\ \A k \in 1..(Len(x) + Len(y)) : z[k] = IF k <= Len(x) THEN x[k] ELSE y[k - Len(x)]
  BY ConcatProperties DEF FormTexts, Joined
<1>3. \A k \in 1..Len(x) : z[k] = x[k]
  <2>1. \A k \in 1..Len(x) : k \in 1..(Len(x) + Len(y)) /\ k <= Len(x)
    BY <1>1
  <2> QED BY <1>2, <2>1
<1>4. \A k \in 1..Len(y) : z[Len(x) + k] = y[k]
  <2>1. \A k \in 1..Len(y) : /\ Len(x) + k \in 1..(Len(x) + Len(y)) /\ ~(Len(x) + k <= Len(x))
                             /\ (Len(x) + k) - Len(x) = k
    BY <1>1
  <2> QED BY <1>2, <2>1
<1>5. z \in FormTexts
  BY <1>2 DEF FormTexts
<1>6. SameReading(x, 0, z, 0)
  <2>1. InBlock(x)[0] = FALSE /\ Bodies(x)[0] = <<>>
    BY ReadLineOf
  <2>2. InBlock(z)[0] = FALSE /\ Bodies(z)[0] = <<>>
    BY <1>5, ReadLineOf
  <2> QED BY <2>1, <2>2, Zenon DEF SameReading
<1>7. SameReading(x, 0 + Len(x), z, 0 + Len(x))
  <2>1. 0 + Len(x) <= Len(x) /\ 0 + Len(x) <= Len(z) /\ 0 \in Nat
    BY <1>1, <1>2
  <2>2. \A k \in 1..Len(x) : x[0 + k] = z[0 + k]
    <3>1. \A k \in 1..Len(x) : 0 + k = k
      BY <1>1
    <3> QED BY <1>3, <3>1
  <2> QED BY <1>1, <1>5, <1>6, <2>1, <2>2, ReadAlong
<1>8. 0 + Len(x) = Len(x)
  BY <1>1
<1> QED BY <1>2, <1>3, <1>4, <1>5, <1>7, <1>8

\* A text with one line more.
LEMMA ReadAppend ==
  ASSUME NEW x \in FormTexts, NEW form \in LineNames
  PROVE  LET y == Append(x, form)
         IN /\ y \in FormTexts /\ Len(y) = Len(x) + 1 /\ y[Len(x) + 1] = form
            /\ \A k \in 1..Len(x) : y[k] = x[k]
            /\ SameReading(x, Len(x), y, Len(x))
<1> DEFINE y == Append(x, form)
           one == <<form>>
<1>1. one \in FormTexts /\ Len(one) = 1 /\ one[1] = form
  BY DEF FormTexts
<1>2. Joined(y, x, one)
  BY DEF FormTexts, Joined
<1> HIDE DEF y, one
<1>3. /\ y \in FormTexts /\ Len(y) = Len(x) + Len(one)
      /\ \A k \in 1..Len(x) : y[k] = x[k]
      /\ \A k \in 1..Len(one) : y[Len(x) + k] = one[k]
      /\ SameReading(x, Len(x), y, Len(x))
  BY <1>1, <1>2, ReadPrefix, Zenon
<1>4. y[Len(x) + 1] = form /\ Len(y) = Len(x) + 1
  BY <1>1, <1>3
<1> QED BY <1>3, <1>4 DEF y

\* A line put into a text that is neither prose nor a row nor a fence is not read.
LEMMA ReadInserted ==
  ASSUME NEW x \in FormTexts, NEW y \in FormTexts, NEW form \in LineNames,
         form \notin {"words", "tick", "row", "escaped", "fence"}
  PROVE  /\ x \o <<form>> \o y \in FormTexts
         /\ Len(x \o <<form>> \o y) = Len(x) + 1 + Len(y)
         /\ SameReading(x \o y, Len(x \o y), x \o <<form>> \o y, Len(x \o <<form>> \o y))
<1> DEFINE one == <<form>>
           u == x \o y
           v == x \o one
           w == v \o y
           n == Len(x)
           m == Len(y)
<1>1. one \in FormTexts /\ Len(one) = 1 /\ one[1] = form
  BY DEF FormTexts
<1>2. n \in Nat /\ m \in Nat
  BY DEF FormTexts
<1>9. Joined(u, x, y) /\ Joined(v, x, one) /\ Joined(w, v, y)
  BY DEF Joined
<1> HIDE DEF one, u, v, w
<1>3. /\ u \in FormTexts /\ Len(u) = n + m
      /\ \A k \in 1..m : u[n + k] = y[k]
      /\ SameReading(x, n, u, n)
  BY <1>9, ReadPrefix
<1>4. /\ v \in FormTexts /\ Len(v) = n + 1
      /\ v[n + 1] = one[1]
      /\ SameReading(x, n, v, n)
  <2>1. /\ v \in FormTexts /\ Len(v) = Len(x) + Len(one)
        /\ \A k \in 1..Len(one) : v[Len(x) + k] = one[k]
        /\ SameReading(x, Len(x), v, Len(x))
    <3> HIDE DEF n, m
    <3>1. Joined(v, x, one) /\ one \in FormTexts
      BY <1>1, <1>9
    <3> QED BY <3>1, ReadPrefix
  <2> QED BY <1>1, <2>1
<1>5. /\ w \in FormTexts /\ Len(w) = (n + 1) + m
      /\ \A k \in 1..m : w[(n + 1) + k] = y[k]
      /\ SameReading(v, n + 1, w, n + 1)
  <2>1. /\ w \in FormTexts /\ Len(w) = Len(v) + Len(y)
        /\ \A k \in 1..Len(y) : w[Len(v) + k] = y[k]
        /\ SameReading(v, Len(v), w, Len(v))
    <3> HIDE DEF n, m
    <3>1. Joined(w, v, y) /\ v \in FormTexts
      BY <1>4, <1>9
    <3> QED BY <3>1, ReadPrefix
  <2> QED BY <1>4, <2>1
<1> HIDE DEF n, m
<1>6. SameReading(v, n + 1, x, n)
  <2>1. n + 1 \in 1..Len(v) /\ (n + 1) - 1 = n /\ v[n + 1] = form
    BY <1>1, <1>2, <1>4
  <2>2. SameReading(v, n, x, n)
    BY <1>4 DEF SameReading
  <2> QED BY <1>4, <2>1, <2>2, ReadOver
<1>7. SameReading(u, n, w, n + 1)
  BY <1>3, <1>5, <1>6 DEF SameReading
<1>8. SameReading(u, n + m, w, (n + 1) + m)
  <2>1. n + m <= Len(u) /\ (n + 1) + m <= Len(w) /\ n + 1 \in Nat
    BY <1>2, <1>3, <1>5
  <2>2. \A k \in 1..m : u[n + k] = w[(n + 1) + k]
    BY <1>3, <1>5
  <2> QED BY <1>2, <1>3, <1>5, <1>7, <2>1, <2>2, ReadAlong
<1> QED BY <1>3, <1>5, <1>8 DEF w, v, u, n, m, one

\* The members of a set of lines are counted line by line.
CountTo(C, k) == Cardinality({j \in C : j <= k})

\* A count goes up by one at a member of the set.
LEMMA CountedOn ==
  ASSUME NEW n \in Nat, NEW C \in SUBSET (1..n), NEW k \in 0..n, k + 1 <= n
  PROVE  /\ CountTo(C, k) \in Nat
         /\ CountTo(C, k + 1) = IF k + 1 \in C THEN CountTo(C, k) + 1 ELSE CountTo(C, k)
<1> DEFINE A == {j \in C : j <= k}
           B == {j \in C : j <= k + 1}
<1>4. \A j \in C : j \in Nat /\ j <= n
  OBVIOUS
<1>1. IsFiniteSet(A) /\ Cardinality(A) \in Nat
  <2>1. IsFiniteSet(1..n)
    BY FS_Interval
  <2>2. A \in SUBSET (1..n)
    OBVIOUS
  <2> HIDE DEF A
  <2> QED BY <2>1, <2>2, FS_Subset, FS_CardinalityType
<1>5. CountTo(C, k) = Cardinality(A) /\ CountTo(C, k + 1) = Cardinality(B)
  BY DEF CountTo
<1>2. CASE k + 1 \in C
  <2>1. k + 1 \notin A
    BY <1>2
  <2>3. \A j \in B : j \in A \cup {k + 1}
    BY <1>2, <1>4
  <2>4. \A j \in A \cup {k + 1} : j \in B
    BY <1>2, <1>4
  <2> HIDE DEF A, B
  <2>5. B = A \cup {k + 1}
    BY <2>3, <2>4
  <2>2. Cardinality(B) = Cardinality(A) + 1
    BY <1>1, <2>1, <2>5, FS_AddElement
  <2> QED BY <1>1, <1>2, <1>5, <2>2
<1>3. CASE k + 1 \notin C
  <2>1. \A j \in B : j \in A
    BY <1>3, <1>4
  <2>2. \A j \in A : j \in B
    BY <1>3, <1>4
  <2> HIDE DEF A, B
  <2>3. B = A
    BY <2>1, <2>2
  <2> QED BY <1>1, <1>3, <1>5, <2>3
<1> QED BY <1>2, <1>3

\* None is counted before the first line, and each is after the last.
LEMMA CountedAll ==
  ASSUME NEW n \in Nat, NEW C \in SUBSET (1..n)
  PROVE  CountTo(C, 0) = 0 /\ CountTo(C, n) = Cardinality(C)
<1>3. \A j \in C : ~(j <= 0) /\ j <= n
  OBVIOUS
<1>1. {j \in C : j <= 0} = {}
  BY <1>3
<1>2. {j \in C : j <= n} = C
  BY <1>3
<1> QED BY <1>1, <1>2, FS_EmptySet DEF CountTo

\* What a line without an end that is missing does to the markers' walk.
NextMode(mode, form) ==
  CASE mode = "text" /\ form = "fence" -> "code"
    [] mode = "text" /\ form = "tick" -> "inline"
    [] mode = "code" /\ form = "fence" -> "text"
    [] mode = "inline" /\ form \in {"fence", "tick"} -> "text"
    [] OTHER -> mode

\* One step of the markers' walk: a marker in prose becomes a blank line, and every other
\* line stays what it is.
LEMMA MarkerMoves ==
  ASSUME NEW lines \in FormTexts, NEW i \in 1..Len(lines), NEW acc \in MarkStates,
         acc.next <= i, lines[i] # "open_marker"
  PROVE  LET moved == MarkerStep(lines, acc, i)
         IN \/ /\ acc.mode = "text" /\ lines[i] = "marker"
               /\ moved.out = Append(acc.out, "blank") /\ moved.mode = "text"
               /\ moved.paths = Append(acc.paths, "marker") /\ moved.next = i + 1
            \/ /\ ~(acc.mode = "text" /\ lines[i] = "marker")
               /\ moved.out = Append(acc.out, lines[i])
               /\ moved.mode = NextMode(acc.mode, lines[i])
               /\ moved.paths = acc.paths /\ moved.next = acc.next
<1> DEFINE form == lines[i]
           ends == {j \in i..Len(lines) : lines[j] = "marker"}
           keep == [acc EXCEPT !.out = Append(@, form)]
           cut == [acc EXCEPT !.out = Append(@, "blank"), !.next = Min(ends) + 1,
                              !.paths = Append(@, form)]
           moved == MarkerStep(lines, acc, i)
<1>1. /\ Len(lines) \in Nat /\ i \in Nat /\ acc.next \in Nat
      /\ acc.mode \in {"text", "code", "inline", "stopped"}
  BY DEF FormTexts, MarkStates
<1>2. i >= acc.next /\ ~(i < acc.next)
  BY <1>1
<1>3. form = "marker" => ends # {} /\ Min(ends) = i
  <2> SUFFICES ASSUME form = "marker" PROVE ends # {} /\ Min(ends) = i
    OBVIOUS
  <2>1. i \in ends /\ ends \in SUBSET (0..Len(lines)) /\ \A j \in ends : i <= j
    BY <1>1
  <2> HIDE DEF ends
  <2>2. Min(ends) \in ends /\ \A j \in ends : Min(ends) <= j
    BY <1>1, <2>1, MinOf
  <2>3. Min(ends) \in 0..Len(lines) /\ Min(ends) <= i /\ i <= Min(ends)
    BY <2>1, <2>2
  <2> QED BY <1>1, <2>1, <2>3
<1>4. /\ keep.out = Append(acc.out, form) /\ keep.paths = acc.paths
      /\ keep.mode = acc.mode /\ keep.next = acc.next
      /\ cut.out = Append(acc.out, "blank") /\ cut.paths = Append(acc.paths, form)
      /\ cut.mode = acc.mode /\ cut.next = Min(ends) + 1
  <2> HIDE DEF ends, form
  <2> QED BY DEF MarkStates
<1>5. \A m \in {"text", "code", "inline", "stopped"} :
        /\ [keep EXCEPT !.mode = m].out = Append(acc.out, form)
        /\ [keep EXCEPT !.mode = m].paths = acc.paths
        /\ [keep EXCEPT !.mode = m].mode = m
        /\ [keep EXCEPT !.mode = m].next = acc.next
  <2> HIDE DEF form
  <2> QED BY DEF MarkStates
<1> DEFINE StepTakes(m) == /\ moved.out = Append(acc.out, form) /\ moved.paths = acc.paths
                      /\ moved.mode = m /\ moved.next = acc.next
<1>6. CASE acc.mode = "code"
  <2>1. moved = [keep EXCEPT !.mode = IF form = "fence" THEN "text" ELSE "code"]
    BY <1>2, <1>6 DEF MarkerStep
  <2> HIDE DEF moved, keep
  <2>2. StepTakes(IF form = "fence" THEN "text" ELSE "code")
    BY <1>5, <2>1
  <2> QED BY <1>6, <2>2 DEF NextMode, moved
<1>7. CASE acc.mode = "inline"
  <2>1. moved = [keep EXCEPT !.mode = IF form \in {"fence", "tick"} THEN "text" ELSE "inline"]
    BY <1>2, <1>7 DEF MarkerStep
  <2> HIDE DEF moved, keep
  <2>2. StepTakes(IF form \in {"fence", "tick"} THEN "text" ELSE "inline")
    BY <1>5, <2>1
  <2> QED BY <1>7, <2>2 DEF NextMode, moved
<1>8. CASE acc.mode = "stopped"
  <2>1. moved = keep
    BY <1>2, <1>8 DEF MarkerStep
  <2> HIDE DEF moved, keep
  <2>2. StepTakes("stopped")
    BY <1>4, <1>8, <2>1
  <2> QED BY <1>8, <2>2 DEF NextMode, moved
<1>9. CASE acc.mode = "text"
  <2> DEFINE inText ==
               CASE form = "fence" -> [keep EXCEPT !.mode = "code"]
                 [] form = "tick" -> [keep EXCEPT !.mode = "inline"]
                 [] form = "open_marker" /\ ends = {} -> [keep EXCEPT !.mode = "stopped"]
                 [] form \in {"marker", "open_marker"} /\ ends # {} -> cut
                 [] OTHER -> keep
  <2>1. moved = inText
    BY <1>2, <1>9 DEF MarkerStep
  <2>2. form # "open_marker"
    OBVIOUS
  <2> HIDE DEF moved, form, ends, keep, cut
  <2>3. CASE form = "fence"
    <3>1. moved = [keep EXCEPT !.mode = "code"]
      BY <2>1, <2>3
    <3> HIDE DEF inText
    <3>2. StepTakes("code")
      BY <1>5, <3>1
    <3> QED BY <1>9, <2>3, <3>2 DEF NextMode, form, moved
  <2>4. CASE form = "tick"
    <3>1. moved = [keep EXCEPT !.mode = "inline"]
      BY <2>1, <2>4
    <3> HIDE DEF inText
    <3>2. StepTakes("inline")
      BY <1>5, <3>1
    <3> QED BY <1>9, <2>4, <3>2 DEF NextMode, form, moved
  <2>5. CASE form = "marker"
    <3>1. moved = cut
      BY <1>3, <2>1, <2>5
    <3> HIDE DEF inText
    <3>2. /\ moved.out = Append(acc.out, "blank") /\ moved.paths = Append(acc.paths, "marker")
          /\ moved.mode = "text" /\ moved.next = i + 1
      BY <1>3, <1>4, <1>9, <2>5, <3>1
    <3> QED BY <1>9, <2>5, <3>2 DEF form, moved
  <2>6. CASE form \notin {"fence", "tick", "marker"}
    <3>1. moved = keep
      BY <2>1, <2>2, <2>6
    <3> HIDE DEF inText
    <3>2. StepTakes("text")
      BY <1>4, <1>9, <3>1
    <3> QED BY <1>9, <2>6, <3>2 DEF NextMode, form, moved
  <2> QED BY <2>3, <2>4, <2>5, <2>6
<1> HIDE DEF moved, keep, cut, ends
<1> QED BY <1>1, <1>6, <1>7, <1>8, <1>9 DEF moved

\* Lines that are neither prose nor a row nor a fence: Bodies and InBlock pass over them.
PlainForms == LineNames \ {"words", "tick", "row", "escaped", "fence"}

\* A text that reads like a part of another does so after the next line of that one,
\* when it gets the same line,
LEMMA ReadSame ==
  ASSUME NEW lines \in FormTexts, NEW p \in 1..Len(lines), NEW x \in FormTexts,
         SameReading(lines, p - 1, x, Len(x))
  PROVE  SameReading(lines, p, Append(x, lines[p]), Len(x) + 1)
<1> DEFINE y == Append(x, lines[p])
<1>1. lines[p] \in LineNames /\ Len(x) \in Nat
  BY DEF FormTexts
<1>2. /\ y \in FormTexts /\ Len(y) = Len(x) + 1 /\ y[Len(x) + 1] = lines[p]
      /\ SameReading(x, Len(x), y, Len(x))
  BY <1>1, ReadAppend
<1> HIDE DEF y
<1>3. SameReading(lines, p - 1, y, Len(x))
  BY <1>2 DEF SameReading
<1>4. Len(x) + 1 \in 1..Len(y) /\ (Len(x) + 1) - 1 = Len(x) /\ lines[p] = y[Len(x) + 1]
  BY <1>1, <1>2
<1>5. SameReading(lines, p, y, Len(x) + 1)
  BY <1>2, <1>3, <1>4, ReadOn
<1> QED BY <1>5 DEF y

\* when that line is not read,
LEMMA ReadPast ==
  ASSUME NEW lines \in FormTexts, NEW p \in 1..Len(lines), NEW x \in FormTexts, NEW q,
         SameReading(lines, p - 1, x, q), lines[p] \in PlainForms
  PROVE  SameReading(lines, p, x, q)
BY ReadOver DEF PlainForms

\* and when both get a line that is not read.
LEMMA ReadOther ==
  ASSUME NEW lines \in FormTexts, NEW p \in 1..Len(lines), NEW x \in FormTexts,
         SameReading(lines, p - 1, x, Len(x)), lines[p] \in PlainForms, NEW form \in PlainForms
  PROVE  SameReading(lines, p, Append(x, form), Len(x) + 1)
<1> DEFINE y == Append(x, form)
<1>1. form \in LineNames /\ Len(x) \in Nat
  BY DEF PlainForms, FormTexts
<1>2. /\ y \in FormTexts /\ Len(y) = Len(x) + 1 /\ y[Len(x) + 1] = form
      /\ SameReading(x, Len(x), y, Len(x))
  BY <1>1, ReadAppend
<1> HIDE DEF y
<1>3. SameReading(lines, p, x, Len(x))
  BY ReadPast
<1>4. SameReading(y, Len(x), lines, p)
  BY <1>2, <1>3 DEF SameReading
<1>5. Len(x) + 1 \in 1..Len(y) /\ (Len(x) + 1) - 1 = Len(x) /\ y[Len(x) + 1] \in PlainForms
  BY <1>1, <1>2
<1>6. SameReading(y, Len(x) + 1, lines, p)
  BY <1>2, <1>4, <1>5, ReadPast
<1> QED BY <1>6 DEF y, SameReading

\* What the markers' walk has made of the first k lines.
MarkedSoFar(lines, acc, k) ==
  /\ acc.next <= k + 1 /\ Len(acc.out) = k
  /\ SameReading(lines, k, acc.out, Len(acc.out))
  /\ \A j \in 1..k : acc.out[j] = lines[j] \/ acc.out[j] = "blank"

\* One line more.
LEMMA MarkedOn ==
  ASSUME NEW lines \in FormTexts, NEW i \in 1..Len(lines), NEW acc \in MarkStates,
         MarkedSoFar(lines, acc, i - 1), lines[i] # "open_marker"
  PROVE  MarkedSoFar(lines, MarkerStep(lines, acc, i), i)
<1> DEFINE moved == MarkerStep(lines, acc, i)
           out == acc.out
<1>1. /\ Len(lines) \in Nat /\ i \in Nat /\ acc.next \in Nat /\ out \in FormTexts
      /\ lines[i] \in LineNames /\ "blank" \in LineNames
  BY DEF FormTexts, MarkStates, LineNames
<1>2. /\ acc.next <= i /\ Len(out) = i - 1 /\ SameReading(lines, i - 1, out, Len(out))
      /\ \A j \in 1..(i - 1) : out[j] = lines[j] \/ out[j] = "blank"
  BY <1>1 DEF MarkedSoFar
<1>3. ASSUME NEW form \in LineNames, moved.out = Append(out, form), moved.next \in Nat,
             moved.next <= i + 1, form = lines[i] \/ form = "blank",
             SameReading(lines, i, Append(out, form), Len(out) + 1)
      PROVE  MarkedSoFar(lines, moved, i)
  <2> DEFINE more == Append(out, form)
  <2>1. /\ Len(more) = Len(out) + 1 /\ more[Len(out) + 1] = form
        /\ \A k \in 1..Len(out) : more[k] = out[k]
    BY <1>1, ReadAppend
  <2>2. SameReading(lines, i, more, Len(out) + 1)
    BY <1>3
  <2> HIDE DEF more
  <2>3. Len(more) = i /\ \A j \in 1..i : more[j] = lines[j] \/ more[j] = "blank"
    <3>1. Len(more) = i /\ more[i] = form /\ \A k \in 1..(i - 1) : more[k] = out[k]
      <4>1. Len(out) = i - 1 /\ Len(out) + 1 = i
        BY <1>1, <1>2
      <4> QED BY <2>1, <4>1
    <3>2. \A j \in 1..i : j = i \/ j \in 1..(i - 1)
      BY <1>1
    <3> QED BY <1>2, <1>3, <3>1, <3>2
  <2>4. SameReading(lines, i, more, Len(more))
    BY <2>1, <2>2
  <2>5. moved.out = more
    BY <1>3 DEF more
  <2> HIDE DEF moved, out
  <2> QED BY <1>3, <2>3, <2>4, <2>5 DEF MarkedSoFar
<1>4. \/ /\ lines[i] = "marker" /\ moved.out = Append(out, "blank") /\ moved.next = i + 1
      \/ moved.out = Append(out, lines[i]) /\ moved.next = acc.next
  BY <1>2, MarkerMoves
<1> HIDE DEF moved, out
<1>5. CASE lines[i] = "marker" /\ moved.out = Append(out, "blank") /\ moved.next = i + 1
  <2>1. lines[i] \in PlainForms /\ "blank" \in PlainForms
    BY <1>1, <1>5 DEF PlainForms
  <2>2. SameReading(lines, i, Append(out, "blank"), Len(out) + 1)
    BY <1>1, <1>2, <2>1, ReadOther
  <2> QED BY <1>1, <1>3, <1>5, <2>2 DEF moved
<1>6. CASE moved.out = Append(out, lines[i]) /\ moved.next = acc.next
  <2>1. SameReading(lines, i, Append(out, lines[i]), Len(out) + 1)
    BY <1>1, <1>2, ReadSame
  <2>2. moved.next \in Nat /\ moved.next <= i + 1
    BY <1>1, <1>2, <1>6
  <2> QED BY <1>1, <1>3, <1>6, <2>1, <2>2 DEF moved
<1> QED BY <1>4, <1>5, <1>6 DEF moved

\* Taking out the markers leaves a text that reads like the first: every line of it
\* is the same, or blank.
LEMMA MarkersKeep ==
  ASSUME NEW lines \in FormTexts, \A j \in 1..Len(lines) : lines[j] # "open_marker"
  PROVE  LET out == ExtractFileMarkers(lines).out
         IN /\ out \in FormTexts /\ Len(out) = Len(lines)
            /\ SameReading(lines, Len(lines), out, Len(out))
            /\ \A j \in 1..Len(out) : out[j] = lines[j] \/ out[j] = "blank"
<1> DEFINE n == Len(lines)
<1>1. n \in Nat
  BY DEF FormTexts
<1>2. PICK c \in [0..n -> MarkStates] :
        /\ ExtractFileMarkers(lines) = c[n]
        /\ c[0] = [out |-> <<>>, paths |-> <<>>, mode |-> "text", next |-> 1]
        /\ \A i \in 1..n : c[i] = MarkerStep(lines, c[i - 1], i)
  BY MarkersWalks
<1> DEFINE S == {k \in 0..n : MarkedSoFar(lines, c[k], k)}
<1>3. 0 \in S
  <2>1. c[0].out = <<>> /\ c[0].next = 1
    BY <1>2
  <2>2. <<>> \in FormTexts /\ Len(<<>>) = 0
    BY DEF FormTexts
  <2>3. SameReading(lines, 0, <<>>, 0)
    <3>1. InBlock(lines)[0] = FALSE /\ Bodies(lines)[0] = <<>>
      BY ReadLineOf
    <3>2. InBlock(<<>>)[0] = FALSE /\ Bodies(<<>>)[0] = <<>>
      BY <2>2, ReadLineOf
    <3> QED BY <3>1, <3>2, Zenon DEF SameReading
  <2> QED BY <1>1, <2>1, <2>2, <2>3 DEF MarkedSoFar
<1>4. ASSUME NEW k \in 0..n, k < n, k \in S PROVE k + 1 \in S
  <2>1. k + 1 \in 1..n /\ (k + 1) - 1 = k /\ k \in 0..n
    BY <1>1, <1>4
  <2>2. c[k] \in MarkStates /\ MarkedSoFar(lines, c[k], (k + 1) - 1) /\ lines[k + 1] # "open_marker"
    BY <1>2, <1>4, <2>1
  <2>3. MarkedSoFar(lines, MarkerStep(lines, c[k], k + 1), k + 1)
    BY <2>1, <2>2, MarkedOn
  <2>4. c[k + 1] = MarkerStep(lines, c[k], k + 1)
    <3>1. c[k + 1] = MarkerStep(lines, c[(k + 1) - 1], k + 1)
      BY <1>2, <2>1
    <3> QED BY <2>1, <3>1
  <2> QED BY <1>1, <2>1, <2>3, <2>4
<1> HIDE DEF S
<1>5. \A k \in 0..n : k \in S
  BY <1>1, <1>3, <1>4, WalkInduction
<1>6. MarkedSoFar(lines, c[n], n) /\ c[n] \in MarkStates
  <2>1. n \in 0..n
    BY <1>1
  <2> QED BY <1>2, <1>5, <2>1 DEF S
<1>7. /\ c[n].out \in FormTexts /\ Len(c[n].out) = n
      /\ SameReading(lines, n, c[n].out, Len(c[n].out))
      /\ \A j \in 1..n : c[n].out[j] = lines[j] \/ c[n].out[j] = "blank"
  BY <1>6 DEF MarkedSoFar, MarkStates
<1> QED BY <1>2, <1>7

\* The markers of a text that are in no block of code, and how many there are in its
\* first k lines.
Attached(lines) == {j \in 1..Len(lines) : lines[j] = "marker" /\ ~IsCode(lines, j)}
AttachedTo(lines, k) == CountTo(Attached(lines), k)

\* The markers' walk knows as much of a text with no lone backtick in it.
FilesSoFar(lines, acc, k) ==
  /\ acc.next <= k + 1
  /\ acc.mode \in {"text", "code"}
  /\ acc.mode = "code" <=> InBlock(lines)[k]
  /\ Len(acc.paths) = AttachedTo(lines, k)

\* One line more.
LEMMA FilesOn ==
  ASSUME NEW lines \in FormTexts, NEW i \in 1..Len(lines), NEW acc \in MarkStates,
         FilesSoFar(lines, acc, i - 1), lines[i] # "open_marker", lines[i] # "tick"
  PROVE  FilesSoFar(lines, MarkerStep(lines, acc, i), i)
<1> DEFINE moved == MarkerStep(lines, acc, i)
           before == InBlock(lines)[i - 1]
           after == InBlock(lines)[i]
           form == lines[i]
<1>1. /\ Len(lines) \in Nat /\ i \in Nat /\ acc.next \in Nat /\ acc.paths \in FormTexts
      /\ i - 1 \in 0..Len(lines) /\ (i - 1) + 1 = i
  BY DEF FormTexts, MarkStates
<1>2. /\ acc.next <= i /\ acc.mode \in {"text", "code"}
      /\ acc.mode = "code" <=> before
      /\ Len(acc.paths) = AttachedTo(lines, i - 1)
  BY <1>1 DEF FilesSoFar
<1>3. before \in YesNo /\ after = BlockStep(before, form)
  BY <1>1, ReadLineOf
<1>4. after <=> IF form = "fence" THEN ~before ELSE before
  BY <1>3, Zenon DEF BlockStep
<1>5. i \in Attached(lines) <=> form = "marker" /\ ~after
  BY DEF Attached, IsCode
<1>6. /\ AttachedTo(lines, i - 1) \in Nat
      /\ AttachedTo(lines, i) = IF i \in Attached(lines) THEN AttachedTo(lines, i - 1) + 1
                                ELSE AttachedTo(lines, i - 1)
  <2> DEFINE C == Attached(lines)
             n == Len(lines)
             k == i - 1
  <2>1. C \in SUBSET (1..n) /\ k \in 0..n /\ k + 1 <= n /\ n \in Nat
    BY <1>1 DEF Attached
  <2>2. k + 1 = i
    BY <1>1
  <2> HIDE DEF C, n, k
  <2>3. /\ CountTo(C, k) \in Nat
        /\ CountTo(C, k + 1) = IF k + 1 \in C THEN CountTo(C, k) + 1 ELSE CountTo(C, k)
    BY <2>1, CountedOn
  <2> QED BY <2>2, <2>3 DEF AttachedTo, C, k
<1>7. \/ /\ acc.mode = "text" /\ form = "marker" /\ moved.mode = "text"
         /\ moved.paths = Append(acc.paths, "marker") /\ moved.next = i + 1
      \/ /\ ~(acc.mode = "text" /\ form = "marker") /\ moved.mode = NextMode(acc.mode, form)
         /\ moved.paths = acc.paths /\ moved.next = acc.next
  BY <1>2, MarkerMoves
<1>8. form # "tick"
  OBVIOUS
<1> HIDE DEF moved, form, before, after
<1>9. CASE /\ acc.mode = "text" /\ form = "marker" /\ moved.mode = "text"
           /\ moved.paths = Append(acc.paths, "marker") /\ moved.next = i + 1
  <2>1. ~after
    BY <1>2, <1>4, <1>9
  <2>2. Len(moved.paths) = Len(acc.paths) + 1
    <3>1. "marker" \in LineNames \/ TRUE
      OBVIOUS
    <3> QED BY <1>1, <1>9, AppendProperties DEF FormTexts
  <2>3. Len(moved.paths) = AttachedTo(lines, i)
    BY <1>2, <1>5, <1>6, <1>9, <2>1, <2>2
  <2> QED BY <1>1, <1>9, <2>1, <2>3 DEF FilesSoFar, moved, after
<1>10. CASE /\ ~(acc.mode = "text" /\ form = "marker") /\ moved.mode = NextMode(acc.mode, form)
            /\ moved.paths = acc.paths /\ moved.next = acc.next
  <2>1. moved.mode \in {"text", "code"} /\ (moved.mode = "code" <=> after)
    BY <1>2, <1>4, <1>8, <1>10 DEF NextMode
  <2>2. i \notin Attached(lines)
    BY <1>2, <1>4, <1>5, <1>10
  <2>3. Len(moved.paths) = AttachedTo(lines, i)
    BY <1>2, <1>6, <1>10, <2>2
  <2>4. moved.next <= i + 1
    BY <1>1, <1>2, <1>10
  <2> QED BY <2>1, <2>3, <2>4 DEF FilesSoFar, moved, after
<1> QED BY <1>7, <1>9, <1>10 DEF moved

\* Of a text without markers that lack their end and without lone backticks, the
\* markers outside of code are taken, and no others.
LEMMA FilesKeep ==
  ASSUME NEW lines \in FormTexts, \A j \in 1..Len(lines) : lines[j] \notin {"open_marker", "tick"}
  PROVE  Len(ExtractFileMarkers(lines).paths) = Cardinality(Attached(lines))
<1> DEFINE n == Len(lines)
<1>1. n \in Nat
  BY DEF FormTexts
<1>2. PICK c \in [0..n -> MarkStates] :
        /\ ExtractFileMarkers(lines) = c[n]
        /\ c[0] = [out |-> <<>>, paths |-> <<>>, mode |-> "text", next |-> 1]
        /\ \A i \in 1..n : c[i] = MarkerStep(lines, c[i - 1], i)
  BY MarkersWalks
<1>8. CountTo(Attached(lines), 0) = 0 /\ CountTo(Attached(lines), n) = Cardinality(Attached(lines))
  <2>1. Attached(lines) \in SUBSET (1..n)
    BY DEF Attached
  <2> QED BY <1>1, <2>1, CountedAll
<1> DEFINE S == {k \in 0..n : FilesSoFar(lines, c[k], k)}
<1>3. 0 \in S
  <2>1. c[0].paths = <<>> /\ c[0].next = 1 /\ c[0].mode = "text"
    BY <1>2
  <2>2. Len(<<>>) = 0
    OBVIOUS
  <2>3. AttachedTo(lines, 0) = 0
    BY <1>8 DEF AttachedTo
  <2>4. InBlock(lines)[0] = FALSE
    BY ReadLineOf
  <2> QED BY <1>1, <2>1, <2>2, <2>3, <2>4 DEF FilesSoFar
<1>4. ASSUME NEW k \in 0..n, k < n, k \in S PROVE k + 1 \in S
  <2>1. k + 1 \in 1..n /\ (k + 1) - 1 = k /\ k \in 0..n
    BY <1>1, <1>4
  <2>2. /\ c[k] \in MarkStates /\ FilesSoFar(lines, c[k], (k + 1) - 1)
        /\ lines[k + 1] # "open_marker" /\ lines[k + 1] # "tick"
    BY <1>2, <1>4, <2>1
  <2>3. FilesSoFar(lines, MarkerStep(lines, c[k], k + 1), k + 1)
    BY <2>1, <2>2, FilesOn
  <2>4. c[k + 1] = MarkerStep(lines, c[k], k + 1)
    <3>1. c[k + 1] = MarkerStep(lines, c[(k + 1) - 1], k + 1)
      BY <1>2, <2>1
    <3> QED BY <2>1, <3>1
  <2> QED BY <1>1, <2>1, <2>3, <2>4
<1> HIDE DEF S
<1>5. \A k \in 0..n : k \in S
  BY <1>1, <1>3, <1>4, WalkInduction
<1>6. FilesSoFar(lines, c[n], n)
  <2>1. n \in 0..n
    BY <1>1
  <2> QED BY <1>5, <2>1 DEF S
<1> QED BY <1>2, <1>6, <1>8 DEF FilesSoFar, AttachedTo

\* Two readings agree: the same lines, each code in the second when it was in the
\* first, and newly code only when it is a row of a table.
Agrees(b, a) ==
  /\ Len(b) = Len(a)
  /\ \A n \in 1..Len(b) :
       /\ b[n].form = a[n].form
       /\ b[n].code => a[n].code
       /\ a[n].code => b[n].code \/ b[n].form \in {"row", "escaped"}

\* They do so after one line more.
LEMMA AgreesOn ==
  ASSUME NEW b \in Seq(BodyLines), NEW a \in Seq(BodyLines), NEW form,
         NEW cb \in BOOLEAN, NEW ca \in BOOLEAN, Agrees(b, a),
         cb => ca, ca => cb \/ form \in {"row", "escaped", "rule"}
  PROVE  Agrees(BodyStep(b, form, cb), BodyStep(a, form, ca))
<1>1. CASE form \notin {"words", "tick", "row", "escaped"}
  BY <1>1 DEF BodyStep
<1>2. CASE form \in {"words", "tick", "row", "escaped"}
  <2> DEFINE eb == [form |-> form, code |-> cb]
             ea == [form |-> form, code |-> ca]
             b2 == Append(b, eb)
             a2 == Append(a, ea)
  <2>1. /\ eb.form = form /\ eb.code = cb /\ ea.form = form /\ ea.code = ca
        /\ eb \in BodyLines /\ ea \in BodyLines
    BY <1>2 DEF BodyLines
  <2>2. BodyStep(b, form, cb) = b2 /\ BodyStep(a, form, ca) = a2
    BY <1>2 DEF BodyStep
  <2> HIDE DEF eb, ea
  <2>3. /\ Len(b2) = Len(b) + 1 /\ b2[Len(b) + 1] = eb /\ \A n \in 1..Len(b) : b2[n] = b[n]
        /\ Len(a2) = Len(a) + 1 /\ a2[Len(a) + 1] = ea /\ \A n \in 1..Len(a) : a2[n] = a[n]
    BY <2>1, AppendProperties
  <2> HIDE DEF b2, a2
  <2>4. Len(b) = Len(a) /\ Len(b) \in Nat
    BY DEF Agrees
  <2>5. ASSUME NEW n \in 1..Len(b2)
        PROVE  /\ b2[n].form = a2[n].form
               /\ b2[n].code => a2[n].code
               /\ a2[n].code => b2[n].code \/ b2[n].form \in {"row", "escaped"}
    <3>1. CASE n = Len(b) + 1
      BY <1>2, <2>1, <2>3, <2>4, <3>1
    <3>2. CASE n # Len(b) + 1
      <4>1. n \in 1..Len(b) /\ n \in 1..Len(a)
        BY <2>3, <2>4, <3>2
      <4>2. b2[n] = b[n] /\ a2[n] = a[n]
        BY <2>3, <4>1
      <4> QED BY <4>1, <4>2 DEF Agrees
    <3> QED BY <3>1, <3>2
  <2>6. Agrees(b2, a2)
    BY <2>3, <2>4, <2>5 DEF Agrees
  <2> QED BY <2>2, <2>6
<1> QED BY <1>1, <1>2

\* Two texts are read alike up to a line of each.
ReadsLike(x, p, y, q) ==
  InBlock(x)[p] = InBlock(y)[q] /\ Agrees(Bodies(x)[p], Bodies(y)[q])

\* The same reading before and after keeps that.
LEMMA SameIsAlike ==
  ASSUME NEW x, NEW p, NEW y, NEW q, NEW z, NEW r
  PROVE  /\ SameReading(x, p, y, q) => ReadsLike(x, p, y, q)
         /\ SameReading(x, p, y, q) /\ ReadsLike(y, q, z, r) => ReadsLike(x, p, z, r)
         /\ ReadsLike(x, p, y, q) /\ SameReading(y, q, z, r) => ReadsLike(x, p, z, r)
<1>1. \A b : Agrees(b, b)
  BY DEF Agrees
<1> QED BY <1>1, Zenon DEF SameReading, ReadsLike

\* They are after the same line more of both, or a line more that is not read.
LEMMA AlikeOn ==
  ASSUME NEW x \in FormTexts, NEW y \in FormTexts, NEW p \in 1..Len(x), NEW q \in 1..Len(y),
         ReadsLike(x, p - 1, y, q - 1), x[p] = y[q]
  PROVE  ReadsLike(x, p, y, q)
<1>1. /\ InBlock(x)[p] = BlockStep(InBlock(x)[p - 1], x[p])
      /\ Bodies(x)[p] = BodyStep(Bodies(x)[p - 1], x[p], InBlock(x)[p])
      /\ InBlock(y)[q] = BlockStep(InBlock(y)[q - 1], y[q])
      /\ Bodies(y)[q] = BodyStep(Bodies(y)[q - 1], y[q], InBlock(y)[q])
  BY ReadLineOf
<1>2. InBlock(x)[p] = InBlock(y)[q] /\ Agrees(Bodies(x)[p - 1], Bodies(y)[q - 1])
  BY <1>1 DEF ReadsLike
<1>3. /\ p - 1 \in 0..Len(x) /\ p \in 0..Len(x) /\ q - 1 \in 0..Len(y) /\ q \in 0..Len(y)
  BY DEF FormTexts
<1>4. /\ Bodies(x)[p - 1] \in Seq(BodyLines) /\ Bodies(y)[q - 1] \in Seq(BodyLines)
      /\ InBlock(x)[p] \in BOOLEAN /\ InBlock(y)[q] \in BOOLEAN
  BY <1>3, ReadLineOf DEF YesNo
<1> DEFINE b == Bodies(x)[p - 1]
           a == Bodies(y)[q - 1]
           cb == InBlock(x)[p]
           ca == InBlock(y)[q]
           form == x[p]
<1>5. /\ b \in Seq(BodyLines) /\ a \in Seq(BodyLines) /\ cb \in BOOLEAN /\ ca \in BOOLEAN
      /\ Agrees(b, a) /\ cb = ca
  BY <1>2, <1>4
<1> HIDE DEF b, a, cb, ca, form
<1>6. Agrees(BodyStep(b, form, cb), BodyStep(a, form, ca))
  BY <1>5, AgreesOn
<1>7. Agrees(Bodies(x)[p], Bodies(y)[q])
  BY <1>1, <1>6 DEF b, a, cb, ca, form
<1> QED BY <1>2, <1>7, Zenon DEF ReadsLike

\* A table is being drawn: its lines are no code in the first text, and code in the
\* second.
Drawing(x, p, y, q) ==
  /\ InBlock(x)[p] = FALSE /\ InBlock(y)[q] = TRUE
  /\ Agrees(Bodies(x)[p], Bodies(y)[q])

\* A fence of the second text begins it,
LEMMA FenceOpens ==
  ASSUME NEW x \in FormTexts, NEW y \in FormTexts, NEW p, NEW q \in 1..Len(y),
         ReadsLike(x, p, y, q - 1), InBlock(x)[p] = FALSE, y[q] = "fence"
  PROVE  Drawing(x, p, y, q)
<1>1. /\ InBlock(y)[q] = BlockStep(InBlock(y)[q - 1], y[q])
      /\ Bodies(y)[q] = BodyStep(Bodies(y)[q - 1], y[q], InBlock(y)[q])
  BY ReadLineOf
<1>2. InBlock(y)[q - 1] = FALSE
  BY Zenon DEF ReadsLike
<1>3. InBlock(y)[q] = TRUE
  BY <1>1, <1>2 DEF BlockStep
<1>4. Bodies(y)[q] = Bodies(y)[q - 1]
  BY <1>1 DEF BodyStep
<1> QED BY <1>3, <1>4, Zenon DEF ReadsLike, Drawing

\* and a fence ends it.
LEMMA FenceCloses ==
  ASSUME NEW x \in FormTexts, NEW y \in FormTexts, NEW p, NEW q \in 1..Len(y),
         Drawing(x, p, y, q - 1), y[q] = "fence"
  PROVE  ReadsLike(x, p, y, q) /\ InBlock(x)[p] = FALSE
<1>1. /\ InBlock(y)[q] = BlockStep(InBlock(y)[q - 1], y[q])
      /\ Bodies(y)[q] = BodyStep(Bodies(y)[q - 1], y[q], InBlock(y)[q])
  BY ReadLineOf
<1>2. InBlock(y)[q - 1] = TRUE
  BY Zenon DEF Drawing
<1>3. InBlock(y)[q] = FALSE
  BY <1>1, <1>2 DEF BlockStep
<1>4. Bodies(y)[q] = Bodies(y)[q - 1]
  BY <1>1 DEF BodyStep
<1> QED BY <1>3, <1>4, Zenon DEF ReadsLike, Drawing

\* A row of the table goes on with it,
LEMMA RowDrawn ==
  ASSUME NEW x \in FormTexts, NEW y \in FormTexts, NEW p \in 1..Len(x), NEW q \in 1..Len(y),
         Drawing(x, p - 1, y, q - 1), x[p] = y[q], x[p] \in {"row", "rule"}
  PROVE  Drawing(x, p, y, q)
<1>1. /\ InBlock(x)[p] = BlockStep(InBlock(x)[p - 1], x[p])
      /\ Bodies(x)[p] = BodyStep(Bodies(x)[p - 1], x[p], InBlock(x)[p])
      /\ InBlock(y)[q] = BlockStep(InBlock(y)[q - 1], y[q])
      /\ Bodies(y)[q] = BodyStep(Bodies(y)[q - 1], y[q], InBlock(y)[q])
  BY ReadLineOf
<1>2. x[p] # "fence" /\ y[q] # "fence"
  OBVIOUS
<1>3. InBlock(x)[p] = FALSE /\ InBlock(y)[q] = TRUE
  BY <1>1, <1>2 DEF Drawing, BlockStep
<1>4. /\ p - 1 \in 0..Len(x) /\ q - 1 \in 0..Len(y)
  BY DEF FormTexts
<1> DEFINE b == Bodies(x)[p - 1]
           a == Bodies(y)[q - 1]
           form == x[p]
<1>5. b \in Seq(BodyLines) /\ a \in Seq(BodyLines) /\ form \in {"row", "rule"}
  BY <1>4, ReadLineOf
<1>6. Agrees(b, a)
  BY DEF Drawing
<1>7. Bodies(x)[p] = BodyStep(b, form, FALSE) /\ Bodies(y)[q] = BodyStep(a, form, TRUE)
  BY <1>1, <1>3
<1> HIDE DEF b, a, form
<1>8. Agrees(BodyStep(b, form, FALSE), BodyStep(a, form, TRUE))
  BY <1>5, <1>6, AgreesOn
<1> QED BY <1>3, <1>7, <1>8 DEF Drawing

\* and the rule that is left out does not end it.
LEMMA RuleLeftOut ==
  ASSUME NEW x \in FormTexts, NEW y \in FormTexts, NEW p \in 1..Len(x), NEW q,
         Drawing(x, p - 1, y, q), x[p] = "rule"
  PROVE  Drawing(x, p, y, q)
<1>1. /\ InBlock(x)[p] = BlockStep(InBlock(x)[p - 1], x[p])
      /\ Bodies(x)[p] = BodyStep(Bodies(x)[p - 1], x[p], InBlock(x)[p])
  BY ReadLineOf
<1>2. InBlock(x)[p] = FALSE
  BY <1>1 DEF Drawing, BlockStep
<1>3. Bodies(x)[p] = Bodies(x)[p - 1]
  BY <1>1 DEF BodyStep
<1> QED BY <1>2, <1>3, Zenon DEF Drawing

\* The lines that a drawn table adds to a text.
WithRows(z, out) ==
  \A j \in 1..Len(z) : z[j] \in {"fence", "row", "rule"} \/ \E k \in 1..Len(out) : z[j] = out[k]

\* A drawn table reads like the table, outside of the code it is drawn as.
LEMMA TableReads ==
  ASSUME NEW lines \in FormTexts, NEW i \in 1..Len(lines), IsTable(lines, i),
         NEW out \in FormTexts, NEW z, Joined(z, out, Drawn(lines, i)),
         ReadsLike(lines, i - 1, out, Len(out)), InBlock(lines)[i - 1] = FALSE
  PROVE  /\ z \in FormTexts
         /\ TableEnd(lines, i) - 1 \in (i + 2)..Len(lines)
         /\ ReadsLike(lines, TableEnd(lines, i) - 1, z, Len(z))
         /\ InBlock(lines)[TableEnd(lines, i) - 1] = FALSE
         /\ WithRows(z, out)
<1> DEFINE D == Drawn(lines, i)
           e == TableEnd(lines, i)
           m == e - (i + 2)
           q == Len(out)
<1>1. /\ m \in Nat /\ m # 0 /\ i + 1 + m <= Len(lines)
      /\ D \in FormTexts /\ Len(D) = m + 3
      /\ D[1] = "fence" /\ D[2] = lines[i] /\ D[m + 3] = "fence"
      /\ \A k \in 1..m : D[2 + k] = lines[i + 1 + k]
      /\ lines[i] \in {"row", "rule"} /\ lines[i + 1] = "rule"
      /\ \A k \in 1..m : lines[i + 1 + k] \in {"row", "rule"}
  BY DrawnTable
<1>2. q \in Nat /\ Len(lines) \in Nat /\ i \in Nat /\ i + 2 <= Len(lines)
  BY DEF FormTexts, IsTable
<1>3. e \in Nat
  BY <1>2, TableEndLies
<1> HIDE DEF D
<1>4. Joined(z, out, D) /\ D \in FormTexts
  BY <1>1 DEF D
<1>5. /\ z \in FormTexts /\ Len(z) = Len(out) + Len(D)
      /\ \A k \in 1..Len(out) : z[k] = out[k]
      /\ \A k \in 1..Len(D) : z[Len(out) + k] = D[k]
      /\ SameReading(out, Len(out), z, Len(out))
  <2> HIDE DEF q
  <2> QED BY <1>4, ReadPrefix
<1> HIDE DEF e
<1>6. /\ Len(z) = q + m + 3 /\ z[q + 1] = "fence" /\ z[q + 2] = lines[i]
      /\ z[q + (m + 3)] = "fence"
  <2>1. 1 \in 1..Len(D) /\ 2 \in 1..Len(D) /\ m + 3 \in 1..Len(D)
    BY <1>1
  <2> HIDE DEF m
  <2> QED BY <1>1, <1>2, <1>5, <2>1
<1>7. ASSUME NEW k \in 1..m PROVE z[q + (2 + k)] = lines[i + 1 + k]
  <2>1. 2 + k \in 1..Len(D)
    BY <1>1
  <2> QED BY <1>1, <1>5, <2>1
<1>8. SameReading(out, q, z, q)
  BY <1>5
<1> HIDE DEF q, m
<1>9. ReadsLike(lines, i - 1, z, q)
  <2>1. ReadsLike(lines, i - 1, out, q)
    BY DEF q
  <2> QED BY <1>8, <2>1, SameIsAlike
<1>10. Drawing(lines, i - 1, z, q + 1)
  <2>1. q + 1 \in 1..Len(z) /\ (q + 1) - 1 = q
    BY <1>1, <1>2, <1>6
  <2> QED BY <1>5, <1>6, <1>9, <2>1, FenceOpens
<1>11. Drawing(lines, i, z, q + 2)
  <2>1. q + 2 \in 1..Len(z) /\ (q + 2) - 1 = q + 1
    BY <1>1, <1>2, <1>6
  <2> QED BY <1>1, <1>5, <1>6, <1>10, <2>1, RowDrawn
<1>12. Drawing(lines, i + 1, z, q + 2)
  <2>1. i + 1 \in 1..Len(lines) /\ (i + 1) - 1 = i
    BY <1>2
  <2> QED BY <1>1, <1>5, <1>11, <2>1, RuleLeftOut
<1> DEFINE S == {k \in 0..m : Drawing(lines, i + 1 + k, z, q + (2 + k))}
<1>13. 0 \in S
  <2>1. i + 1 + 0 = i + 1 /\ q + (2 + 0) = q + 2 /\ 0 \in 0..m
    BY <1>1, <1>2
  <2> QED BY <1>12, <2>1
<1>14. ASSUME NEW k \in 0..m, k < m, k \in S PROVE k + 1 \in S
  <2>1. /\ k + 1 \in 1..m /\ i + 1 + (k + 1) \in 1..Len(lines) /\ q + (2 + (k + 1)) \in 1..Len(z)
        /\ (i + 1 + (k + 1)) - 1 = i + 1 + k /\ (q + (2 + (k + 1))) - 1 = q + (2 + k)
    BY <1>1, <1>2, <1>6, <1>14
  <2>2. /\ lines[i + 1 + (k + 1)] = z[q + (2 + (k + 1))]
        /\ lines[i + 1 + (k + 1)] \in {"row", "rule"}
    BY <1>1, <1>7, <2>1
  <2>3. Drawing(lines, (i + 1 + (k + 1)) - 1, z, (q + (2 + (k + 1))) - 1)
    BY <1>14, <2>1
  <2>4. Drawing(lines, i + 1 + (k + 1), z, q + (2 + (k + 1)))
    BY <1>5, <2>1, <2>2, <2>3, RowDrawn
  <2>5. k + 1 \in 0..m
    BY <2>1
  <2> QED BY <2>4, <2>5
<1> HIDE DEF S
<1>15. \A k \in 0..m : k \in S
  BY <1>1, <1>13, <1>14, WalkInduction
<1>16. Drawing(lines, i + 1 + m, z, q + (2 + m))
  <2>1. m \in 0..m
    BY <1>1
  <2> QED BY <1>15, <2>1 DEF S
<1>17. ReadsLike(lines, i + 1 + m, z, q + (m + 3)) /\ InBlock(lines)[i + 1 + m] = FALSE
  <2>1. q + (m + 3) \in 1..Len(z) /\ (q + (m + 3)) - 1 = q + (2 + m)
    BY <1>1, <1>2, <1>6
  <2> QED BY <1>5, <1>6, <1>16, <2>1, FenceCloses
<1>18. e - 1 = i + 1 + m /\ q + (m + 3) = Len(z) /\ i + 1 + m \in (i + 2)..Len(lines)
  BY <1>1, <1>2, <1>3, <1>6 DEF m
<1>19. ASSUME NEW j \in 1..Len(z)
       PROVE  z[j] \in {"fence", "row", "rule"} \/ \E k \in 1..Len(out) : z[j] = out[k]
  <2>1. CASE j <= q
    <3>1. j \in 1..Len(out)
      BY <1>2, <2>1 DEF q
    <3> QED BY <1>5, <3>1
  <2>2. CASE j = q + 1 \/ j = q + (m + 3)
    BY <1>6, <2>2
  <2>3. CASE j = q + 2
    BY <1>1, <1>6, <2>3
  <2>4. CASE j > q + 2 /\ j < q + (m + 3)
    <3> DEFINE k == j - (q + 2)
    <3>1. k \in 1..m /\ q + (2 + k) = j
      BY <1>1, <1>2, <1>6, <2>4
    <3> QED BY <1>1, <1>7, <3>1
  <2>5. j \in Nat /\ j <= q + (m + 3)
    BY <1>1, <1>2, <1>6
  <2> QED BY <1>1, <1>2, <2>1, <2>2, <2>3, <2>4, <2>5
<1> QED BY <1>5, <1>17, <1>18, <1>19 DEF e, WithRows

\* A text that is read like a part of another is so after the next line of that one.
LEMMA AlikeSame ==
  ASSUME NEW lines \in FormTexts, NEW p \in 1..Len(lines), NEW x \in FormTexts,
         ReadsLike(lines, p - 1, x, Len(x))
  PROVE  LET y == Append(x, lines[p])
         IN /\ y \in FormTexts /\ Len(y) = Len(x) + 1
            /\ ReadsLike(lines, p, y, Len(y))
            /\ \A j \in 1..Len(y) : y[j] = lines[p] \/ \E k \in 1..Len(x) : y[j] = x[k]
<1> DEFINE y == Append(x, lines[p])
<1>1. lines[p] \in LineNames /\ Len(x) \in Nat
  BY DEF FormTexts
<1>2. /\ y \in FormTexts /\ Len(y) = Len(x) + 1 /\ y[Len(x) + 1] = lines[p]
      /\ \A k \in 1..Len(x) : y[k] = x[k]
      /\ SameReading(x, Len(x), y, Len(x))
  BY <1>1, ReadAppend
<1> HIDE DEF y
<1>3. ReadsLike(lines, p - 1, y, Len(x))
  BY <1>2, SameIsAlike
<1>4. Len(y) \in 1..Len(y) /\ Len(y) - 1 = Len(x) /\ lines[p] = y[Len(y)]
  BY <1>1, <1>2
<1>5. ReadsLike(lines, p, y, Len(y))
  BY <1>2, <1>3, <1>4, AlikeOn
<1>6. ASSUME NEW j \in 1..Len(y) PROVE y[j] = lines[p] \/ \E k \in 1..Len(x) : y[j] = x[k]
  <2>1. j = Len(x) + 1 \/ j \in 1..Len(x)
    BY <1>1, <1>2
  <2> QED BY <1>2, <2>1
<1> QED BY <1>2, <1>5, <1>6 DEF y

\* How far the tables' walk has read a text at its line i: behind a table it has drawn.
TabledTo(acc, i) == IF acc.next <= i + 1 THEN i ELSE acc.next - 1

\* What it has made of the text so far.
TabledSoFar(lines, acc, i) ==
  /\ TabledTo(acc, i) <= Len(lines)
  /\ acc.code = InBlock(lines)[TabledTo(acc, i)]
  /\ ReadsLike(lines, TabledTo(acc, i), acc.out, Len(acc.out))
  /\ \A j \in 1..Len(acc.out) : acc.out[j] # "details_whole"

\* One line more.
LEMMA TabledOn ==
  ASSUME NEW lines \in FormTexts, NEW i \in 1..Len(lines), NEW acc \in TableStates,
         TabledSoFar(lines, acc, i - 1), lines[i] # "details_whole"
  PROVE  TabledSoFar(lines, TableStep(lines, acc, i), i)
<1> DEFINE moved == TableStep(lines, acc, i)
           out == acc.out
           more == moved.out
           drawn == out \o Drawn(lines, i)
           e == TableEnd(lines, i)
<1>1. /\ Len(lines) \in Nat /\ i \in Nat /\ acc.next \in Nat /\ out \in FormTexts
      /\ acc.code \in BOOLEAN /\ i - 1 \in 0..Len(lines)
  BY DEF FormTexts, TableStates
<1>2. \/ i < acc.next /\ moved = acc
      \/ /\ i >= acc.next /\ lines[i] = "fence"
         /\ moved.out = Append(out, "fence") /\ moved.code = ~acc.code
         /\ moved.next = acc.next
      \/ /\ i >= acc.next /\ lines[i] # "fence" /\ ~acc.code /\ IsTable(lines, i)
         /\ moved.out = drawn /\ moved.code = acc.code /\ moved.next = e
      \/ /\ i >= acc.next /\ lines[i] # "fence"
         /\ moved.out = Append(out, lines[i]) /\ moved.code = acc.code
         /\ moved.next = acc.next
  BY TableMoves
<1>3. /\ moved \in TableStates
  BY TableStepState
<1> HIDE DEF moved, drawn, e
<1>4. CASE i < acc.next /\ moved = acc
  <2>1. TabledTo(acc, i) = TabledTo(acc, i - 1)
    BY <1>1, <1>4 DEF TabledTo
  <2> QED BY <1>4, <2>1 DEF TabledSoFar, moved
<1>5. i >= acc.next => TabledTo(acc, i - 1) = i - 1
  BY <1>1 DEF TabledTo
<1>6. i >= acc.next =>
        /\ acc.code = InBlock(lines)[i - 1]
        /\ ReadsLike(lines, i - 1, out, Len(out))
        /\ \A j \in 1..Len(out) : out[j] # "details_whole"
  BY <1>5 DEF TabledSoFar
<1>7. InBlock(lines)[i] = BlockStep(InBlock(lines)[i - 1], lines[i])
  BY ReadLineOf
<1> DEFINE same == Append(out, lines[i])
<1>8. i >= acc.next =>
        /\ ReadsLike(lines, i, same, Len(same))
        /\ \A j \in 1..Len(same) : same[j] # "details_whole"
  <2> SUFFICES ASSUME i >= acc.next
               PROVE  /\ ReadsLike(lines, i, same, Len(same))
                      /\ \A j \in 1..Len(same) : same[j] # "details_whole"
    OBVIOUS
  <2>1. /\ ReadsLike(lines, i, same, Len(same))
        /\ \A j \in 1..Len(same) : same[j] = lines[i] \/ \E k \in 1..Len(out) : same[j] = out[k]
    BY <1>1, <1>6, AlikeSame
  <2> HIDE DEF same, out
  <2> QED BY <1>6, <2>1
<1> HIDE DEF same, out
<1>9. CASE /\ i >= acc.next /\ moved.out = same /\ moved.next = acc.next
           /\ moved.code = InBlock(lines)[i]
  <2>1. TabledTo(moved, i) = i
    BY <1>1, <1>9 DEF TabledTo
  <2> QED BY <1>1, <1>8, <1>9, <2>1 DEF TabledSoFar, moved
<1>10. CASE /\ i >= acc.next /\ lines[i] = "fence"
            /\ moved.out = Append(out, "fence") /\ moved.code = ~acc.code
            /\ moved.next = acc.next
  <2>1. moved.code = InBlock(lines)[i]
    BY <1>6, <1>7, <1>10, Zenon DEF BlockStep
  <2>2. moved.out = same
    BY <1>10 DEF same
  <2> QED BY <1>9, <1>10, <2>1, <2>2
<1>11. CASE /\ i >= acc.next /\ lines[i] # "fence"
            /\ moved.out = Append(out, lines[i]) /\ moved.code = acc.code
            /\ moved.next = acc.next
  <2>1. moved.code = InBlock(lines)[i]
    BY <1>6, <1>7, <1>11, Zenon DEF BlockStep
  <2>2. moved.out = same
    BY <1>11 DEF same
  <2> QED BY <1>9, <1>11, <2>1, <2>2
<1>12. CASE /\ i >= acc.next /\ lines[i] # "fence" /\ ~acc.code /\ IsTable(lines, i)
            /\ moved.out = drawn /\ moved.code = acc.code /\ moved.next = e
  <2>1. InBlock(lines)[i - 1] = FALSE /\ acc.code = FALSE
    BY <1>1, <1>6, <1>12
  <2>2. Joined(drawn, out, Drawn(lines, i))
    BY DEF Joined, drawn
  <2>3. ReadsLike(lines, i - 1, out, Len(out)) /\ out \in FormTexts
    BY <1>1, <1>6, <1>12
  <2>4. /\ e - 1 \in (i + 2)..Len(lines)
        /\ ReadsLike(lines, e - 1, drawn, Len(drawn))
        /\ InBlock(lines)[e - 1] = FALSE
        /\ \A j \in 1..Len(drawn) : \/ drawn[j] \in {"fence", "row", "rule"}
                                    \/ \E k \in 1..Len(out) : drawn[j] = out[k]
    <3>1. IsTable(lines, i)
      BY <1>12
    <3>2. /\ TableEnd(lines, i) - 1 \in (i + 2)..Len(lines)
          /\ ReadsLike(lines, TableEnd(lines, i) - 1, drawn, Len(drawn))
          /\ InBlock(lines)[TableEnd(lines, i) - 1] = FALSE
          /\ WithRows(drawn, out)
      BY <2>1, <2>2, <2>3, <3>1, TableReads
    <3> QED BY <3>2 DEF e, WithRows
  <2>5. \A j \in 1..Len(drawn) : drawn[j] # "details_whole"
    BY <1>6, <1>12, <2>4
  <2>6. TabledTo(moved, i) = e - 1
    <3>1. e \in Nat
      BY <1>3, <1>12 DEF TableStates
    <3> QED BY <1>1, <1>12, <2>4, <3>1 DEF TabledTo
  <2>7. moved.code = InBlock(lines)[e - 1]
    BY <1>12, <2>1, <2>4
  <2>8. e - 1 <= Len(lines)
    BY <1>1, <2>4
  <2> QED BY <1>12, <2>4, <2>5, <2>6, <2>7, <2>8 DEF TabledSoFar, moved
<1> QED BY <1>2, <1>4, <1>10, <1>11, <1>12 DEF moved, out, drawn, e

\* Drawing the tables leaves a text that is read like the first.
LEMMA TablesKeep ==
  ASSUME NEW lines \in FormTexts, \A j \in 1..Len(lines) : lines[j] # "details_whole"
  PROVE  LET out == ConvertMarkdownTables(lines)
         IN /\ out \in FormTexts
            /\ ReadsLike(lines, Len(lines), out, Len(out))
            /\ \A j \in 1..Len(out) : out[j] # "details_whole"
<1> DEFINE n == Len(lines)
<1>1. n \in Nat
  BY DEF FormTexts
<1>2. PICK c \in [0..n -> TableStates] :
        /\ ConvertMarkdownTables(lines) = c[n].out
        /\ c[0] = [out |-> <<>>, code |-> FALSE, next |-> 1]
        /\ \A i \in 1..n : c[i] = TableStep(lines, c[i - 1], i)
  BY TablesWalks
<1> DEFINE S == {k \in 0..n : TabledSoFar(lines, c[k], k)}
<1>3. 0 \in S
  <2>1. c[0].out = <<>> /\ c[0].next = 1 /\ c[0].code = FALSE
    BY <1>2
  <2>2. <<>> \in FormTexts /\ Len(<<>>) = 0
    BY DEF FormTexts
  <2>3. InBlock(lines)[0] = FALSE /\ Bodies(lines)[0] = <<>>
    BY ReadLineOf
  <2>4. InBlock(<<>>)[0] = FALSE /\ Bodies(<<>>)[0] = <<>>
    BY <2>2, ReadLineOf
  <2>5. SameReading(lines, 0, <<>>, 0)
    BY <2>3, <2>4, Zenon DEF SameReading
  <2>6. ReadsLike(lines, 0, <<>>, 0)
    BY <2>5, SameIsAlike
  <2>7. TabledTo(c[0], 0) = 0
    BY <2>1 DEF TabledTo
  <2>8. /\ TabledTo(c[0], 0) <= Len(lines)
        /\ c[0].code = InBlock(lines)[TabledTo(c[0], 0)]
        /\ ReadsLike(lines, TabledTo(c[0], 0), c[0].out, Len(c[0].out))
    BY <1>1, <2>1, <2>2, <2>3, <2>6, <2>7
  <2>9. \A j \in 1..Len(c[0].out) : c[0].out[j] # "details_whole"
    <3>1. Len(c[0].out) = 0
      BY <2>1, <2>2
    <3> QED BY <3>1
  <2>10. TabledSoFar(lines, c[0], 0)
    BY <2>8, <2>9 DEF TabledSoFar
  <2> QED BY <1>1, <2>10
<1>4. ASSUME NEW k \in 0..n, k < n, k \in S PROVE k + 1 \in S
  <2>1. k + 1 \in 1..n /\ (k + 1) - 1 = k /\ k \in 0..n
    BY <1>1, <1>4
  <2>2. /\ c[k] \in TableStates
        /\ TabledSoFar(lines, c[k], (k + 1) - 1)
        /\ lines[k + 1] # "details_whole"
    BY <1>2, <1>4, <2>1
  <2>3. TabledSoFar(lines, TableStep(lines, c[k], k + 1), k + 1)
    BY <2>1, <2>2, TabledOn
  <2>4. c[k + 1] = TableStep(lines, c[k], k + 1)
    <3>1. c[k + 1] = TableStep(lines, c[(k + 1) - 1], k + 1)
      BY <1>2, <2>1
    <3> QED BY <2>1, <3>1
  <2> QED BY <1>1, <2>1, <2>3, <2>4
<1> HIDE DEF S
<1>5. \A k \in 0..n : k \in S
  BY <1>1, <1>3, <1>4, WalkInduction
<1>6. TabledSoFar(lines, c[n], n) /\ c[n] \in TableStates
  <2>1. n \in 0..n
    BY <1>1
  <2> QED BY <1>2, <1>5, <2>1 DEF S
<1>7. TabledTo(c[n], n) = n
  <2>1. c[n].next \in Nat /\ TabledTo(c[n], n) <= n
    BY <1>6 DEF TabledSoFar, TableStates
  <2> QED BY <1>1, <2>1 DEF TabledTo
<1>8. /\ c[n].out \in FormTexts
      /\ ReadsLike(lines, n, c[n].out, Len(c[n].out))
      /\ \A j \in 1..Len(c[n].out) : c[n].out[j] # "details_whole"
  BY <1>6, <1>7 DEF TabledSoFar, TableStates
<1> QED BY <1>2, <1>8

\* The forms of the lines of a converted text.
LEMMA FormsOf ==
  ASSUME NEW x \in ShownTexts
  PROVE  /\ Forms(x) \in FormTexts /\ Len(Forms(x)) = Len(x)
         /\ \A k \in 1..Len(x) : Forms(x)[k] = x[k].form
<1>1. Len(x) \in Nat /\ DOMAIN x = 1..Len(x) /\ \A k \in 1..Len(x) : x[k].form \in LineNames
  <2>1. Len(x) \in Nat /\ DOMAIN x = 1..Len(x) /\ \A k \in 1..Len(x) : x[k] \in ShownLines
    BY DEF ShownTexts
  <2>2. \A l \in ShownLines : l.form \in LineNames
    BY DEF ShownLines
  <2> QED BY <2>1, <2>2
<1>2. Forms(x) = [k \in 1..Len(x) |-> x[k].form]
  BY <1>1 DEF Forms
<1> QED BY <1>1, <1>2 DEF FormTexts

\* Two texts of the same lines are the same text.
LEMMA SameForms ==
  ASSUME NEW x \in FormTexts, NEW y \in FormTexts, Len(x) = Len(y),
         \A k \in 1..Len(x) : x[k] = y[k]
  PROVE  x = y
<1>1. /\ x = [k \in 1..Len(x) |-> x[k]] /\ y = [k \in 1..Len(y) |-> y[k]]
  BY DEF FormTexts
<1> QED BY <1>1

\* The forms of a text with one line more.
LEMMA FormsOfAppend ==
  ASSUME NEW x \in ShownTexts, NEW l \in ShownLines
  PROVE  Append(x, l) \in ShownTexts /\ Forms(Append(x, l)) = Append(Forms(x), l.form)
<1> DEFINE y == Append(x, l)
           z == Append(Forms(x), l.form)
           n == Len(x)
<1>1. n \in Nat /\ l.form \in LineNames
  BY DEF ShownTexts, ShownLines
<1>2. /\ y \in Seq(ShownLines) /\ Len(y) = n + 1 /\ y[n + 1] = l
      /\ \A k \in 1..n : y[k] = x[k]
  BY AppendProperties DEF ShownTexts
<1> HIDE DEF y
<1>3. y \in ShownTexts
  BY <1>2 DEF ShownTexts
<1>4. /\ Forms(y) \in FormTexts /\ Len(Forms(y)) = n + 1
      /\ \A k \in 1..(n + 1) : Forms(y)[k] = y[k].form
  BY <1>2, <1>3, FormsOf
<1>5. /\ Forms(x) \in FormTexts /\ Len(Forms(x)) = n
      /\ \A k \in 1..n : Forms(x)[k] = x[k].form
  BY FormsOf
<1>6. /\ z \in FormTexts /\ Len(z) = n + 1 /\ z[n + 1] = l.form
      /\ \A k \in 1..n : z[k] = Forms(x)[k]
  BY <1>1, <1>5, ReadAppend
<1> HIDE DEF z, n
<1>7. ASSUME NEW k \in 1..(n + 1) PROVE Forms(y)[k] = z[k]
  <2>1. k = n + 1 \/ k \in 1..n
    BY <1>1
  <2> QED BY <1>2, <1>4, <1>5, <1>6, <2>1
<1>8. Forms(y) = z
  BY <1>4, <1>6, <1>7, SameForms
<1> QED BY <1>3, <1>8 DEF y, z

\* The forms of a text followed by another.
LEMMA FormsOfConcat ==
  ASSUME NEW x \in ShownTexts, NEW y \in ShownTexts
  PROVE  x \o y \in ShownTexts /\ Forms(x \o y) = Forms(x) \o Forms(y)
<1> DEFINE u == x \o y
           z == Forms(x) \o Forms(y)
           n == Len(x)
           m == Len(y)
<1>1. n \in Nat /\ m \in Nat
  BY DEF ShownTexts
<1>2. /\ u \in Seq(ShownLines) /\ Len(u) = n + m
      /\ \A k \in 1..(n + m) : u[k] = IF k <= n THEN x[k] ELSE y[k - n]
  BY ConcatProperties DEF ShownTexts
<1> HIDE DEF u
<1>3. u \in ShownTexts
  BY <1>2 DEF ShownTexts
<1>4. /\ Forms(u) \in FormTexts /\ Len(Forms(u)) = n + m
      /\ \A k \in 1..(n + m) : Forms(u)[k] = u[k].form
  BY <1>2, <1>3, FormsOf
<1>5. /\ Forms(x) \in FormTexts /\ Len(Forms(x)) = n
      /\ \A k \in 1..n : Forms(x)[k] = x[k].form
      /\ Forms(y) \in FormTexts /\ Len(Forms(y)) = m
      /\ \A k \in 1..m : Forms(y)[k] = y[k].form
  BY FormsOf
<1>6. /\ z \in Seq(LineNames) /\ Len(z) = n + m
      /\ \A k \in 1..(n + m) : z[k] = IF k <= n THEN Forms(x)[k] ELSE Forms(y)[k - n]
  BY <1>5, ConcatProperties DEF FormTexts
<1> HIDE DEF z, n, m
<1>7. ASSUME NEW k \in 1..(n + m) PROVE Forms(u)[k] = z[k]
  <2>1. (k \in 1..n /\ k <= n) \/ (k - n \in 1..m /\ ~(k <= n))
    BY <1>1
  <2> QED BY <1>2, <1>4, <1>5, <1>6, <2>1
<1>8. Forms(u) = z
  <2>1. z \in FormTexts
    BY <1>6 DEF FormTexts
  <2> QED BY <1>4, <1>6, <1>7, <2>1, SameForms
<1> QED BY <1>3, <1>8 DEF u, z

\* What one line does to the walk of the details.
HeldBack(acc, moved, form) ==
  /\ acc.inside /\ moved.inside /\ moved.out = acc.out
  /\ moved.held = Append(acc.held, Quoted(form)) /\ moved.header = acc.header
PutOut(acc, moved, form) ==
  /\ ~acc.inside /\ ~moved.inside /\ moved.out = Append(acc.out, Plainly(form))
  /\ moved.held = acc.held /\ moved.header = acc.header
BlockEnds(acc, moved, form) ==
  /\ acc.inside /\ ~moved.inside /\ form = "details_close"
  /\ moved.out = acc.out \o acc.header \o acc.held
  /\ moved.held = <<>> /\ moved.header = <<>>
Headed(acc, moved, form) ==
  /\ acc.inside /\ moved.inside /\ form = "summary"
  /\ moved.out = acc.out /\ moved.held = acc.held
  /\ moved.header = <<Plainly("header")>>
Opened(acc, moved, form) ==
  /\ ~acc.inside /\ moved.inside /\ form = "details_open"
  /\ moved.out = acc.out /\ moved.held = <<>> /\ moved.header = <<>>

\* It does one of these five things.
LEMMA DetailMoves ==
  ASSUME NEW acc \in DetailStates, NEW form \in LineNames, form # "details_whole"
  PROVE  LET moved == DetailsStep(acc, form)
         IN /\ moved.code = BlockStep(acc.code, form)
            /\ \/ HeldBack(acc, moved, form) \/ PutOut(acc, moved, form) \/ BlockEnds(acc, moved, form)
               \/ Headed(acc, moved, form) \/ Opened(acc, moved, form)
<1> DEFINE moved == DetailsStep(acc, form)
           now == IF form = "fence" THEN ~acc.code ELSE acc.code
<1>1. acc.inside \in BOOLEAN /\ acc.code \in BOOLEAN
  BY DEF DetailStates
<1>2. BlockStep(acc.code, form) = now
  BY DEF BlockStep
<1>3. CASE form = "fence" \/ acc.code
  <2>1. CASE acc.inside
    <3>1. moved = [acc EXCEPT !.code = now, !.held = Append(@, Quoted(form))]
      BY <1>3, <2>1 DEF DetailsStep
    <3> HIDE DEF moved
    <3>2. /\ moved.code = now /\ moved.inside = acc.inside /\ moved.out = acc.out
          /\ moved.held = Append(acc.held, Quoted(form)) /\ moved.header = acc.header
      BY <3>1 DEF DetailStates
    <3> QED BY <1>2, <2>1, <3>2 DEF HeldBack, moved
  <2>2. CASE ~acc.inside
    <3>1. moved = [acc EXCEPT !.code = now, !.out = Append(@, Plainly(form))]
      BY <1>3, <2>2 DEF DetailsStep
    <3> HIDE DEF moved
    <3>2. /\ moved.code = now /\ moved.inside = acc.inside /\ moved.held = acc.held
          /\ moved.out = Append(acc.out, Plainly(form)) /\ moved.header = acc.header
      BY <3>1 DEF DetailStates
    <3> QED BY <1>2, <2>2, <3>2 DEF PutOut, moved
  <2> QED BY <2>1, <2>2
<1>4. CASE form # "fence" /\ ~acc.code /\ acc.inside
  <2>1. moved = InDetails(acc, form) /\ now = acc.code
    BY <1>4 DEF DetailsStep
  <2> HIDE DEF moved
  <2>2. CASE form = "details_close"
    <3>1. moved = [acc EXCEPT !.inside = FALSE, !.out = @ \o acc.header \o acc.held,
                             !.header = <<>>, !.held = <<>>]
      BY <2>1, <2>2 DEF InDetails
    <3>2. /\ moved.code = acc.code /\ moved.inside = FALSE /\ moved.held = <<>>
          /\ moved.out = acc.out \o acc.header \o acc.held /\ moved.header = <<>>
      BY <3>1 DEF DetailStates
    <3> QED BY <1>2, <1>4, <2>1, <2>2, <3>2 DEF BlockEnds, moved
  <2>3. CASE form = "summary"
    <3>1. moved = [acc EXCEPT !.header = <<Plainly("header")>>]
      BY <2>1, <2>3 DEF InDetails
    <3>2. /\ moved.code = acc.code /\ moved.inside = acc.inside /\ moved.held = acc.held
          /\ moved.out = acc.out /\ moved.header = <<Plainly("header")>>
      BY <3>1 DEF DetailStates
    <3> QED BY <1>2, <1>4, <2>1, <2>3, <3>2 DEF Headed, moved
  <2>4. CASE form \notin {"details_close", "summary"}
    <3>1. moved = [acc EXCEPT !.held = Append(@, Quoted(form))]
      BY <2>1, <2>4 DEF InDetails
    <3>2. /\ moved.code = acc.code /\ moved.inside = acc.inside /\ moved.out = acc.out
          /\ moved.held = Append(acc.held, Quoted(form)) /\ moved.header = acc.header
      BY <3>1 DEF DetailStates
    <3> QED BY <1>2, <1>4, <2>1, <3>2 DEF HeldBack, moved
  <2> QED BY <2>2, <2>3, <2>4
<1>5. CASE form # "fence" /\ ~acc.code /\ ~acc.inside
  <2>1. moved = OutOfDetails(acc, form) /\ now = acc.code
    BY <1>5 DEF DetailsStep
  <2> HIDE DEF moved
  <2>2. CASE form = "details_open"
    <3>1. moved = [acc EXCEPT !.inside = TRUE, !.header = <<>>, !.held = <<>>]
      BY <2>1, <2>2 DEF OutOfDetails
    <3>2. /\ moved.code = acc.code /\ moved.inside = TRUE /\ moved.held = <<>>
          /\ moved.out = acc.out /\ moved.header = <<>>
      BY <3>1 DEF DetailStates
    <3> QED BY <1>2, <1>5, <2>1, <2>2, <3>2 DEF Opened, moved
  <2>3. CASE form # "details_open"
    <3>1. moved = [acc EXCEPT !.out = Append(@, Plainly(form))]
      BY <2>1, <2>3 DEF OutOfDetails
    <3>2. /\ moved.code = acc.code /\ moved.inside = acc.inside /\ moved.held = acc.held
          /\ moved.out = Append(acc.out, Plainly(form)) /\ moved.header = acc.header
      BY <3>1 DEF DetailStates
    <3> QED BY <1>2, <1>5, <2>1, <3>2 DEF PutOut, moved
  <2> QED BY <2>2, <2>3
<1> QED BY <1>1, <1>3, <1>4, <1>5

\* What the walk of the details has put out and held back, as forms.
FormsSoFar(acc) == Forms(acc.out) \o Forms(acc.held)

\* What it has made of the first i lines of a text.
DetailedSoFar(lines, acc, i) ==
  /\ acc.code = InBlock(lines)[i]
  /\ ~acc.inside => acc.held = <<>>
  /\ acc.header = <<>> \/ acc.header = <<Plainly("header")>>
  /\ SameReading(lines, i, FormsSoFar(acc), Len(FormsSoFar(acc)))

\* The empty text.
LEMMA NoForms ==
  /\ <<>> \in ShownTexts /\ Forms(<<>>) = <<>> /\ <<>> \in FormTexts /\ Len(<<>>) = 0
  /\ \A x \in FormTexts : x \o <<>> = x
<1>1. <<>> \in ShownTexts /\ <<>> \in FormTexts /\ Len(<<>>) = 0
  BY DEF ShownTexts, FormTexts
<1>2. Forms(<<>>) = <<>>
  <2>1. Forms(<<>>) \in FormTexts /\ Len(Forms(<<>>)) = 0
    BY <1>1, FormsOf
  <2> QED BY <1>1, <2>1, SameForms
<1>3. \A x \in FormTexts : x \o <<>> = x
  BY DEF FormTexts
<1> QED BY <1>1, <1>2, <1>3

\* A line appended to the second of two texts is appended to both together.
LEMMA ConcatAppend ==
  ASSUME NEW x \in FormTexts, NEW y \in FormTexts, NEW form \in LineNames
  PROVE  x \o Append(y, form) = Append(x \o y, form)
BY DEF FormTexts

\* One line more.
LEMMA DetailedOn ==
  ASSUME NEW lines \in FormTexts, NEW i \in 1..Len(lines), NEW acc \in DetailStates,
         DetailedSoFar(lines, acc, i - 1), lines[i] # "details_whole"
  PROVE  DetailedSoFar(lines, DetailsStep(acc, lines[i]), i)
<1> DEFINE form == lines[i]
           moved == DetailsStep(acc, form)
           old == FormsSoFar(acc)
           O == Forms(acc.out)
           H == Forms(acc.held)
<1>1. form \in LineNames /\ form # "details_whole"
  BY DEF FormTexts
<1>2. /\ acc.out \in ShownTexts /\ acc.held \in ShownTexts /\ acc.header \in ShownTexts
      /\ acc.inside \in BOOLEAN /\ acc.code \in BOOLEAN
  BY DEF DetailStates
<1>3. /\ Plainly(form) \in ShownLines /\ Plainly(form).form = form
      /\ Quoted(form) \in ShownLines /\ Quoted(form).form = form
      /\ Plainly("header") \in ShownLines /\ Plainly("header").form = "header"
      /\ "header" \in LineNames
  BY <1>1 DEF ShownLines, Plainly, Quoted, LineNames
<1>4. /\ moved.code = BlockStep(acc.code, form)
      /\ \/ HeldBack(acc, moved, form) \/ PutOut(acc, moved, form) \/ BlockEnds(acc, moved, form)
         \/ Headed(acc, moved, form) \/ Opened(acc, moved, form)
  BY <1>1, DetailMoves
<1>5. InBlock(lines)[i] = BlockStep(InBlock(lines)[i - 1], form)
  BY ReadLineOf
<1>6. /\ acc.code = InBlock(lines)[i - 1] /\ (~acc.inside => acc.held = <<>>)
      /\ acc.header = <<>> \/ acc.header = <<Plainly("header")>>
      /\ SameReading(lines, i - 1, old, Len(old))
  BY DEF DetailedSoFar
<1>7. O \in FormTexts /\ H \in FormTexts /\ old = O \o H /\ old \in FormTexts
  <2>1. O \in FormTexts /\ H \in FormTexts /\ old = O \o H
    BY <1>2, FormsOf DEF FormsSoFar
  <2>2. acc.out \o acc.held \in ShownTexts /\ Forms(acc.out \o acc.held) = O \o H
    BY <1>2, FormsOfConcat
  <2>3. Forms(acc.out \o acc.held) \in FormTexts
    BY <2>2, FormsOf
  <2> QED BY <2>1, <2>2, <2>3
<1>8. moved.code = InBlock(lines)[i]
  BY <1>4, <1>5, <1>6
<1> HIDE DEF moved, old, O, H
<1>9. SameReading(lines, i, Append(old, form), Len(old) + 1)
  BY <1>6, <1>7, ReadSame DEF form
<1>10. form \in PlainForms => SameReading(lines, i, old, Len(old))
  <2> SUFFICES ASSUME form \in PlainForms PROVE SameReading(lines, i, old, Len(old))
    OBVIOUS
  <2>1. lines[i] \in PlainForms
    BY DEF form
  <2> QED BY <1>6, <1>7, <2>1, ReadPast
<1>11. Len(Append(old, form)) = Len(old) + 1
  BY <1>1, <1>7, ReadAppend
<1> HIDE DEF form
<1>12. CASE HeldBack(acc, moved, form)
  <2>1. Forms(moved.held) = Append(H, form) /\ Forms(moved.out) = O
    <3>1. moved.out = acc.out /\ moved.held = Append(acc.held, Quoted(form))
      BY <1>12 DEF HeldBack
    <3>2. Forms(Append(acc.held, Quoted(form))) = Append(Forms(acc.held), Quoted(form).form)
      BY <1>2, <1>3, FormsOfAppend
    <3> QED BY <1>3, <3>1, <3>2 DEF H, O
  <2>2. FormsSoFar(moved) = Append(old, form)
    BY <1>1, <1>7, <2>1, ConcatAppend DEF FormsSoFar
  <2>3. moved.inside /\ moved.header = acc.header
    BY <1>12 DEF HeldBack
  <2> QED BY <1>6, <1>8, <1>9, <1>11, <2>2, <2>3 DEF DetailedSoFar, moved, form
<1>13. CASE PutOut(acc, moved, form)
  <2>1. acc.held = <<>> /\ moved.held = <<>> /\ moved.header = acc.header
    BY <1>6, <1>13 DEF PutOut
  <2>2. H = <<>> /\ Forms(moved.held) = <<>>
    BY <2>1, NoForms DEF H
  <2>3. Forms(moved.out) = Append(O, form)
    <3>1. moved.out = Append(acc.out, Plainly(form))
      BY <1>13 DEF PutOut
    <3>2. Forms(Append(acc.out, Plainly(form))) = Append(Forms(acc.out), Plainly(form).form)
      BY <1>2, <1>3, FormsOfAppend
    <3> QED BY <1>3, <3>1, <3>2 DEF O
  <2>4. old = O /\ Append(O, form) \in FormTexts
    BY <1>1, <1>7, <2>2, NoForms, ReadAppend
  <2>5. FormsSoFar(moved) = Append(old, form)
    BY <2>2, <2>3, <2>4, NoForms DEF FormsSoFar
  <2> QED BY <1>6, <1>8, <1>9, <1>11, <2>1, <2>5 DEF DetailedSoFar, moved, form
<1>14. CASE BlockEnds(acc, moved, form)
  <2>1. /\ moved.out = acc.out \o acc.header \o acc.held /\ moved.held = <<>>
        /\ moved.header = <<>> /\ form = "details_close"
    BY <1>14 DEF BlockEnds
  <2>2. SameReading(lines, i, old, Len(old))
    <3>1. form \in PlainForms
      BY <1>1, <2>1 DEF PlainForms
    <3> QED BY <1>10, <3>1
  <2>3. /\ acc.out \o acc.header \in ShownTexts
        /\ Forms(acc.out \o acc.header) = O \o Forms(acc.header)
    BY <1>2, FormsOfConcat DEF O
  <2>4. Forms(moved.out) = (O \o Forms(acc.header)) \o H /\ moved.out \in ShownTexts
    BY <1>2, <2>1, <2>3, FormsOfConcat DEF H
  <2>5. FormsSoFar(moved) = Forms(moved.out)
    <3>1. Forms(moved.out) \in FormTexts /\ Forms(moved.held) = <<>>
      BY <2>1, <2>4, FormsOf, NoForms
    <3> QED BY <3>1, NoForms DEF FormsSoFar
  <2>6. CASE acc.header = <<>>
    <3>1. O \o Forms(acc.header) = O
      BY <1>7, <2>6, NoForms
    <3>2. FormsSoFar(moved) = old
      BY <1>7, <2>4, <2>5, <3>1
    <3> QED BY <1>8, <2>1, <2>2, <3>2 DEF DetailedSoFar, moved, form
  <2>7. CASE acc.header = <<Plainly("header")>>
    <3> DEFINE one == <<"header">>
               top == Plainly("header")
               h == acc.header
    <3>1. Forms(h) = one
      <4>1. h \in ShownTexts /\ Len(h) = 1 /\ h[1] = top
        BY <1>2, <2>7
      <4>2. one \in FormTexts /\ Len(one) = 1 /\ one[1] = "header"
        BY <1>3 DEF FormTexts
      <4>3. Forms(h) \in FormTexts /\ Len(Forms(h)) = 1 /\ Forms(h)[1] = "header"
        <5>1. /\ Forms(h) \in FormTexts /\ Len(Forms(h)) = Len(h)
              /\ \A k \in 1..Len(h) : Forms(h)[k] = h[k].form
          BY <4>1, FormsOf
        <5> QED BY <1>3, <4>1, <5>1
      <4> HIDE DEF one, h
      <4>4. \A k \in 1..Len(Forms(h)) : Forms(h)[k] = one[k]
        BY <4>2, <4>3
      <4> QED BY <4>2, <4>3, <4>4, SameForms
    <3>2. FormsSoFar(moved) = (O \o <<"header">>) \o H
      BY <2>4, <2>5, <3>1
    <3>3. SameReading(O \o H, Len(O \o H), O \o <<"header">> \o H, Len(O \o <<"header">> \o H))
      <4>1. "header" \notin {"words", "tick", "row", "escaped", "fence"}
        OBVIOUS
      <4> QED BY <1>3, <1>7, <4>1, ReadInserted
    <3> DEFINE new == FormsSoFar(moved)
    <3>4. SameReading(old, Len(old), new, Len(new))
      BY <1>7, <3>2, <3>3
    <3> HIDE DEF new
    <3>5. SameReading(lines, i, new, Len(new))
      BY <2>2, <3>4 DEF SameReading
    <3> QED BY <1>8, <2>1, <3>5 DEF DetailedSoFar, moved, form, new
  <2> QED BY <1>6, <2>6, <2>7
<1>15. CASE Headed(acc, moved, form)
  <2>1. /\ form = "summary" /\ moved.inside /\ moved.header = <<Plainly("header")>>
        /\ FormsSoFar(moved) = old
    BY <1>15 DEF Headed, FormsSoFar, old
  <2>2. form \in PlainForms
    BY <1>1, <2>1 DEF PlainForms
  <2> QED BY <1>8, <1>10, <2>1, <2>2 DEF DetailedSoFar, moved, form
<1>16. CASE Opened(acc, moved, form)
  <2>1. form = "details_open" /\ moved.header = <<>> /\ moved.held = <<>> /\ moved.out = acc.out
    BY <1>16 DEF Opened
  <2>2. acc.held = <<>>
    BY <1>6, <1>16 DEF Opened
  <2>3. FormsSoFar(moved) = old
    BY <2>1, <2>2 DEF FormsSoFar, old
  <2>4. form \in PlainForms
    BY <1>1, <2>1 DEF PlainForms
  <2> QED BY <1>8, <1>10, <2>1, <2>3, <2>4 DEF DetailedSoFar, moved, form
<1> QED BY <1>4, <1>12, <1>13, <1>14, <1>15, <1>16 DEF moved, form

\* Rendering the details leaves a text that reads like the first.
LEMMA DetailsKeep ==
  ASSUME NEW lines \in FormTexts, \A j \in 1..Len(lines) : lines[j] # "details_whole"
  PROVE  LET out == ConvertHtmlDetails(lines)
         IN /\ out \in ShownTexts
            /\ SameReading(lines, Len(lines), Forms(out), Len(out))
<1> DEFINE n == Len(lines)
<1>1. n \in Nat /\ DOMAIN lines = 1..n
  BY DEF FormTexts
<1>2. PICK c \in [0..n -> DetailStates] :
        /\ ConvertHtmlDetails(lines) =
             IF c[n].inside THEN [i \in DOMAIN lines |-> Plainly(lines[i])] ELSE c[n].out
        /\ c[0] = DetailStart
        /\ \A i \in 1..n : c[i] = DetailsStep(c[i - 1], lines[i])
  BY DetailsWalks
<1> DEFINE S == {k \in 0..n : DetailedSoFar(lines, c[k], k)}
<1>3. 0 \in S
  <2>1. /\ DetailStart.out = <<>> /\ DetailStart.held = <<>> /\ DetailStart.header = <<>>
        /\ DetailStart.inside = FALSE /\ DetailStart.code = FALSE
    BY DEF DetailStart
  <2>2. FormsSoFar(DetailStart) = <<>>
    BY <2>1, NoForms DEF FormsSoFar
  <2>3. InBlock(lines)[0] = FALSE /\ Bodies(lines)[0] = <<>>
    BY ReadLineOf
  <2>4. InBlock(<<>>)[0] = FALSE /\ Bodies(<<>>)[0] = <<>>
    BY NoForms, ReadLineOf
  <2>5. SameReading(lines, 0, <<>>, 0)
    BY <2>3, <2>4, Zenon DEF SameReading
  <2>6. DetailedSoFar(lines, DetailStart, 0)
    BY <2>1, <2>2, <2>3, <2>5, NoForms DEF DetailedSoFar
  <2> QED BY <1>1, <1>2, <2>6
<1>4. ASSUME NEW k \in 0..n, k < n, k \in S PROVE k + 1 \in S
  <2>1. k + 1 \in 1..n /\ (k + 1) - 1 = k /\ k \in 0..n
    BY <1>1, <1>4
  <2>2. /\ c[k] \in DetailStates
        /\ DetailedSoFar(lines, c[k], (k + 1) - 1)
        /\ lines[k + 1] # "details_whole"
    BY <1>2, <1>4, <2>1
  <2>3. DetailedSoFar(lines, DetailsStep(c[k], lines[k + 1]), k + 1)
    BY <2>1, <2>2, DetailedOn
  <2>4. c[k + 1] = DetailsStep(c[k], lines[k + 1])
    <3>1. c[k + 1] = DetailsStep(c[(k + 1) - 1], lines[k + 1])
      BY <1>2, <2>1
    <3> QED BY <2>1, <3>1
  <2> QED BY <1>1, <2>1, <2>3, <2>4
<1> HIDE DEF S
<1>5. \A k \in 0..n : k \in S
  BY <1>1, <1>3, <1>4, WalkInduction
<1>6. DetailedSoFar(lines, c[n], n) /\ c[n] \in DetailStates
  <2>1. n \in 0..n
    BY <1>1
  <2> QED BY <1>2, <1>5, <2>1 DEF S
<1> DEFINE end == c[n]
           out == ConvertHtmlDetails(lines)
<1>7. out = IF end.inside THEN [i \in DOMAIN lines |-> Plainly(lines[i])] ELSE end.out
  BY <1>2
<1>8. DetailedSoFar(lines, end, n) /\ end \in DetailStates
  BY <1>6
<1> HIDE DEF end, out
<1>9. CASE ~end.inside
  <2>1. /\ out = end.out
        /\ end.held = <<>>
        /\ SameReading(lines, n, FormsSoFar(end), Len(FormsSoFar(end)))
    BY <1>7, <1>8, <1>9 DEF DetailedSoFar
  <2>2. end.out \in ShownTexts
    BY <1>8 DEF DetailStates
  <2>3. Forms(end.out) \in FormTexts /\ Len(Forms(end.out)) = Len(end.out)
    BY <2>2, FormsOf
  <2>4. FormsSoFar(end) = Forms(end.out)
    BY <2>1, <2>3, NoForms DEF FormsSoFar
  <2> QED BY <2>1, <2>2, <2>3, <2>4 DEF out
<1>10. CASE end.inside
  <2>1. out = [i \in 1..n |-> Plainly(lines[i])]
    BY <1>1, <1>7, <1>10
  <2>2. \A i \in 1..n : Plainly(lines[i]) \in ShownLines /\ Plainly(lines[i]).form = lines[i]
    <3>1. \A i \in 1..n : lines[i] \in LineNames
      BY DEF FormTexts
    <3> QED BY <3>1 DEF Plainly, ShownLines
  <2>3. out \in ShownTexts /\ Len(out) = n /\ \A i \in 1..n : out[i] = Plainly(lines[i])
    BY <1>1, <2>1, <2>2 DEF ShownTexts
  <2>4. /\ Forms(out) \in FormTexts /\ Len(Forms(out)) = n
        /\ \A i \in 1..n : Forms(out)[i] = out[i].form
    BY <2>3, FormsOf
  <2>5. \A i \in 1..n : Forms(out)[i] = lines[i]
    BY <2>2, <2>3, <2>4
  <2>6. Forms(out) = lines
    BY <2>4, <2>5, SameForms
  <2> QED BY <2>3, <2>6 DEF SameReading, out
<1> QED BY <1>8, <1>9, <1>10 DEF out, DetailStates

\* What the walk of the mentions knows of the first k lines.
PingedSoFar(lines, acc, k) ==
  /\ acc.triple = InBlock(Forms(lines))[k]
  /\ \A j \in acc.at : j \in 1..k /\ ~IsCode(Forms(lines), j)

\* One line more.
LEMMA PingedOn ==
  ASSUME NEW lines \in ShownTexts, NEW i \in 1..Len(lines), NEW acc \in MentionStates,
         PingedSoFar(lines, acc, i - 1)
  PROVE  PingedSoFar(lines, MentionStep(lines, acc, i), i)
<1> DEFINE moved == MentionStep(lines, acc, i)
           form == lines[i].form
           F == Forms(lines)
<1>1. /\ F \in FormTexts /\ Len(F) = Len(lines) /\ F[i] = form
  BY FormsOf
<1>2. Len(lines) \in Nat /\ i \in Nat /\ acc.triple \in BOOLEAN
  BY DEF ShownTexts, MentionStates
<1>3. InBlock(F)[i] = BlockStep(InBlock(F)[i - 1], form)
  <2>1. i \in 1..Len(F)
    BY <1>1
  <2>2. InBlock(F)[i] = BlockStep(InBlock(F)[i - 1], F[i])
    BY <1>1, <2>1, ReadLineOf
  <2> QED BY <1>1, <2>2
<1>4. /\ acc.triple = InBlock(F)[i - 1]
      /\ \A j \in acc.at : j \in 1..(i - 1) /\ ~IsCode(F, j)
  BY DEF PingedSoFar
<1>5. /\ moved.triple = BlockStep(acc.triple, form)
      /\ \/ moved.at = acc.at
         \/ form = "words" /\ ~acc.triple /\ moved.at = acc.at \cup {i}
  <2>1. CASE form = "fence"
    <3>1. moved = [acc EXCEPT !.triple = ~@, !.inline = FALSE]
      BY <2>1 DEF MentionStep
    <3> HIDE DEF moved
    <3>2. moved.triple = ~acc.triple /\ moved.at = acc.at
      BY <3>1 DEF MentionStates
    <3> QED BY <2>1, <3>2 DEF BlockStep
  <2>2. CASE form = "tick" /\ ~acc.triple
    <3>1. moved = [acc EXCEPT !.inline = ~@]
      BY <2>2 DEF MentionStep
    <3> HIDE DEF moved
    <3>2. moved.triple = acc.triple /\ moved.at = acc.at
      BY <3>1 DEF MentionStates
    <3> QED BY <2>2, <3>2 DEF BlockStep
  <2>3. CASE form = "words" /\ ~acc.triple /\ ~acc.inline
    <3>1. moved = [acc EXCEPT !.at = @ \cup {i}]
      BY <2>3 DEF MentionStep
    <3> HIDE DEF moved
    <3>2. moved.triple = acc.triple /\ moved.at = acc.at \cup {i}
      BY <3>1 DEF MentionStates
    <3> QED BY <2>3, <3>2 DEF BlockStep
  <2>4. CASE form # "fence" /\ ~(form = "tick" /\ ~acc.triple)
             /\ ~(form = "words" /\ ~acc.triple /\ ~acc.inline)
    <3>1. moved = acc
      BY <2>4 DEF MentionStep
    <3> QED BY <2>4, <3>1 DEF BlockStep
  <2> QED BY <2>1, <2>2, <2>3, <2>4
<1> HIDE DEF moved, form, F
<1>6. moved.triple = InBlock(F)[i]
  BY <1>3, <1>4, <1>5
<1>7. \A j \in acc.at : j \in 1..i /\ ~IsCode(F, j)
  <2>1. \A j \in 1..(i - 1) : j \in 1..i
    BY <1>2
  <2> QED BY <1>4, <2>1
<1>8. form = "words" /\ ~acc.triple => i \in 1..i /\ ~IsCode(F, i)
  <2> SUFFICES ASSUME form = "words", ~acc.triple PROVE i \in 1..i /\ ~IsCode(F, i)
    OBVIOUS
  <2>1. InBlock(F)[i] = acc.triple
    BY <1>3, <1>4 DEF BlockStep
  <2>2. i \in 1..i
    BY <1>2
  <2> QED BY <2>1, <2>2 DEF IsCode
<1>9. \A j \in moved.at : j \in 1..i /\ ~IsCode(F, j)
  BY <1>5, <1>7, <1>8
<1> QED BY <1>6, <1>9 DEF PingedSoFar, moved, F

\* No line of code gets a mention.
LEMMA CodePingsNobody ==
  ASSUME NEW lines \in ShownTexts
  PROVE  \A i \in Mentions(lines) : ~IsCode(Forms(lines), i)
<1> DEFINE n == Len(lines)
           start == [at |-> {}, triple |-> FALSE, inline |-> FALSE]
<1>1. n \in Nat
  BY DEF ShownTexts
<1>2. PICK c \in [0..n -> MentionStates] :
        /\ Mentions(lines) = c[n].at
        /\ c[0] = start
        /\ \A i \in 1..n : c[i] = MentionStep(lines, c[i - 1], i)
  BY MentionsWalks
<1> DEFINE S == {k \in 0..n : PingedSoFar(lines, c[k], k)}
<1>3. 0 \in S
  <2>1. start.triple = FALSE /\ start.at = {}
    OBVIOUS
  <2>2. InBlock(Forms(lines))[0] = FALSE
    BY FormsOf, ReadLineOf
  <2> HIDE DEF start
  <2>3. PingedSoFar(lines, start, 0)
    BY <2>1, <2>2 DEF PingedSoFar
  <2> QED BY <1>1, <1>2, <2>3
<1>4. ASSUME NEW k \in 0..n, k < n, k \in S PROVE k + 1 \in S
  <2>1. k + 1 \in 1..n /\ (k + 1) - 1 = k /\ k \in 0..n
    BY <1>1, <1>4
  <2>2. c[k] \in MentionStates /\ PingedSoFar(lines, c[k], (k + 1) - 1)
    BY <1>2, <1>4, <2>1
  <2>3. PingedSoFar(lines, MentionStep(lines, c[k], k + 1), k + 1)
    BY <2>1, <2>2, PingedOn
  <2>4. c[k + 1] = MentionStep(lines, c[k], k + 1)
    <3>1. c[k + 1] = MentionStep(lines, c[(k + 1) - 1], k + 1)
      BY <1>2, <2>1
    <3> QED BY <2>1, <3>1
  <2> QED BY <1>1, <2>1, <2>3, <2>4
<1> HIDE DEF S
<1>5. \A k \in 0..n : k \in S
  BY <1>1, <1>3, <1>4, WalkInduction
<1>6. PingedSoFar(lines, c[n], n)
  <2>1. n \in 0..n
    BY <1>1
  <2> QED BY <1>5, <2>1 DEF S
<1> QED BY <1>2, <1>6 DEF PingedSoFar

\* The lines of a text that offer a button, and those of its reading.
Offering(x) == {j \in 1..Len(x) : x[j] = "words" /\ ~IsCode(x, j)}
Offered(b) == {n \in 1..Len(b) : b[n].form = "words" /\ ~b[n].code}

\* One line more of a reading.
LEMMA OfferedOn ==
  ASSUME NEW b \in Seq(BodyLines), NEW e \in BodyLines
  PROVE  /\ Cardinality(Offered(b)) \in Nat
         /\ Cardinality(Offered(Append(b, e))) =
              IF e.form = "words" /\ ~e.code THEN Cardinality(Offered(b)) + 1
              ELSE Cardinality(Offered(b))
<1> DEFINE y == Append(b, e)
           n == Len(b)
           A == Offered(b)
           B == Offered(y)
<1>1. n \in Nat /\ Len(y) = n + 1 /\ y[n + 1] = e /\ \A k \in 1..n : y[k] = b[k]
  BY AppendProperties
<1>2. IsFiniteSet(A) /\ Cardinality(A) \in Nat
  <2>1. IsFiniteSet(1..n)
    BY <1>1, FS_Interval
  <2>2. A \in SUBSET (1..n)
    BY DEF Offered
  <2> HIDE DEF A
  <2> QED BY <2>1, <2>2, FS_Subset, FS_CardinalityType
<1> HIDE DEF y
<1>3. \A k \in 1..n : k \in A <=> k \in B
  <2>1. \A k \in 1..n : k \in 1..Len(y)
    BY <1>1
  <2> QED BY <1>1, <2>1 DEF Offered
<1>4. n + 1 \notin A /\ (n + 1 \in B <=> e.form = "words" /\ ~e.code)
  BY <1>1 DEF Offered
<1>5. (\A k \in A : k \in 1..n) /\ \A k \in B : k \in 1..n \/ k = n + 1
  BY <1>1 DEF Offered
<1> HIDE DEF A, B, n
<1>6. CASE n + 1 \in B
  <2>1. B = A \cup {n + 1}
    BY <1>3, <1>5, <1>6
  <2>2. Cardinality(B) = Cardinality(A) + 1
    BY <1>2, <1>4, <2>1, FS_AddElement
  <2> QED BY <1>2, <1>4, <1>6, <2>2 DEF A, B, y
<1>7. CASE n + 1 \notin B
  <2>1. B = A
    BY <1>3, <1>5, <1>7
  <2> QED BY <1>2, <1>4, <1>7, <2>1 DEF A, B, y
<1> QED BY <1>6, <1>7

\* The lines that offer a button are as many as those of the reading.
LEMMA OffersAreRead ==
  ASSUME NEW x \in FormTexts
  PROVE  Cardinality(Offering(x)) = Cardinality(Offered(Bodies(x)[Len(x)]))
<1> DEFINE n == Len(x)
           C == Offering(x)
           Read(k) == Cardinality(Offered(Bodies(x)[k]))
           S == {k \in 0..n : CountTo(C, k) = Read(k)}
<1>1. n \in Nat /\ C \in SUBSET (1..n)
  BY DEF FormTexts, Offering
<1>2. CountTo(C, 0) = 0 /\ CountTo(C, n) = Cardinality(C)
  <2> HIDE DEF C, n
  <2> QED BY <1>1, CountedAll
<1>3. 0 \in S
  <2>1. Bodies(x)[0] = <<>> /\ Len(<<>>) = 0
    BY ReadLineOf
  <2>2. Offered(<<>>) = {}
    BY <2>1 DEF Offered
  <2>3. Read(0) = 0
    BY <2>1, <2>2, FS_EmptySet
  <2> HIDE DEF C, n, Read
  <2> QED BY <1>1, <1>2, <2>3
<1>4. ASSUME NEW k \in 0..n, k < n, k \in S PROVE k + 1 \in S
  <2> DEFINE i == k + 1
             b == Bodies(x)[k]
             now == InBlock(x)[i]
             form == x[i]
  <2>1. i \in 1..n /\ i - 1 = k /\ k \in 0..n /\ i \in 0..n /\ i <= n
    BY <1>1, <1>4
  <2>2. b \in Seq(BodyLines) /\ now \in BOOLEAN /\ Bodies(x)[i] = BodyStep(b, form, now)
    <3>1. Bodies(x)[i] = BodyStep(Bodies(x)[i - 1], x[i], InBlock(x)[i])
      BY <2>1, ReadLineOf
    <3>2. Bodies(x)[k] \in Seq(BodyLines) /\ InBlock(x)[i] \in BOOLEAN
      BY <2>1, ReadLineOf DEF YesNo
    <3> QED BY <2>1, <3>1, <3>2
  <2>3. CountTo(C, k) = Read(k)
    BY <1>4
  <2>4. /\ CountTo(C, k) \in Nat
        /\ CountTo(C, i) = IF i \in C THEN CountTo(C, k) + 1 ELSE CountTo(C, k)
    <3> HIDE DEF C, n, Read
    <3>1. k + 1 <= n
      BY <2>1
    <3> QED BY <1>1, <2>1, <3>1, CountedOn
  <2>5. i \in C <=> form = "words" /\ ~now
    BY <2>1 DEF Offering, IsCode
  <2>6. Read(i) = IF form = "words" /\ ~now THEN Read(k) + 1 ELSE Read(k)
    <3>1. CASE form \notin {"words", "tick", "row", "escaped"}
      <4>1. Bodies(x)[i] = b
        BY <2>2, <3>1 DEF BodyStep
      <4> QED BY <3>1, <4>1
    <3>2. CASE form \in {"words", "tick", "row", "escaped"}
      <4> DEFINE e == [form |-> form, code |-> now]
      <4>1. e \in BodyLines /\ e.form = form /\ e.code = now
        BY <2>2, <3>2 DEF BodyLines
      <4>2. Bodies(x)[i] = Append(b, e)
        BY <2>2, <3>2 DEF BodyStep
      <4> HIDE DEF b, e, form, now
      <4>3. Cardinality(Offered(Append(b, e))) =
              IF e.form = "words" /\ ~e.code THEN Cardinality(Offered(b)) + 1
              ELSE Cardinality(Offered(b))
        BY <2>2, <4>1, OfferedOn
      <4> QED BY <4>1, <4>2, <4>3 DEF b
    <3> QED BY <3>1, <3>2
  <2> HIDE DEF C, Read, form, now
  <2>7. CountTo(C, i) = Read(i)
    BY <2>3, <2>4, <2>5, <2>6
  <2> QED BY <2>1, <2>7
<1> HIDE DEF S
<1>5. \A k \in 0..n : k \in S
  BY <1>1, <1>3, <1>4, WalkInduction
<1>6. CountTo(C, n) = Read(n)
  <2>1. n \in 0..n
    BY <1>1
  <2> HIDE DEF C, Read, n
  <2> QED BY <1>5, <2>1 DEF S
<1> QED BY <1>2, <1>6

\* Readings that agree offer the same.
LEMMA SameOffers ==
  ASSUME NEW b \in Seq(BodyLines), NEW a \in Seq(BodyLines), Agrees(b, a)
  PROVE  Offered(b) = Offered(a)
<1>1. Len(b) = Len(a) /\ Len(b) \in Nat
  BY DEF Agrees
<1>2. ASSUME NEW n \in 1..Len(b) PROVE n \in Offered(b) <=> n \in Offered(a)
  BY <1>1 DEF Agrees, Offered
<1>3. Offered(b) \in SUBSET (1..Len(b)) /\ Offered(a) \in SUBSET (1..Len(b))
  BY <1>1 DEF Offered
<1> QED BY <1>2, <1>3

\* What the conversions make of one text.
Cleaned(lines) == ExtractFileMarkers(lines).out
Tabled(lines) == ConvertMarkdownTables(Cleaned(lines))
Rendered(lines) == ConvertHtmlDetails(Tabled(lines))

\* The three conversions together keep the reading of a text.
LEMMA RenderedReads ==
  ASSUME NEW lines \in FormTexts,
         \A j \in 1..Len(lines) : lines[j] \notin {"open_marker", "details_whole"}
  PROVE  /\ Rendered(lines) \in ShownTexts
         /\ ReadsLike(lines, Len(lines), Forms(Rendered(lines)), Len(Rendered(lines)))
<1> DEFINE u == Cleaned(lines)
           v == Tabled(lines)
           w == Rendered(lines)
<1>1. /\ u \in FormTexts /\ Len(u) = Len(lines)
      /\ SameReading(lines, Len(lines), u, Len(u))
      /\ \A j \in 1..Len(u) : u[j] = lines[j] \/ u[j] = "blank"
  BY MarkersKeep DEF Cleaned
<1> HIDE DEF u
<1>2. \A j \in 1..Len(u) : u[j] # "details_whole"
  BY <1>1
<1>3. /\ v \in FormTexts /\ ReadsLike(u, Len(u), v, Len(v))
      /\ \A j \in 1..Len(v) : v[j] # "details_whole"
  <2>1. v = ConvertMarkdownTables(u)
    BY DEF u, Tabled
  <2> HIDE DEF v
  <2> QED BY <1>1, <1>2, <2>1, TablesKeep
<1> HIDE DEF v
<1>4. w \in ShownTexts /\ SameReading(v, Len(v), Forms(w), Len(w))
  <2>1. w = ConvertHtmlDetails(v)
    BY DEF v, Rendered
  <2> HIDE DEF w
  <2> QED BY <1>3, <2>1, DetailsKeep
<1> HIDE DEF w
<1>5. ReadsLike(lines, Len(lines), v, Len(v))
  BY <1>1, <1>3, SameIsAlike
<1>6. ReadsLike(lines, Len(lines), Forms(w), Len(w))
  BY <1>4, <1>5, SameIsAlike
<1> QED BY <1>4, <1>6 DEF w

\* Whatever a text is, its conversion is one.
LEMMA RenderedIsShown ==
  ASSUME NEW lines \in FormTexts
  PROVE  /\ Rendered(lines) \in ShownTexts
         /\ ExtractFileMarkers(lines).paths \in FormTexts
<1>1. ExtractFileMarkers(lines) \in MarkStates
  <2>1. PICK c \in [0..Len(lines) -> MarkStates] : ExtractFileMarkers(lines) = c[Len(lines)]
    BY MarkersWalks
  <2>2. Len(lines) \in 0..Len(lines)
    BY DEF FormTexts
  <2> QED BY <2>1, <2>2
<1>2. Cleaned(lines) \in FormTexts /\ ExtractFileMarkers(lines).paths \in FormTexts
  BY <1>1 DEF Cleaned, MarkStates
<1> DEFINE u == Cleaned(lines)
           v == Tabled(lines)
<1>3. v \in FormTexts
  <2>0. u \in FormTexts /\ v = ConvertMarkdownTables(u)
    BY <1>2 DEF Tabled
  <2> HIDE DEF u, v
  <2>1. PICK c \in [0..Len(u) -> TableStates] : ConvertMarkdownTables(u) = c[Len(u)].out
    BY <2>0, TablesWalks
  <2>2. Len(u) \in 0..Len(u)
    BY <2>0 DEF FormTexts
  <2>3. c[Len(u)] \in TableStates
    BY <2>1, <2>2
  <2> QED BY <2>0, <2>1, <2>3 DEF TableStates
<1>4. Rendered(lines) = ConvertHtmlDetails(v)
  BY DEF Rendered
<1> HIDE DEF v
<1>5. ConvertHtmlDetails(v) \in ShownTexts
  <2>1. PICK c \in [0..Len(v) -> DetailStates] :
          ConvertHtmlDetails(v) =
            IF c[Len(v)].inside THEN [i \in DOMAIN v |-> Plainly(v[i])] ELSE c[Len(v)].out
    BY <1>3, DetailsWalks
  <2>2. Len(v) \in Nat /\ DOMAIN v = 1..Len(v) /\ \A i \in 1..Len(v) : v[i] \in LineNames
    BY <1>3 DEF FormTexts
  <2>3. c[Len(v)].out \in ShownTexts
    <3>1. c[Len(v)] \in DetailStates
      BY <2>1, <2>2
    <3> QED BY <3>1 DEF DetailStates
  <2>4. [i \in DOMAIN v |-> Plainly(v[i])] \in ShownTexts
    <3>1. \A i \in 1..Len(v) : Plainly(v[i]) \in ShownLines
      BY <2>2 DEF Plainly, ShownLines
    <3>2. [i \in 1..Len(v) |-> Plainly(v[i])] \in Seq(ShownLines)
      BY <2>2, <3>1
    <3> QED BY <2>2, <3>2 DEF ShownTexts
  <2> QED BY <2>1, <2>3, <2>4
<1> QED BY <1>2, <1>4, <1>5

\* What the thread is told of a file.
PostWords == {"attached", "send_failed", "refused"}

\* The inductive invariant: a converted text is shown as its conversion.
TextInd ==
  /\ text \in Seq(LineForms) /\ Len(text) <= MaxTextLines
  /\ converted \in BOOLEAN
  /\ converted => shown = Rendered(text) /\ files = ExtractFileMarkers(text).paths
  /\ ~converted => files = <<>>
  /\ Len(files) \in Nat
  /\ posts \in Seq(PostWords) /\ Len(posts) <= Len(files)

\* A text as it is written is one of those.
LEMMA TextsAreRead ==
  ASSUME NEW lines \in Seq(LineForms)
  PROVE  lines \in FormTexts
BY DEF FormTexts, LineNames

\* It holds in every state.
LEMMA TextIndHolds == TextSpec => []TextInd
<1>1. TextInit => TextInd
  <2> SUFFICES ASSUME TextInit PROVE TextInd
    OBVIOUS
  <2>1. text = <<>> /\ converted = FALSE /\ files = <<>> /\ posts = <<>>
    BY DEF TextInit
  <2>2. <<>> \in Seq(LineForms) /\ <<>> \in Seq(PostWords) /\ Len(<<>>) = 0
    OBVIOUS
  <2>3. MaxTextLines \in Nat
    BY TextAssumption
  <2>4. text \in Seq(LineForms) /\ Len(text) = 0
    BY <2>1, <2>2
  <2>5. posts \in Seq(PostWords) /\ Len(posts) = 0 /\ Len(files) = 0
    BY <2>1, <2>2
  <2>6. Len(text) <= MaxTextLines /\ Len(posts) <= Len(files) /\ Len(files) \in Nat
    BY <2>3, <2>4, <2>5
  <2> QED BY <2>1, <2>4, <2>5, <2>6 DEF TextInd
<1>2. TextInd /\ [TextNext]_textVars => TextInd'
  <2> SUFFICES ASSUME TextInd, [TextNext]_textVars PROVE TextInd'
    OBVIOUS
  <2>1. ASSUME NEW form \in LineForms, Say(form) PROVE TextInd'
    <3>1. text' \in Seq(LineForms) /\ Len(text') = Len(text) + 1 /\ Len(text) \in Nat
      BY <2>1 DEF Say, TextInd
    <3>2. Len(text') <= MaxTextLines
      BY <2>1, <3>1, TextAssumption DEF Say
    <3> QED BY <2>1, <3>1, <3>2 DEF Say, TextInd
  <2>2. CASE Convert
    <3>1. /\ shown' = Rendered(text) /\ files' = ExtractFileMarkers(text).paths
          /\ converted' = TRUE /\ text' = text /\ posts' = posts
          /\ ~converted
      BY <2>2 DEF Convert, Rendered, Tabled, Cleaned
    <3>2. text \in FormTexts
      BY TextsAreRead DEF TextInd
    <3>3. Len(files') \in Nat
      BY <3>1, <3>2, RenderedIsShown DEF FormTexts
    <3>4. posts \in Seq(PostWords) /\ Len(posts) = 0
      <4>1. files = <<>> /\ posts \in Seq(PostWords) /\ Len(posts) <= Len(files)
        BY <3>1 DEF TextInd
      <4> QED BY <4>1
    <3>5. shown' = Rendered(text') /\ files' = ExtractFileMarkers(text').paths
      BY <3>1
    <3> QED BY <3>1, <3>3, <3>4, <3>5 DEF TextInd
  <2>3. ASSUME NEW fate \in {"attached", "refused"}, NEW accepted \in BOOLEAN,
               PostFile(fate, accepted)
        PROVE  TextInd'
    <3> DEFINE word == IF fate = "attached" /\ ~accepted THEN "send_failed" ELSE fate
    <3>1. /\ posts' = Append(posts, word) /\ word \in PostWords /\ Len(posts) < Len(files)
          /\ UNCHANGED <<text, converted, shown, files>>
      BY <2>3 DEF PostFile, PostWords
    <3> HIDE DEF word
    <3>2. posts' \in Seq(PostWords) /\ Len(posts') = Len(posts) + 1 /\ Len(posts) \in Nat
      BY <3>1 DEF TextInd
    <3>3. Len(posts') <= Len(files)
      BY <3>1, <3>2 DEF TextInd
    <3> QED BY <3>1, <3>2, <3>3 DEF TextInd
  <2>4. CASE UNCHANGED textVars
    BY <2>4 DEF textVars, TextInd
  <2> QED BY <2>1, <2>2, <2>3, <2>4 DEF TextNext
<1> QED BY <1>1, <1>2, PTL DEF TextSpec

\* The state of the conversion stays in its type (TextTypeOK): a text is posted no
\* more files than it names.
THEOREM TextStaysTyped == TextSpec => []TextTypeOK
<1>1. TextInd => TextTypeOK
  <2> SUFFICES ASSUME TextInd PROVE TextTypeOK
    OBVIOUS
  <2>1. posts \in Seq(PostWords)
    BY DEF TextInd
  <2>2. \A i \in DOMAIN posts : posts[i] \in {"attached", "send_failed", "refused"}
    BY <2>1 DEF PostWords
  <2> QED BY <2>2 DEF TextInd, TextTypeOK
<1> QED BY <1>1, TextIndHolds, PTL

\* The five parts of ConversionKeepsText, of any text.
LEMMA TextIndKeeps ==
  ASSUME TextInd
  PROVE  ConversionKeepsText
<1> SUFFICES ASSUME converted PROVE ConversionKeepsText
  BY DEF ConversionKeepsText, NoLineIsLost, FencesStayClosed, NoPingFromCode, NoFileFromCode,
         ButtonsAreShown
<1> DEFINE n == Len(text)
           F == Forms(shown)
           m == Len(shown)
           before == Bodies(text)[n]
           after == Bodies(F)[m]
<1>1. /\ text \in FormTexts /\ shown = Rendered(text)
      /\ files = ExtractFileMarkers(text).paths
  BY TextsAreRead DEF TextInd
<1>2. shown \in ShownTexts
  BY <1>1, RenderedIsShown
<1>3. /\ F \in FormTexts /\ Len(F) = m /\ m \in Nat /\ n \in Nat
      /\ DOMAIN text = 1..n /\ DOMAIN shown = 1..m
      /\ \A k \in 1..m : F[k] = shown[k].form
  BY <1>1, <1>2, FormsOf DEF FormTexts, ShownTexts
<1>4. \A x : x \notin Range(text) => \A j \in 1..n : text[j] # x
  BY <1>3 DEF Range
<1>5. WholeMarkers => \A j \in 1..n : text[j] \notin {"open_marker", "details_whole"}
  BY <1>4 DEF WholeMarkers
<1> HIDE DEF F, n, m
<1>6. WholeMarkers => ReadsLike(text, n, F, m)
  <2> SUFFICES ASSUME WholeMarkers PROVE ReadsLike(text, n, F, m)
    OBVIOUS
  <2>1. \A j \in 1..Len(text) : text[j] \notin {"open_marker", "details_whole"}
    BY <1>5 DEF n
  <2>2. ReadsLike(text, Len(text), Forms(Rendered(text)), Len(Rendered(text)))
    BY <1>1, <2>1, RenderedReads
  <2> QED BY <1>1, <2>2 DEF n, F, m
<1>7. before \in Seq(BodyLines) /\ after \in Seq(BodyLines)
  <2>1. n \in 0..n /\ m \in 0..m
    BY <1>3
  <2> QED BY <1>1, <1>3, <2>1, ReadLineOf DEF n
<1>8. WholeMarkers => Agrees(before, after) /\ InBlock(F)[m] = InBlock(text)[n]
  BY <1>6 DEF ReadsLike
<1> HIDE DEF before, after
<1>9. NoLineIsLost
  <2> SUFFICES ASSUME WholeMarkers
               PROVE  /\ Len(before) = Len(after)
                      /\ \A k \in DOMAIN before :
                           /\ before[k].form = after[k].form
                           /\ before[k].code => after[k].code
                           /\ after[k].code =>
                                before[k].code \/ before[k].form \in {"row", "escaped"}
    BY DEF NoLineIsLost, before, after, F, n, m
  <2>1. Agrees(before, after)
    BY <1>8
  <2>2. DOMAIN before = 1..Len(before)
    BY <1>7
  <2> QED BY <2>1, <2>2 DEF Agrees
<1>10. FencesStayClosed
  BY <1>8 DEF FencesStayClosed, F, n, m
<1>11. NoPingFromCode
  BY <1>2, CodePingsNobody DEF NoPingFromCode
<1>12. NoFileFromCode
  <2> SUFFICES ASSUME WholeMarkers, "tick" \notin Range(text)
               PROVE  Len(files) =
                        Cardinality({i \in DOMAIN text : text[i] = "marker" /\ ~IsCode(text, i)})
    BY DEF NoFileFromCode
  <2>1. \A j \in 1..Len(text) : text[j] \notin {"open_marker", "tick"}
    BY <1>4, <1>5 DEF n
  <2>2. Len(files) = Cardinality(Attached(text))
    BY <1>1, <2>1, FilesKeep
  <2> QED BY <1>3, <2>2 DEF Attached, n
<1>13. ButtonsAreShown
  <2> SUFFICES ASSUME WholeMarkers
               PROVE  Cardinality(NextSteps(text)) =
                        Cardinality({i \in DOMAIN shown : shown[i].form = "words" /\ ~IsCode(F, i)})
    BY DEF ButtonsAreShown, F
  <2>1. Offered(before) = Offered(after)
    BY <1>7, <1>8, SameOffers
  <2>2. Cardinality(Offering(text)) = Cardinality(Offered(before))
    BY <1>1, OffersAreRead DEF before, n
  <2>3. Cardinality(Offering(F)) = Cardinality(Offered(after))
    BY <1>3, OffersAreRead DEF after
  <2>4. NextSteps(text) = Offering(text)
    BY <1>3 DEF NextSteps, Offering, n
  <2>5. {i \in DOMAIN shown : shown[i].form = "words" /\ ~IsCode(F, i)} = Offering(F)
    BY <1>3 DEF Offering
  <2> QED BY <2>1, <2>2, <2>3, <2>4, <2>5
<1> QED BY <1>9, <1>10, <1>11, <1>12, <1>13 DEF ConversionKeepsText

\* Converting a text of any length (format_response and the walks over what it shows):
\* no mention is taken from code, and of a text with whole markers, no details on one
\* line and, for its files, no lone backtick, every line and every block of code is kept,
\* and its files and buttons are those named outside of code (ConversionKeepsText).
THEOREM TextStaysWhole == TextSpec => []ConversionKeepsText
<1>1. TextInd => ConversionKeepsText
  BY TextIndKeeps
<1> QED BY <1>1, TextIndHolds, PTL

\* Both halves of TextIsKept: a text of any length keeps what its conversion must keep,
\* and its messages keep near the limit.
THEOREM AnswersStayWhole == TextSpec /\ SplitSpec => []TextIsKept
<1>1. ConversionKeepsText /\ MessagesNearTheLimit => TextIsKept
  BY DEF TextIsKept
<1> QED BY <1>1, TextStaysWhole, MessagesStaySmall, PTL
-----------------------------------------------------------------------------
\* The components of MCOutput.

\* A step of MCOutput is one of each of these five components, or leaves it alone.
LEMMA ShownMove ==
  ASSUME [MCNext]_allVars
  PROVE  /\ [OutputNext]_outputVars /\ [ParserNext]_parserVars /\ [TextNext]_textVars
         /\ [RowsNext]_rowsVars /\ [MentionNext]_mentionVars
<1>1. CASE UNCHANGED allVars  BY <1>1 DEF allVars
<1>2. CASE MCNext
  <2>1. [OutputNext]_outputVars  BY <1>2 DEF MCNext, Moves, Rests
  <2>2. [ParserNext]_parserVars  BY <1>2 DEF MCNext, Moves, Rests
  <2>3. [TextNext]_textVars  BY <1>2 DEF MCNext, Moves, Rests
  <2>4. [RowsNext]_rowsVars  BY <1>2 DEF MCNext, Moves, Rests
  <2>5. [MentionNext]_mentionVars  BY <1>2 DEF MCNext, Moves, Rests
  <2>. QED  BY <2>1, <2>2, <2>3, <2>4, <2>5
<1>. QED  BY <1>1, <1>2

\* The turns' output, the lines of Claude, the texts, the rows of a channel and the names of
\* its members keep to the values their modules name, whichever of them moves (message/,
\* stream parser, formatter.rs, the database, mention_cache).
THEOREM ShownIsTyped == MCSpec => []ShownTypeOK
<1>1. MCInit => /\ OutputInit /\ TextInit
                /\ part = "parse" => ParserInit
                /\ part = "rows" => RowsInit
                /\ part = "names" => MentionInit
  BY DEF MCInit
<1>2. [MCNext]_allVars => /\ [OutputNext]_outputVars /\ [ParserNext]_parserVars
                          /\ [TextNext]_textVars /\ [RowsNext]_rowsVars
                          /\ [MentionNext]_mentionVars
  BY ShownMove
<1>3. [MCNext]_allVars => /\ ~(part = "parse") => (~(part = "parse"))'
                          /\ ~(part = "rows") => (~(part = "rows"))'
                          /\ ~(part = "names") => (~(part = "names"))'
  BY DEF MCNext, allVars
<1>4. MCSpec => OutputSpec /\ TextSpec
  BY <1>1, <1>2, PTL DEF MCSpec, OutputSpec, TextSpec
<1>5. MCSpec => ParserSpec \/ [](~(part = "parse"))
  BY <1>1, <1>2, <1>3, PTL DEF MCSpec, ParserSpec
<1>6. MCSpec => RowsSpec \/ [](~(part = "rows"))
  BY <1>1, <1>2, <1>3, PTL DEF MCSpec, RowsSpec
<1>7. MCSpec => MentionSpec \/ [](~(part = "names"))
  BY <1>1, <1>2, <1>3, PTL DEF MCSpec, MentionSpec
<1>8. RowsInd => RowsTypeOK  BY DEF RowsInd, RowTypes
<1>9. ASSUME OutputTypeOK, TextTypeOK,
             ParserTypeOK \/ ~(part = "parse"), RowsTypeOK \/ ~(part = "rows"),
             MentionTypeOK \/ ~(part = "names")
      PROVE  ShownTypeOK
  BY <1>9 DEF ShownTypeOK
<1>. QED
  BY <1>4, <1>5, <1>6, <1>7, <1>8, <1>9, OutputTypes, TextStaysTyped, LinesStayTyped,
     RowsInvariant, MentionsStayTyped, PTL
=============================================================================
