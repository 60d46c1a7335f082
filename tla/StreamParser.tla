---------------------------- MODULE StreamParser ----------------------------
(***************************************************************************)
(* From a line of stream-json to a StreamEvent (subprocess/parser/), and   *)
(* back to the control_response of a request.                              *)
(*                                                                         *)
(* A line is its tags, the shape of the JSON value each of its fields has, *)
(* and the blocks of its content.  It is printed the way Claude usually    *)
(* prints it; then up to MaxOdd fields take another shape.  A struct that  *)
(* is written as an array of its fields is left out.                       *)
(***************************************************************************)
EXTENDS Naturals, Sequences, SequencesExt, FiniteSets, Functions

CONSTANTS MaxOdd,     \* bound: fields and tags of a line in an unusual shape
          MaxBlocks,  \* bound: blocks of the content of a line
          U64Max      \* the greatest token count

ASSUME ParserAssumption == MaxOdd \in Nat /\ MaxBlocks \in Nat /\ U64Max \in Nat \ {0}

VARIABLES line,      \* the line under way
          event,     \* what parse_line made of it
          response   \* the control_response written for it

parserVars == <<line, event, response>>

Shapes == {"absent", "null", "string", "one", "max", "negative", "bool", "array", "object"}

\* The lenient deserializers keep these shapes and turn any other into a default.
Kept ==
  [string |-> {"string"}, bool |-> {"bool"}, u64 |-> {"one", "max"}, u32 |-> {"one", "max"},
   f64 |-> {"one", "max", "negative"}, strings |-> {"array"}, value |-> Shapes,
   opt_string |-> {"string"}, opt_bool |-> {"bool"}, opt_u64 |-> {"one", "max"},
   opt_f64 |-> {"one", "max", "negative"},
   strict_string |-> {"string"}, strict_u64 |-> {"one", "max"},
   struct |-> {"object"}, opt_struct |-> {"object"}, map |-> {"object"}, blocks |-> {"array"}]

\* A plausible bug: the optional fields are read by serde itself.
FatalByType(reader) ==
  CASE reader \in {"struct", "blocks"} -> Shapes \ (Kept[reader] \cup {"absent"})
    [] reader \in {"opt_string", "opt_bool", "opt_u64", "opt_f64", "opt_struct", "map",
                   "strict_string", "strict_u64"} ->
         Shapes \ (Kept[reader] \cup {"absent", "null"})
    [] OTHER -> {}

\* A field that serde reads itself fails the whole line on any other shape, but for
\* one that is absent or, under an Option, null.
Fatal(reader) ==
  CASE reader \in {"struct", "blocks"} -> Shapes \ (Kept[reader] \cup {"absent"})
    [] reader \in {"opt_struct", "map", "strict_string", "strict_u64"} ->
         Shapes \ (Kept[reader] \cup {"absent", "null"})
    [] OTHER -> {}
-----------------------------------------------------------------------------
(* The fields of each kind of line and what reads them. *)

InitFields ==
  [session_id |-> "string", cwd |-> "string", tools |-> "strings", model |-> "string",
   skills |-> "strings"]
AssistantFields == [session_id |-> "string", message |-> "struct", content |-> "blocks"]
UserFields ==
  [session_id |-> "string", message |-> "struct", content |-> "blocks",
   isReplay |-> "bool", timestamp |-> "opt_string"]
RateLimitFields ==
  [session_id |-> "string", rate_limit_info |-> "opt_struct", status |-> "string",
   resetsAt |-> "opt_u64", rateLimitType |-> "opt_string", utilization |-> "opt_f64",
   isUsingOverage |-> "opt_bool"]
ResultFields ==
  [subtype |-> "string", session_id |-> "string", is_error |-> "bool",
   result |-> "strict_string", errors |-> "strings", duration_ms |-> "u64",
   total_cost_usd |-> "f64", num_turns |-> "u32",
   usage |-> "opt_struct", input_tokens |-> "u64", output_tokens |-> "u64",
   cache_creation_input_tokens |-> "u64", cache_read_input_tokens |-> "u64",
   modelUsage |-> "map", contextWindow |-> "u64"]
ControlRequestFields ==
  [request_id |-> "string", request |-> "struct", tool_name |-> "string",
   tool_use_id |-> "string", input |-> "value", decision_reason |-> "opt_string"]
TaskStartedFields ==
  [task_id |-> "string", tool_use_id |-> "string", description |-> "string",
   task_type |-> "string", session_id |-> "string"]
TaskProgressFields ==
  [task_id |-> "string", tool_use_id |-> "string", description |-> "string",
   last_tool_name |-> "strict_string", session_id |-> "string"]
TaskNotificationFields ==
  [task_id |-> "string", tool_use_id |-> "string", status |-> "string",
   summary |-> "string", output_file |-> "strict_string", session_id |-> "string"]
CompactBoundaryFields ==
  [session_id |-> "string", compact_metadata |-> "opt_struct",
   pre_tokens |-> "strict_u64", trigger |-> "strict_string"]

Fields ==
  [assistant |-> AssistantFields, user |-> UserFields, rate_limit_event |-> RateLimitFields,
   result |-> ResultFields, control_request |-> ControlRequestFields, init |-> InitFields,
   task_started |-> TaskStartedFields, task_progress |-> TaskProgressFields,
   task_notification |-> TaskNotificationFields, compact_boundary |-> CompactBoundaryFields]

Inner ==
  [message |-> {"content"}, request |-> {"tool_name", "tool_use_id", "input", "decision_reason"},
   rate_limit_info |-> {"status", "resetsAt", "rateLimitType", "utilization", "isUsingOverage"},
   usage |-> {"input_tokens", "output_tokens", "cache_creation_input_tokens",
              "cache_read_input_tokens"},
   modelUsage |-> {"contextWindow"}, compact_metadata |-> {"pre_tokens", "trigger"}]
Containers(kind, f) ==
  {c \in DOMAIN Inner \cap DOMAIN Fields[kind] : f \in Inner[c]}

BlockTypes(kind) ==
  CASE kind = "assistant" -> {"text", "thinking", "tool_use"}
    [] kind = "user" -> {"text", "tool_result"}
    [] OTHER -> {}
-----------------------------------------------------------------------------
(* parse_line *)

\* The shape a reader sees: nothing of an object that is not there.
Seen(l, f) ==
  IF \E c \in Containers(l.kind, f) : l.fields[c] # "object" THEN "absent" ELSE l.fields[f]

Value(l, f) ==
  IF Seen(l, f) \in Kept[Fields[l.kind][f]] THEN Seen(l, f) ELSE "default"

Blocks(l) ==
  IF "content" \in DOMAIN l.fields /\ Seen(l, "content") = "array" THEN l.blocks ELSE <<>>

\* A block without a type fails the line; one of an unknown type is dropped alone.
Readable(l) ==
  /\ l.tag = "known"
  /\ \A f \in DOMAIN l.fields : Seen(l, f) \notin Fatal(Fields[l.kind][f])
  /\ "untyped" \notin ToSet(Blocks(l))

Amount(shape) == CASE shape = "one" -> 1 [] shape = "max" -> U64Max [] OTHER -> 0
SaturatingAdd(a, b) == IF a + b > U64Max THEN U64Max ELSE a + b

\* The blocks of some types, in their order (SelectSeq as a function, which proofs can
\* expand).
Only(blocks, types) ==
  LET kept[i \in 0..Len(blocks)] ==
        IF i = 0 THEN <<>>
        ELSE IF blocks[i] \in types THEN Append(kept[i - 1], blocks[i]) ELSE kept[i - 1]
  IN kept[Len(blocks)]

\* The blocks an event keeps: a replay is its first text, the answer of a tool is
\* looked for in the other messages of the user.
EventBlocks(l) ==
  LET typed == Only(Blocks(l), BlockTypes(l.kind))
      texts == Only(typed, {"text"})
  IN CASE l.kind # "user" -> typed
       [] l.kind = "user" /\ Value(l, "isReplay") = "bool" ->
            IF texts = <<>> THEN <<>> ELSE <<"text">>
       [] OTHER -> Only(typed, {"tool_result"})

InputTokens(l) ==
  IF l.kind # "result" THEN 0
  ELSE SaturatingAdd(SaturatingAdd(Amount(Value(l, "input_tokens")),
                                   Amount(Value(l, "cache_creation_input_tokens"))),
                     Amount(Value(l, "cache_read_input_tokens")))

NoFields(kind) == [kind |-> kind, fields |-> <<>>, blocks |-> <<>>, tokens |-> 0]
NotRead == NoFields("none")
Unknown == NoFields("unknown")
NotWritten == [id |-> "none", behavior |-> "none", input |-> "none", answers |-> "none"]

ParseLine(l) ==
  IF ~Readable(l) THEN Unknown
  ELSE [kind |-> l.kind, fields |-> [f \in DOMAIN l.fields |-> Value(l, f)],
        blocks |-> EventBlocks(l), tokens |-> InputTokens(l)]
-----------------------------------------------------------------------------
Usual(reader) ==
  CASE reader \in {"string", "opt_string", "strict_string"} -> "string"
    [] reader \in {"u64", "u32", "f64", "opt_u64", "opt_f64", "strict_u64"} -> "one"
    [] reader \in {"bool", "opt_bool"} -> "bool"
    [] reader \in {"strings", "blocks"} -> "array"
    [] OTHER -> "object"

UsualLine(kind) ==
  [kind |-> kind, tag |-> "known", blocks |-> <<>>,
   fields |-> [f \in DOMAIN Fields[kind] |-> Usual(Fields[kind][f])]]

Odd(l) == {f \in DOMAIN l.fields : l.fields[f] # Usual(Fields[l.kind][f])}
OddCount(l) == Cardinality(Odd(l)) + (IF l.tag = "known" THEN 0 ELSE 1)

ParserInit ==
  /\ line \in {UsualLine(kind) : kind \in DOMAIN Fields}
  /\ event = NotRead /\ response = NotWritten

\* Claude prints a field in another shape, a tag the bot does not know, or a block.
PrintOddly(f, shape) ==
  /\ event = NotRead /\ OddCount(line) < MaxOdd /\ f \notin Odd(line)
  /\ line' = [line EXCEPT !.fields[f] = shape]
  /\ UNCHANGED <<event, response>>
PrintTag ==
  /\ event = NotRead /\ OddCount(line) < MaxOdd
  /\ line' = [line EXCEPT !.tag = "unknown"]
  /\ UNCHANGED <<event, response>>
PrintBlock(b) ==
  /\ event = NotRead /\ BlockTypes(line.kind) # {} /\ Len(line.blocks) < MaxBlocks
  /\ line' = [line EXCEPT !.blocks = Append(@, b)]
  /\ UNCHANGED <<event, response>>

ReadLine ==
  /\ event = NotRead
  /\ event' = ParseLine(line)
  /\ UNCHANGED <<line, response>>

\* build_control_response_allow and _deny: a deny says why instead of the input.
Respond(behavior) ==
  /\ event # NotRead /\ event.kind = "control_request" /\ response = NotWritten
  /\ response' = [id |-> event.fields.request_id, behavior |-> behavior,
                  input |-> IF behavior = "allow" THEN event.fields.input ELSE "default",
                  answers |-> "none"]
  /\ UNCHANGED <<line, event>>

\* build_control_response_ask_answer: answers join an input that is an object.
RespondWithAnswers ==
  /\ event # NotRead /\ event.kind = "control_request" /\ response = NotWritten
  /\ response' = [id |-> event.fields.request_id, behavior |-> "allow",
                  input |-> event.fields.input,
                  answers |-> IF event.fields.input = "object" THEN "added" ELSE "lost"]
  /\ UNCHANGED <<line, event>>

ParserNext ==
  \/ \E f \in DOMAIN line.fields, shape \in Shapes : PrintOddly(f, shape)
  \/ PrintTag
  \/ \E b \in BlockTypes(line.kind) \cup {"unknown", "untyped"} : PrintBlock(b)
  \/ ReadLine
  \/ \E behavior \in {"allow", "deny"} : Respond(behavior)
  \/ RespondWithAnswers

ParserSpec == ParserInit /\ [][ParserNext]_parserVars
-----------------------------------------------------------------------------
\* A line keeps to its bounds, and only a control_request has a response.
ParserTypeOK ==
  /\ OddCount(line) <= MaxOdd /\ Len(line.blocks) <= MaxBlocks
  /\ response # NotWritten => event # NotRead /\ line.kind = "control_request"

\* The fields whose shape may cost a whole line: the objects and lists that hold
\* others, and the few that serde reads without a fallback.
MayCostTheLine ==
  DOMAIN Inner \cup {"content", "result", "last_tool_name", "output_file",
                     "pre_tokens", "trigger"}

\* A line with a known tag is only lost to a block without a type or to one of the
\* fields above; whatever its other fields look like, a request stays a request and
\* a result still ends the turn.
OddFieldsAreForgiven ==
  event # NotRead /\ event.kind = "unknown" =>
    line.tag # "known" \/ "untyped" \in ToSet(line.blocks) \/ Odd(line) \cap MayCostTheLine # {}

\* An unusual field changes no other field but those inside it.
OddFieldsStayAlone ==
  event # NotRead /\ event.kind # "unknown" =>
    \A f \in DOMAIN line.fields :
       (Containers(line.kind, f) \cup {f}) \cap Odd(line) = {} =>
          event.fields[f] = Usual(Fields[line.kind][f])

\* A block of an unknown type takes no other block with it, and the texts and tool
\* calls of the assistant keep their order.
BlocksAreKept ==
  event # NotRead /\ event.kind = "assistant" /\ Odd(line) = {} =>
    event.blocks = Only(line.blocks, ToSet(line.blocks) \ {"unknown"})

\* The response goes to the request that was printed, and brings the answers of a
\* question whose input is what AskUserQuestion sends.
ResponseFitsRequest ==
  response # NotWritten /\ Odd(line) \cap {"request", "request_id", "input"} = {} =>
    /\ response.id = "string"
    /\ response.behavior = "allow" => response.input = "object"
    /\ response.answers # "lost"

\* A token count of any size leaves the total in its type and not below a part.
TokensAddUp ==
  event # NotRead /\ event.kind = "result" =>
    /\ event.tokens <= U64Max
    /\ \A f \in {"input_tokens", "cache_read_input_tokens"} :
          event.tokens >= Amount(event.fields[f])

\* What Claude prints is read as what it is, as far as the lenient deserializers
\* reach, and what is written back is an answer to it.
LinesAreUnderstood ==
  /\ OddFieldsAreForgiven /\ OddFieldsStayAlone /\ BlocksAreKept
  /\ ResponseFitsRequest /\ TokensAddUp
=============================================================================
