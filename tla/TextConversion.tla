---------------------------- MODULE TextConversion ----------------------------
(***************************************************************************)
(* What becomes of a text of the assistant before it is shown: its file    *)
(* markers are taken out (handler/file_attach.rs), its tables and details  *)
(* are converted (handler/formatter.rs), its names become mentions         *)
(* (handler/mention.rs), and the skills it names become buttons            *)
(* (handler/next_step_ui.rs).  Each of the five walks the text by itself   *)
(* and has its own idea of what is code.                                   *)
(*                                                                         *)
(* A text is a sequence of lines.  A line is one of                        *)
(*   "words"        prose with an @name and a /skill in it                  *)
(*   "fence"        ``` at its start                                       *)
(*   "tick"         prose with one backtick that is not closed on it       *)
(*   "row", "escaped", "rule"  rows of a table, one with \| in it, |---|    *)
(*   "details_open", "summary", "details_close"                            *)
(*              a tag of its own; "details_whole" has all three            *)
(*   "marker"       <!--pidory:attach:path-->; "open_marker" lacks the -->  *)
(* and, after a conversion, "blank" or "header".                           *)
(***************************************************************************)
EXTENDS MessageSplit, Naturals, Sequences, Functions, FiniteSets, FiniteSetsExt

CONSTANTS LineForms,    \* the lines texts are made of
          MaxTextLines  \* bound: lines of a text

ASSUME TextAssumption ==
  /\ LineForms \subseteq {"words", "fence", "tick", "row", "escaped", "rule", "details_open",
                          "summary", "details_close", "details_whole", "marker",
                          "open_marker"}
  /\ MaxTextLines \in Nat

VARIABLES text,       \* the text under way
          converted,  \* it was converted
          shown,      \* its converted lines: [form, quoted]
          files,      \* the paths of its markers: "marker" is one, "open_marker" is none
          posts       \* what the thread got for each path

textVars == <<text, converted, shown, files, posts>>

Plainly(form) == [form |-> form, quoted |-> FALSE]
Quoted(form) == [form |-> form, quoted |-> TRUE]
-----------------------------------------------------------------------------
\* extract_file_markers, which sees code between ``` anywhere, or after a lone
\* backtick up to the next one.  A marker without its end reaches to the next -->,
\* over every line in between; without any, the walk stops there.
MarkerStep(lines, acc, i) ==
  LET form == lines[i]
      ends == {j \in i..Len(lines) : lines[j] = "marker"}
      keep == [acc EXCEPT !.out = Append(@, form)]
  IN CASE i < acc.next -> acc
       [] i >= acc.next /\ acc.mode = "code" ->
            [keep EXCEPT !.mode = IF form = "fence" THEN "text" ELSE "code"]
       [] i >= acc.next /\ acc.mode = "inline" ->
            [keep EXCEPT !.mode = IF form \in {"fence", "tick"} THEN "text" ELSE "inline"]
       [] i >= acc.next /\ acc.mode = "stopped" -> keep
       [] OTHER ->
            CASE form = "fence" -> [keep EXCEPT !.mode = "code"]
              [] form = "tick" -> [keep EXCEPT !.mode = "inline"]
              [] form = "open_marker" /\ ends = {} -> [keep EXCEPT !.mode = "stopped"]
              [] form \in {"marker", "open_marker"} /\ ends # {} ->
                   [acc EXCEPT !.out = Append(@, "blank"), !.next = Min(ends) + 1,
                               !.paths = Append(@, form)]
              [] OTHER -> keep

ExtractFileMarkers(lines) ==
  LET walk[i \in 0..Len(lines)] ==
        IF i = 0 THEN [out |-> <<>>, paths |-> <<>>, mode |-> "text", next |-> 1]
        ELSE MarkerStep(lines, walk[i - 1], i)
  IN walk[Len(lines)]

IsTableRow(form) == form \in {"row", "escaped", "rule"}

\* The rows below the rule at i + 1, up to the first line that is none.
TableEnd(lines, i) ==
  Min({j \in (i + 2)..(Len(lines) + 1) : j > Len(lines) \/ ~IsTableRow(lines[j])})

\* A table is a row, a rule and at least one row more; one with an escaped bar in it
\* stays what it is.
IsTable(lines, i) ==
  /\ i + 2 <= Len(lines) /\ IsTableRow(lines[i]) /\ lines[i + 1] = "rule"
  /\ TableEnd(lines, i) > i + 2
  /\ "escaped" \notin Range(SubSeq(lines, i, TableEnd(lines, i) - 1))

\* A table is drawn as a block of code, its rule left out.
Drawn(lines, i) ==
  <<"fence", lines[i]>> \o SubSeq(lines, i + 2, TableEnd(lines, i) - 1) \o <<"fence">>

\* A plausible bug: the fences that open a block of code are not minded.
TableStepInCode(lines, acc, i) ==
  CASE i < acc.next -> acc
    [] i >= acc.next /\ IsTable(lines, i) ->
         [acc EXCEPT !.next = TableEnd(lines, i), !.out = @ \o Drawn(lines, i)]
    [] OTHER -> [acc EXCEPT !.out = Append(@, lines[i])]

\* convert_markdown_tables, which goes on behind a table it has drawn.
TableStep(lines, acc, i) ==
  CASE i < acc.next -> acc
    [] i >= acc.next /\ lines[i] = "fence" ->
         [acc EXCEPT !.out = Append(@, "fence"), !.code = ~@]
    [] i >= acc.next /\ ~acc.code /\ IsTable(lines, i) ->
         [acc EXCEPT !.next = TableEnd(lines, i), !.out = @ \o Drawn(lines, i)]
    [] OTHER -> [acc EXCEPT !.out = Append(@, lines[i])]

ConvertMarkdownTables(lines) ==
  LET walk[i \in 0..Len(lines)] ==
        IF i = 0 THEN [out |-> <<>>, code |-> FALSE, next |-> 1]
        ELSE TableStep(lines, walk[i - 1], i)
  IN walk[Len(lines)].out

\* One line of a details block: it is held back until the block ends, and the
\* summary goes before it.  A whole block inside of another only ends it.
InDetails(acc, form) ==
  CASE form \in {"details_close", "details_whole"} ->
         [acc EXCEPT !.inside = FALSE, !.out = @ \o acc.header \o acc.held,
                     !.header = <<>>, !.held = <<>>]
    [] form = "summary" -> [acc EXCEPT !.header = <<Plainly("header")>>]
    [] OTHER -> [acc EXCEPT !.held = Append(@, Quoted(form))]

OutOfDetails(acc, form) ==
  CASE form = "details_open" -> [acc EXCEPT !.inside = TRUE, !.header = <<>>, !.held = <<>>]
    [] form = "details_whole" ->
         [acc EXCEPT !.out = @ \o <<Plainly("header"), Quoted("words")>>]
    [] OTHER -> [acc EXCEPT !.out = Append(@, Plainly(form))]

DetailsStep(acc, form) ==
  CASE form = "fence" \/ acc.code ->
         LET code == IF form = "fence" THEN ~acc.code ELSE acc.code
         IN IF acc.inside
            THEN [acc EXCEPT !.code = code, !.held = Append(@, Quoted(form))]
            ELSE [acc EXCEPT !.code = code, !.out = Append(@, Plainly(form))]
    [] form # "fence" /\ ~acc.code /\ acc.inside -> InDetails(acc, form)
    [] OTHER -> OutOfDetails(acc, form)

\* convert_html_details: a block that is not closed leaves the text as it was.
ConvertHtmlDetails(lines) ==
  LET walk[i \in 0..Len(lines)] ==
        IF i = 0 THEN [out |-> <<>>, held |-> <<>>, header |-> <<>>,
                       inside |-> FALSE, code |-> FALSE]
        ELSE DetailsStep(walk[i - 1], lines[i])
      end == walk[Len(lines)]
  IN IF end.inside THEN [i \in DOMAIN lines |-> Plainly(lines[i])] ELSE end.out

\* replace_mentions_with_map: the lines whose name becomes a mention.  ``` counts
\* wherever it stands, and forgets an open backtick.
MentionStep(lines, acc, i) ==
  CASE lines[i].form = "fence" -> [acc EXCEPT !.triple = ~@, !.inline = FALSE]
    [] lines[i].form = "tick" /\ ~acc.triple -> [acc EXCEPT !.inline = ~@]
    [] lines[i].form = "words" /\ ~acc.triple /\ ~acc.inline -> [acc EXCEPT !.at = @ \cup {i}]
    [] OTHER -> acc

Mentions(lines) ==
  LET walk[i \in 0..Len(lines)] ==
        IF i = 0 THEN [at |-> {}, triple |-> FALSE, inline |-> FALSE]
        ELSE MentionStep(lines, walk[i - 1], i)
  IN walk[Len(lines)].at

\* After each line: it lies in a block of code, or opens one.
InBlock(lines) ==
  LET block[i \in 0..Len(lines)] ==
        IF i = 0 THEN FALSE
        ELSE IF lines[i] = "fence" THEN ~block[i - 1] ELSE block[i - 1]
  IN block
IsCode(lines, i) == lines[i] # "fence" /\ InBlock(lines)[i]

\* strip_fenced_code_blocks and extract_skill_names: the lines that offer a button.
NextSteps(lines) == {i \in DOMAIN lines : lines[i] = "words" /\ ~IsCode(lines, i)}
-----------------------------------------------------------------------------
TextInit ==
  text = <<>> /\ converted = FALSE /\ shown = <<>> /\ files = <<>> /\ posts = <<>>

\* The assistant's text, line by line.
Say(form) ==
  /\ ~converted /\ Len(text) < MaxTextLines
  /\ text' = Append(text, form)
  /\ UNCHANGED <<converted, shown, files, posts>>

\* format_response: markers, then tables, then details.
Convert ==
  /\ ~converted /\ text # <<>>
  /\ converted' = TRUE
  /\ LET cleaned == ExtractFileMarkers(text)
     IN /\ files' = cleaned.paths
        /\ shown' = ConvertHtmlDetails(ConvertMarkdownTables(cleaned.out))
  /\ UNCHANGED <<text, posts>>

\* prepare_attachment refuses a file that is missing, sensitive, no regular file,
\* too large or not readable; the path that runs over several lines names none.
Outcomes(path) == IF path = "open_marker" THEN {"refused"} ELSE {"attached", "refused"}

\* send_file_attachments: every path in turn, and the thread is told of a refusal;
\* a file that Discord does not take is replaced by a text.
PostFile(outcome, accepted) ==
  /\ Len(posts) < Len(files)
  /\ outcome \in Outcomes(files[Len(posts) + 1])
  /\ posts' = Append(posts, IF outcome = "attached" /\ ~accepted THEN "send_failed" ELSE outcome)
  /\ UNCHANGED <<text, converted, shown, files>>

TextNext ==
  \/ \E form \in LineForms : Say(form)
  \/ Convert
  \/ \E outcome \in {"attached", "refused"}, accepted \in BOOLEAN : PostFile(outcome, accepted)

TextSpec == TextInit /\ [][TextNext]_textVars
-----------------------------------------------------------------------------
\* The thread is told of no file twice.
TextTypeOK ==
  /\ text \in Seq(LineForms) /\ Len(text) <= MaxTextLines
  /\ Len(posts) <= Len(files)
  /\ \A i \in DOMAIN posts : posts[i] \in {"attached", "send_failed", "refused"}

Forms(lines) == [i \in DOMAIN lines |-> lines[i].form]

\* The lines of prose and of tables up to each line, with whether they are code.
Bodies(lines) ==
  LET bodies[i \in 0..Len(lines)] ==
        IF i = 0 THEN <<>>
        ELSE IF lines[i] \in {"words", "tick", "row", "escaped"}
        THEN Append(bodies[i - 1], [form |-> lines[i], code |-> InBlock(lines)[i]])
        ELSE bodies[i - 1]
  IN bodies

\* A marker that lacks its end eats the lines up to the next one, and details on one
\* line say words that no line of the text is: a text with either is left out.
WholeMarkers == "open_marker" \notin Range(text) /\ "details_whole" \notin Range(text)

\* Converting loses no line of prose or of a table, swaps none, takes no line out of
\* a block of code and puts none into one but the rows of a table.
NoLineIsLost ==
  converted /\ WholeMarkers =>
    LET before == Bodies(text)[Len(text)]
        after == Bodies(Forms(shown))[Len(shown)]
    IN /\ Len(before) = Len(after)
       /\ \A n \in DOMAIN before :
            /\ before[n].form = after[n].form
            /\ before[n].code => after[n].code
            /\ after[n].code => before[n].code \/ before[n].form \in {"row", "escaped"}

\* A text whose blocks of code are closed is shown with closed blocks, whatever its
\* tables and details.
FencesStayClosed ==
  converted /\ WholeMarkers =>
    InBlock(Forms(shown))[Len(shown)] = InBlock(text)[Len(text)]

\* A name in a block of code notifies nobody.
NoPingFromCode ==
  converted => \A i \in Mentions(shown) : ~IsCode(Forms(shown), i)

\* A marker in a block of code attaches nothing, unless a lone backtick stands
\* before the block; and every other marker attaches its file.
NoFileFromCode ==
  converted /\ WholeMarkers /\ "tick" \notin Range(text) =>
    Len(files) = Cardinality({i \in DOMAIN text : text[i] = "marker" /\ ~IsCode(text, i)})

\* The buttons are taken from the text as it was written: every skill they offer is
\* named in a line that is shown, and not as code.
ButtonsAreShown ==
  converted /\ WholeMarkers =>
    Cardinality(NextSteps(text)) =
      Cardinality({i \in DOMAIN shown : shown[i].form = "words" /\ ~IsCode(Forms(shown), i)})

\* Five walks over one text agree on what is code and keep the rest.
ConversionKeepsText ==
  NoLineIsLost /\ FencesStayClosed /\ NoPingFromCode /\ NoFileFromCode /\ ButtonsAreShown

\* On its way to Discord a text is converted and then split (MessageSplit): the first
\* takes out only what it renders and finds no mention in code, the second makes
\* messages that pass max_len by no more than the marks that close a cut block.
TextIsKept == ConversionKeepsText /\ MessagesNearTheLimit
=============================================================================
