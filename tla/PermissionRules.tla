--------------------------- MODULE PermissionRules ---------------------------
(***************************************************************************)
(* Which permission rules an Always Allow of a request stands for          *)
(* (claude_settings/rule.rs, dedup.rs, danger.rs, path_safety.rs,          *)
(* settings_reader.rs) and what level 2 of the prompt tells about them     *)
(* (handler/permission_ui.rs).                                             *)
(*                                                                         *)
(* A Bash command is a sequence of symbols: blanks, the shell operators    *)
(* "bar", "and" and "semi", quotes "dq" and "sq", the backslash "esc", a   *)
(* nested opening "nest" (for process substitutions and here documents     *)
(* too), a parenthesis, the suffix "colon_star", and words, of which       *)
(* "rm_rf" stands for the patterns of danger.rs.  The states are the       *)
(* commands, typed symbol by symbol; one of them is then always allowed.   *)
(* A file path is where it lies, a URL what its host is.                   *)
(***************************************************************************)
EXTENDS Naturals, Sequences, FiniteSetsExt

CONSTANTS Symbols,     \* the symbols commands are made of
          MaxCommand   \* bound: symbols of a command

ASSUME RulesAssumption ==
  /\ Symbols \subseteq {"rm_rf", "curl", "sh", "blank", "bar", "and", "semi", "dq", "sq",
                        "esc", "nest", "paren", "colon_star"}
  /\ MaxCommand \in Nat

VARIABLES request,   \* the tool, what it is asked to do, and the typed command
          extraDirs, \* the settings layers that list the extra directory
          allow,     \* permissions.allow of the settings file: a rule is a tool
                     \* and the text in its parentheses; "bare" has none
          choice     \* the button that was clicked, or "none"

rulesVars == <<request, extraDirs, allow, choice>>

Layers == {"user", "shared", "local"}
FileTools == {"Read", "Edit", "Write"}
FilePaths == {"inside", "protected", "extra", "outside"}
\* A path may come with any tool's input, under one of three keys.
Asked(tool) == CASE tool \in FileTools \cup {"NotebookEdit"} -> FilePaths
                 [] tool \in {"Grep", "mcp__server__tool"} -> FilePaths \cup {"anything"}
                 [] tool = "WebFetch" -> {"host", "ip", "no_url"}
                 [] tool = "Skill" -> {"named", "unnamed"}
                 [] OTHER -> {"anything"}
ToolNames == FileTools \cup {"NotebookEdit", "Bash", "WebFetch", "Grep", "Skill",
                             "mcp__server__tool"}

RulesInit ==
  /\ request \in [tool : ToolNames, command : {<<>>},
                  target : UNION {Asked(t) : t \in ToolNames}]
  /\ request.target \in Asked(request.tool)
  /\ extraDirs \in (IF request.target = "extra" THEN SUBSET Layers ELSE {{}})
  /\ allow = <<>> /\ choice = "none"
-----------------------------------------------------------------------------
(* Bash commands and their parts. *)

Plain == [quote |-> "none", escaped |-> FALSE]

\* The state of the quotes after one symbol more.
NextQuoting(q, s) ==
  CASE q.escaped -> [q EXCEPT !.escaped = FALSE]
    [] ~q.escaped /\ s = "esc" /\ q.quote # "sq" -> [q EXCEPT !.escaped = TRUE]
    [] ~q.escaped /\ s \in {"dq", "sq"} /\ q.quote = s -> Plain
    [] ~q.escaped /\ s \in {"dq", "sq"} /\ q.quote = "none" -> [q EXCEPT !.quote = s]
    [] OTHER -> q

\* That state after each symbol of a text.
Quoting(text) ==
  LET quoting[i \in 0..Len(text)] ==
        IF i = 0 THEN Plain ELSE NextQuoting(quoting[i - 1], text[i])
  IN quoting

\* shlex::split accepts the text: no quote is left open, nothing is escaped last.
Closed(text) == Quoting(text)[Len(text)] = Plain

Trim(text) ==
  LET words == {i \in DOMAIN text : text[i] # "blank"}
  IN IF words = {} THEN <<>> ELSE SubSeq(text, Min(words), Max(words))

DoubleOperators == {<<"bar", "bar">>, <<"bar", "and">>, <<"and", "and">>}

\* A plausible bug: an operator cuts inside quotes too.
ScanThroughQuotes(text, acc, i) ==
  LET s == text[i]
      double == i < Len(text) /\ <<s, text[i + 1]>> \in DoubleOperators
  IN IF acc.skip
     THEN [acc EXCEPT !.skip = FALSE]
     ELSE IF s \in {"bar", "semi"} \/ double
     THEN [acc EXCEPT !.parts = Append(@, acc.part), !.part = <<>>, !.skip = double]
     ELSE [acc EXCEPT !.part = Append(@, s), !.quoting = NextQuoting(@, s)]

\* One symbol of split_by_shell_operators: an operator outside quotes ends the
\* part under construction, the second symbol of a double one is skipped.
Scan(text, acc, i) ==
  LET s == text[i]
      double == i < Len(text) /\ <<s, text[i + 1]>> \in DoubleOperators
  IN IF acc.skip
     THEN [acc EXCEPT !.skip = FALSE]
     ELSE IF acc.quoting = Plain /\ (s \in {"bar", "semi"} \/ double)
     THEN [acc EXCEPT !.parts = Append(@, acc.part), !.part = <<>>, !.skip = double]
     ELSE [acc EXCEPT !.part = Append(@, s), !.quoting = NextQuoting(@, s)]

Scanned(text) ==
  LET scan[i \in 0..Len(text)] ==
        IF i = 0 THEN [parts |-> <<>>, part |-> <<>>, quoting |-> Plain, skip |-> FALSE]
        ELSE Scan(text, scan[i - 1], i)
  IN scan[Len(text)]

\* The parts without the blanks around them, and without those of blanks alone.
TrimEach(parts) ==
  LET kept[i \in 0..Len(parts)] ==
        IF i = 0 THEN <<>>
        ELSE IF Trim(parts[i]) = <<>> THEN kept[i - 1]
        ELSE Append(kept[i - 1], Trim(parts[i]))
  IN kept[Len(parts)]

ByOperators(text) ==
  LET end == Scanned(text)
      parts == TrimEach(Append(end.parts, end.part))
  IN IF parts = <<>> THEN <<text>> ELSE parts

\* split_bash_subcommands: one part when the quoting is broken or syntax nests.
SplitSubcommands(command) ==
  LET text == Trim(command)
  IN IF text = <<>> THEN <<>>
     ELSE IF ~Closed(text) \/ "nest" \in Range(text) \/ Head(text) = "paren"
     THEN <<text>>
     ELSE ByOperators(text)
-----------------------------------------------------------------------------
(* Kinds of rules and their texts. *)

\* The union of additionalDirectories over the three settings files.
AdditionalDirs == IF extraDirs = {} THEN {} ELSE {"extra"}

\* A dot directory, or outside of the project and its additional directories.
Protected(r) == r.target \in FilePaths \ ({"inside"} \cup AdditionalDirs)

Kinds(r) ==
  IF Protected(r) THEN {}
  ELSE {"tool"} \cup
       CASE r.tool = "Bash" /\ r.command # <<>> -> {"exact", "prefix"}
         [] r.tool = "WebFetch" /\ r.target = "host" -> {"domain"}
         [] r.tool \in FileTools \/ (r.tool = "Skill" /\ r.target = "named") -> {"exact"}
         [] OTHER -> {}

FirstToken(part) ==
  LET blanks == {i \in DOMAIN part : part[i] = "blank"}
  IN IF blanks = {} THEN part ELSE SubSeq(part, 1, Min(blanks) - 1)

Rule(tool, text) == [tool |-> tool, text |-> text]

\* build_rule_text
RuleText(r, kind) ==
  CASE kind = "tool" /\ r.tool = "mcp__server__tool" -> Rule(r.tool, <<"bare">>)
    [] kind = "tool" /\ r.tool # "mcp__server__tool" -> Rule(r.tool, <<"star">>)
    [] kind = "prefix" -> Rule(r.tool, FirstToken(r.command) \o <<"blank", "star">>)
    [] kind = "exact" /\ r.tool = "Bash" -> Rule(r.tool, r.command)
    [] OTHER -> Rule(r.tool, <<r.target>>)

\* build_rule_texts: one rule for every part of a Bash command.
RuleTexts(r, kind) ==
  IF r.tool = "Bash" /\ kind \in {"exact", "prefix"}
  THEN LET parts == SplitSubcommands(r.command)
       IN [i \in DOMAIN parts |-> RuleText([r EXCEPT !.command = parts[i]], kind)]
  ELSE <<RuleText(r, kind)>>

\* A trailing :* is written as a blank and a star.
NormalizeRule(rule) ==
  IF rule.tool # "WebFetch" /\ rule.text[Len(rule.text)] = "colon_star"
  THEN [rule EXCEPT !.text = SubSeq(@, 1, Len(@) - 1) \o <<"blank", "star">>]
  ELSE rule

MergeIntoAllow(rules, rule) ==
  IF rule \in Range(rules) THEN rules ELSE Append(rules, rule)

\* Rules join permissions.allow one after the other, normalized.
Merged(rules, new) ==
  LET merged[i \in 0..Len(new)] ==
        IF i = 0 THEN rules ELSE MergeIntoAllow(merged[i - 1], NormalizeRule(new[i]))
  IN merged[Len(new)]

\* classify_command on one rule.  A rule holds a pipe outside quotes only when its
\* command could not be split, and sensitive paths lie outside the project.
Severity(rule) ==
  LET bars == {i \in DOMAIN rule.text : rule.text[i] = "bar"}
      after == Trim(SubSeq(rule.text, Min(bars) + 1, Len(rule.text)))
      pipesToShell == /\ bars # {} /\ after # <<>>
                      /\ FirstToken(Trim(SubSeq(rule.text, 1, Min(bars) - 1))) = <<"curl">>
                      /\ FirstToken(after) = <<"sh">>
  IN CASE "rm_rf" \in Range(rule.text) \/ pipesToShell -> 2
       [] rule.text = <<"star">> -> 1
       [] OTHER -> 0

\* The warning of level 2: the highest severity of the rules it offers.
ShownSeverity(r) ==
  Max({0} \cup UNION {{Severity(rule) : rule \in Range(RuleTexts(r, k))} : k \in Kinds(r)})
-----------------------------------------------------------------------------
\* The command the process wants to run, symbol by symbol.
Type(s) ==
  /\ request.tool = "Bash" /\ choice = "none" /\ Len(request.command) < MaxCommand
  /\ request' = [request EXCEPT !.command = Append(@, s)]
  /\ UNCHANGED <<extraDirs, allow, choice>>

\* Always Allow: the normalized rules of the kind join the settings file.  A
\* command of blanks alone has no rule, and the request is denied instead.
AlwaysAllow(kind) ==
  /\ choice = "none" /\ kind \in Kinds(request)
  /\ RuleTexts(request, kind) # <<>>
  /\ choice' = kind
  /\ allow' = Merged(allow, RuleTexts(request, kind))
  /\ UNCHANGED <<request, extraDirs>>

RulesNext ==
  \/ \E s \in Symbols : Type(s)
  \/ \E kind \in {"exact", "prefix", "domain", "tool"} : AlwaysAllow(kind)

RulesSpec == RulesInit /\ [][RulesNext]_rulesVars
-----------------------------------------------------------------------------
\* The tools and targets stay what they were, and a rule is saved once.
RulesTypeOK ==
  /\ request.command \in Seq(Symbols) /\ Len(request.command) <= MaxCommand
  /\ extraDirs \subseteq Layers
  /\ \A rule \in Range(allow) : rule.tool = request.tool
  /\ IsInjective(allow)

\* How Claude Code reads a Bash rule (external): a final blank and star stand for
\* any arguments, or none.
Matches(rule, part) ==
  \/ rule.text = <<"star">>
  \/ rule.text = part
  \/ /\ Len(rule.text) > 2 /\ rule.text[Len(rule.text)] = "star"
     /\ LET n == Len(rule.text) - 2
        IN /\ Len(part) >= n /\ SubSeq(part, 1, n) = SubSeq(rule.text, 1, n)
           /\ Len(part) > n => part[n + 1] = "blank"

\* The words and quotes of a text, and those of its parts.
Content(text) ==
  LET content[i \in 0..Len(text)] ==
        IF i = 0 THEN <<>>
        ELSE IF text[i] \in {"blank", "bar", "and", "semi"} THEN content[i - 1]
        ELSE Append(content[i - 1], text[i])
  IN content[Len(text)]
Contents(parts) ==
  LET contents[i \in 0..Len(parts)] ==
        IF i = 0 THEN <<>> ELSE contents[i - 1] \o Content(parts[i])
  IN contents[Len(parts)]

\* Splitting a command loses none of its words and none of its quotes, no part
\* holds an operator that would split it again, and no part is cut out of quotes.
\* (Trimming cuts an escaped blank at the end of a part, and leaves its backslash.)
SplitIsFaithful ==
  LET parts == SplitSubcommands(request.command)
  IN /\ Contents(parts) = Content(request.command)
     /\ \A p \in Range(parts) :
          /\ SplitSubcommands(p) = <<p>>
          /\ Closed(Trim(request.command)) => Closed(p) \/ p[Len(p)] = "esc"

\* After an Always Allow, whatever its kind, the saved rules allow every part of
\* the command that was asked for.  A part that ends in :* is left out: its exact
\* rule is turned into a prefix rule that does not match it.
EveryPartIsAllowed ==
  choice # "none" /\ request.tool = "Bash" =>
    \A p \in Range(SplitSubcommands(request.command)) :
       p[Len(p)] # "colon_star" => \E rule \in Range(allow) : Matches(rule, p)

\* A dangerous pattern in a command is not hidden by its parts.
DangerIsShown ==
  request.tool = "Bash" /\ "rm_rf" \in Range(request.command) => ShownSeverity(request) = 2

\* An Always Allow of a Bash command saves what the user was shown and asked for:
\* its parts are whole, all of them are allowed, and a dangerous one is told.
RulesCoverRequest == SplitIsFaithful /\ EveryPartIsAllowed /\ DangerIsShown
=============================================================================
