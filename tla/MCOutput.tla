------------------------------ MODULE MCOutput ------------------------------
(***************************************************************************)
(* From Claude's output to the thread, and what is kept about a channel     *)
(* meanwhile.  Components that share no variable; part says which of them   *)
(* moves, so their states add up:                                          *)
(*   - StreamParser, with up to two odd fields in a line and two blocks;   *)
(*   - TextConversion, on every text of four lines of twelve forms;        *)
(*   - MessageSplit: a message is 20 characters instead of 1900 and a line *)
(*     at most twice as long and a few more; four lines are enough for a   *)
(*     block that is opened, cut, force split and closed;                  *)
(*   - TurnOutput on two handlers and the worker's background turns, with  *)
(*     one command, one todo message and one failed request or silent kill;*)
(*   - ProjectRows with a thread and two messages, commands and directories  *)
(*     and one crash;                                                      *)
(*   - MentionCache with two members who share two names, two changes and  *)
(*     two answers that fetch;                                             *)
(*   - the three Monitors: two rate-limit events about usages in one        *)
(*     bucket and in two, in two cycles; two sessions and three            *)
(*     connections; three releases and one restart;                        *)
(*   - MessageInput: three handlers and two offers, and a message with up  *)
(*     to three files of four names, two of which are saved as one.        *)
(* SYMMETRY is in the handlers of TurnOutput only: no temporal property is  *)
(* checked but one about single steps.                                     *)
(***************************************************************************)
EXTENDS TurnOutput, MessageSplit, StreamParser, TextConversion, ProjectRows, MentionCache,
        Monitors, MessageInput

SplitKinds ==
  {[size |-> 3, fence |-> TRUE], [size |-> 7, fence |-> TRUE]} \cup
  [size : {1, 5, 10, 45}, fence : {FALSE}]

VARIABLE part

allVars == <<outputVars, splitVars, parserVars, textVars, rowsVars, mentionVars,
             rateVars, presenceVars, releaseVars, contextVars, fileVars, part>>

\* A part that does not move starts in one state.
IdleSplit == rest = <<>> /\ current = Blank /\ codeLang = -1 /\ messages = <<>>
IdleRows == RowsInit /\ project = "none"
IdleMentions == MentionInit /\ guild = CHOOSE g \in [Members -> {<<n, n>> : n \in Names}] : IsInjective(g)
IdleParser == line = UsualLine("init") /\ event = NotRead /\ response = NotWritten

MCInit ==
  /\ part \in {"parse", "text", "split", "turn", "rows", "names", "rate", "presence",
              "release", "context", "files"}
  /\ IF part = "parse" THEN ParserInit ELSE IdleParser
  /\ TextInit
  /\ IF part = "split" THEN SplitInit ELSE IdleSplit
  /\ OutputInit
  /\ IF part = "rows" THEN RowsInit ELSE IdleRows
  /\ IF part = "names" THEN MentionInit ELSE IdleMentions
  /\ RateInit /\ PresenceInit /\ ReleaseInit /\ ContextInit /\ FilesInit

Moves(p, next) == part = p /\ next
Rests(p, vars) == part # p => UNCHANGED vars

MCNext ==
  /\ UNCHANGED part
  /\ \/ Moves("parse", ParserNext) \/ Moves("text", TextNext) \/ Moves("split", SplitNext)
     \/ Moves("turn", OutputNext) \/ Moves("rows", RowsNext) \/ Moves("names", MentionNext)
     \/ Moves("rate", RateNext) \/ Moves("presence", PresenceNext)
     \/ Moves("release", ReleaseNext) \/ Moves("context", ContextNext) \/ Moves("files", FilesNext)
  /\ Rests("parse", parserVars) /\ Rests("text", textVars) /\ Rests("split", splitVars)
  /\ Rests("turn", outputVars) /\ Rests("rows", rowsVars) /\ Rests("names", mentionVars)
  /\ Rests("rate", rateVars) /\ Rests("presence", presenceVars)
  /\ Rests("release", releaseVars) /\ Rests("context", contextVars) /\ Rests("files", fileVars)

MCSpec == MCInit /\ [][MCNext]_allVars

TurnSymmetry == Permutations(Turns)

\* Every variable of the component that moves keeps to the values its module names.
ShownTypeOK ==
  /\ part = "turn" => OutputTypeOK
  /\ part = "parse" => ParserTypeOK
  /\ part = "text" => TextTypeOK
  /\ part = "rows" => RowsTypeOK
  /\ part = "names" => MentionTypeOK
=============================================================================
