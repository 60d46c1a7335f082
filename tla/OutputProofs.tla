----------------------------- MODULE OutputProofs -----------------------------
(***************************************************************************)
(* What is proved of what goes to Claude and what comes back.               *)
(*                                                                         *)
(* TurnOutput: who may be silenced by a tombstone, that a kick is used      *)
(* once, and that no todo message is forgotten.  The argument is the        *)
(* inductive invariant OutputInd; each of its parts (types, silence, kicks, *)
(* todos) has a lemma of its own for the step.                              *)
(*                                                                         *)
(* MessageInput: a message carries the context and the files it should, and *)
(* the buttons under a summary are the ones a click would start.            *)
(*                                                                         *)
(* Monitors: what the bot tells the outside agrees with what it knows.      *)
(*                                                                         *)
(* ProjectRows: the rows of a channel agree with what runs in its threads.  *)
(***************************************************************************)
EXTENDS TurnOutput, MessageInput, Monitors, ProjectRows, TLAPS

\* Where the turns are, what the entry holds, and the todo messages.
TurnTypes ==
  /\ status \in {"absent", "idle", "running", "error", "archived"}
  /\ live \in BOOLEAN /\ interrupt \in BOOLEAN
  /\ turn \in [Turns -> {"new", "send", "run", "stream", "flush", "capture", "kick", "check",
                         "fastTodo", "interrupt", "cooldown", "poll", "acquire", "silent", "done"}]
  /\ sending \subseteq Turns
  /\ outcome \in [Turns -> {"ok", "aborted", "failed"}]
  /\ due \subseteq Turns /\ marked \subseteq Turns

EntryType == [there : BOOLEAN, archived : BOOLEAN, joined : BOOLEAN, kick : BOOLEAN, slot : Slots]

\* Without an entry there is no flag, no tombstone and no tracker.
EntryShape == entry \in EntryType /\ (~entry.there => entry = NoEntry)

\* What is counted.
CountTypes == mishaps \in 0 .. MaxMishaps /\ credit \in Int

Messages == 0 .. MaxTodos
Posted == 1 .. MaxTodos

Steps == {"none", "kill", "row", "cleanup", "unpin", "done"}
CommandKinds == {"clear", "sleep", "closed"}
AnyKind == {"none"} \cup CommandKinds
CommandType == [kind : AnyKind, pc : Steps, msg : Messages]

TodoTypes ==
  /\ held \in [Paths -> Slots]
  /\ command \in [Commands -> CommandType]
  /\ pinned \subseteq Posted /\ todos \in Messages /\ lost \subseteq Posted /\ stuck \subseteq Posted

HoldersGiveBack == \A h \in Turns : held[h] # Empty => turn[h] \in {"stream", "flush", "fastTodo"}

\* Whatever a tombstone may silence had begun when it was set; what it has still
\* to silence is silenced by it as long as it stands.
TombstoneMarks ==
  /\ entry.archived => Running \subseteq marked
  /\ due # {} => entry.archived

\* A flag of /kick is a kick that may still be used.
KickHasCredit == entry.kick => credit >= 1

\* A cleanup holds a todo message only until it removes it.
CleanupMessages == \A c \in Commands : command[c].msg # 0 => command[c].pc = "unpin"

TypeInd == TurnTypes /\ CountTypes /\ EntryShape /\ TodoTypes /\ HoldersGiveBack

OutputInd ==
  /\ TypeInd
  /\ TombstoneMarks /\ NewTurnsSpeak
  /\ KickHasCredit /\ KicksAreSpentOnce
  /\ CleanupMessages /\ TodosHaveOwners

-----------------------------------------------------------------------------
\* A message is numbered from 1, and 0 is none.
LEMMA MessageNumbers ==
  0 \in Messages /\ 0 \notin Posted /\ \A m \in Messages : m # 0 => m \in Posted
BY OutputAssumption DEF Messages, Posted

\* What can be in the slot of the tracker.
LEMMA SlotValues ==
  /\ Empty \in Slots /\ Out \in Slots /\ Empty # Out /\ Empty.msg = 0 /\ Out.msg = 0
  /\ Empty.kind = "none" /\ Out.kind = "out"
  /\ \A m \in Messages :
       Here(m) \in Slots /\ Here(m).msg = m /\ Here(m).kind = "here" /\ Here(m) # Empty
  /\ \A s \in Slots : s.msg \in Messages /\ (s.msg # 0 => s.kind = "here")
<1>1. /\ Empty.msg = 0 /\ Out.msg = 0 /\ Empty.kind = "none" /\ Out.kind = "out"
      /\ \A m \in Messages : Here(m).msg = m /\ Here(m).kind = "here"
  BY DEF Empty, Out, Here
<1>2. Empty # Out /\ \A m \in Messages : Here(m) # Empty  BY <1>1
<1>3. Empty \in Slots /\ Out \in Slots /\ \A m \in Messages : Here(m) \in Slots
  BY DEF Slots, Messages
<1>4. \A s \in Slots : s = Empty \/ s = Out \/ \E m \in Messages : s = Here(m)
  BY DEF Slots, Messages
<1>. QED  BY <1>1, <1>2, <1>3, <1>4, MessageNumbers

\* The entry that a section writes to.
LEMMA EntryValues ==
  ASSUME EntryShape
  PROVE  /\ entry \in EntryType /\ NoEntry \in EntryType /\ Entry \in EntryType
         /\ Entry.there /\ ~NoEntry.there /\ NoEntry.slot = Empty
         /\ Entry.archived = entry.archived /\ Entry.joined = entry.joined
         /\ Entry.kick = entry.kick /\ Entry.slot = entry.slot
<1>1. entry \in EntryType /\ (~entry.there => entry = NoEntry)  BY DEF EntryShape
<1>2. NoEntry \in EntryType  BY SlotValues DEF NoEntry, EntryType
<1>3. /\ NewEntry \in EntryType /\ NewEntry.there /\ NewEntry.slot = NoEntry.slot
      /\ NewEntry.archived = NoEntry.archived /\ NewEntry.joined = NoEntry.joined
      /\ NewEntry.kick = NoEntry.kick
  BY <1>2 DEF NewEntry, EntryType
<1>4. ~NoEntry.there /\ NoEntry.slot = Empty  BY DEF NoEntry
<1>5. CASE entry.there  BY <1>1, <1>2, <1>4, <1>5 DEF Entry
<1>6. CASE ~entry.there  BY <1>1, <1>2, <1>3, <1>4, <1>6 DEF Entry
<1>. QED  BY <1>5, <1>6

\* A step of a command moves it and may change the message it holds.
LEMMA CommandMoves ==
  ASSUME TodoTypes, NEW c \in Commands, NEW s \in Steps, NEW m \in Messages
  PROVE  /\ [command EXCEPT ![c].pc = s] \in [Commands -> CommandType]
         /\ [command EXCEPT ![c].pc = s, ![c].msg = m] \in [Commands -> CommandType]
         /\ \A d \in Commands :
              /\ [command EXCEPT ![c].pc = s][d].msg = command[d].msg
              /\ [command EXCEPT ![c].pc = s][d].pc = IF d = c THEN s ELSE command[d].pc
              /\ [command EXCEPT ![c].pc = s, ![c].msg = m][d].msg = IF d = c THEN m ELSE command[d].msg
              /\ [command EXCEPT ![c].pc = s, ![c].msg = m][d].pc = IF d = c THEN s ELSE command[d].pc
<1>. DEFINE first == [command EXCEPT ![c].pc = s]
<1>1. command \in [Commands -> CommandType]  BY DEF TodoTypes
<1>2. /\ first \in [Commands -> CommandType]
      /\ first[c].pc = s /\ \A d \in Commands : first[d].msg = command[d].msg
      /\ \A d \in Commands \ {c} : first[d] = command[d]
  BY <1>1 DEF CommandType
<1>. DEFINE second == [first EXCEPT ![c].msg = m]
<1>3. /\ second \in [Commands -> CommandType]
      /\ second[c].pc = first[c].pc /\ second[c].msg = m
      /\ \A d \in Commands \ {c} : second[d] = first[d]
  <2>. HIDE DEF first
  <2>. QED  BY <1>2 DEF CommandType
<1>. QED  BY <1>2, <1>3

\* The invariant holds initially.
LEMMA OutputInitial == OutputInit => OutputInd
<1>. SUFFICES ASSUME OutputInit PROVE OutputInd  OBVIOUS
<1>1. TurnTypes  BY DEF OutputInit, TurnTypes
<1>0. CountTypes  BY OutputAssumption DEF OutputInit, CountTypes
<1>2. EntryShape  BY SlotValues DEF OutputInit, EntryShape, EntryType, NoEntry
<1>3. TodoTypes /\ HoldersGiveBack
  <2>1. NoCommand \in CommandType
    BY MessageNumbers DEF NoCommand, CommandType, Steps, CommandKinds, AnyKind
  <2>. QED
    BY <2>1, SlotValues, MessageNumbers DEF OutputInit, TodoTypes, HoldersGiveBack, Paths
<1>4. ~entry.archived /\ ~entry.kick  BY DEF OutputInit, NoEntry
<1>5. \A c \in Commands : command[c].msg = 0  BY DEF OutputInit, NoCommand
<1>. QED
  BY <1>0, <1>1, <1>2, <1>3, <1>4, <1>5
  DEF OutputInit, OutputInd, TypeInd, TombstoneMarks, NewTurnsSpeak, KickHasCredit,
      KicksAreSpentOnce, CleanupMessages, TodosHaveOwners

\* The variables that the phases of a turn write keep their types.
LEMMA TurnStepTypes == TurnTypes /\ [OutputNext]_outputVars => TurnTypes'
<1>. SUFFICES ASSUME TurnTypes, [OutputNext]_outputVars PROVE TurnTypes'  OBVIOUS
<1>. USE DEF TurnTypes, At, To
<1>1. ASSUME NEW h \in Turns,
             BeginTurn(h) \/ Send(h) \/ Streams(h) \/ ShowsTool(h) \/ LastEvent(h) \/ Captures(h)
      PROVE  TurnTypes'
  BY <1>1 DEF BeginTurn, Send, Streams, ShowsTool, LastEvent, Captures
<1>2. ASSUME NEW h \in Turns, NEW o \in {"ok", "aborted", "failed"}, WorkerEndsTurn(h, o)
      PROVE  TurnTypes'
  BY <1>2 DEF WorkerEndsTurn
<1>3. ASSUME NEW h \in Turns,
             CancelsKick(h) \/ EndsSilently(h) \/ Reports(h) \/ FastTodoDone(h) \/ RegisterKick(h)
      PROVE  TurnTypes'
  BY <1>3 DEF CancelsKick, EndsSilently, Reports, FastTodoDone, RegisterKick
<1>4. ASSUME NEW h \in Turns,
             SendInterrupt(h) \/ RecordCooldown(h) \/ StopPolling(h)
      PROVE  TurnTypes'
  BY <1>4 DEF SendInterrupt, RecordCooldown, StopPolling
<1>5. ASSUME NEW p \in Paths, TakeTodo(p) \/ PostTodo(p) \/ TodoGone(p) \/ ReleaseTodo(p)
      PROVE  TurnTypes'
  BY <1>5 DEF TakeTodo, PostTodo, TodoGone, ReleaseTodo, Removes
<1>6. ASSUME NEW c \in Commands, NEW kind \in CommandKinds, StartCommand(c, kind)
      PROVE  TurnTypes'
  BY <1>6 DEF StartCommand, CommandKinds, Mark, Running
<1>7. ASSUME NEW c \in Commands,
             CommandKills(c) \/ CommandWritesRow(c) \/ Cleanup(c) \/ CleanupUnpins(c)
      PROVE  TurnTypes'
  BY <1>7 DEF CommandKills, CommandWritesRow, Cleanup, CleanupUnpins, Removes, Kill
<1>8. CASE KillSilently
  BY <1>8 DEF KillSilently, Kill
<1>9. ASSUME NEW h \in Turns, TakeKick(h) \/ KickAcquires(h) PROVE TurnTypes'
  BY <1>9 DEF TakeKick, KickAcquires
<1>10. CASE UNCHANGED outputVars
  BY <1>10 DEF outputVars
<1>. QED
  BY <1>1, <1>2, <1>3, <1>4, <1>5, <1>6, <1>7, <1>8, <1>9, <1>10 DEF CommandKinds, OutputNext, TurnStep

\* The bound on mishaps is kept.
LEMMA CountStep == CountTypes /\ [OutputNext]_outputVars => CountTypes'
<1>. SUFFICES ASSUME CountTypes, [OutputNext]_outputVars PROVE CountTypes'  OBVIOUS
<1>. USE OutputAssumption DEF CountTypes
<1>1. ASSUME NEW h \in Turns, RecordCooldown(h) PROVE CountTypes'
  BY <1>1 DEF RecordCooldown
<1>2. ASSUME NEW h \in Turns, CancelsKick(h) \/ RegisterKick(h) \/ TakeKick(h) PROVE CountTypes'
  BY <1>2 DEF CancelsKick, RegisterKick, TakeKick
<1>3. CASE KillSilently  BY <1>3 DEF KillSilently
<1>4. UNCHANGED <<mishaps, credit>> => CountTypes'  OBVIOUS
<1>5. ASSUME NEW m, Removes(m), UNCHANGED credit PROVE CountTypes'  BY <1>5 DEF Removes
<1>6. ASSUME NEW p \in Paths, TodoGone(p) \/ ReleaseTodo(p) PROVE CountTypes'
  BY <1>4, <1>5, <1>6 DEF TodoGone, ReleaseTodo
<1>7. ASSUME NEW c \in Commands, CleanupUnpins(c) PROVE CountTypes'
  BY <1>5, <1>7 DEF CleanupUnpins
<1>. QED
  BY <1>1, <1>2, <1>3, <1>4, <1>6, <1>7
  DEF CommandKinds, OutputNext, TurnStep, outputVars, BeginTurn, Send, Streams, ShowsTool, LastEvent,
      Captures, WorkerEndsTurn,
      EndsSilently, Reports, FastTodoDone, SendInterrupt, StopPolling, KickAcquires, TakeTodo,
      PostTodo, StartCommand, CommandKills, CommandWritesRow, Cleanup

\* The entry of the thread stays an entry: a flag, a tombstone or a tracker is
\* never written without one.
LEMMA EntryStep == TypeInd /\ [OutputNext]_outputVars => EntryShape'
<1>. SUFFICES ASSUME TypeInd, [OutputNext]_outputVars PROVE EntryShape'  OBVIOUS
<1>. USE DEF EntryShape, EntryType, OnEntry
<1>0. EntryShape /\ TodoTypes  BY DEF TypeInd
<1>1. ASSUME NEW h \in Turns, BeginTurn(h) \/ ShowsTool(h) \/ Captures(h) PROVE EntryShape'
  BY <1>0, <1>1, EntryValues, SlotValues DEF BeginTurn, ShowsTool, Captures, NewEntry
<1>2. ASSUME NEW h \in Turns, CancelsKick(h) \/ EndsSilently(h) \/ Reports(h) PROVE EntryShape'
  BY <1>0, <1>2, EntryValues DEF CancelsKick, EndsSilently, Reports
<1>3. ASSUME NEW h \in Turns, RegisterKick(h) \/ SendInterrupt(h) \/ RecordCooldown(h)
      PROVE  EntryShape'
  BY <1>0, <1>3, EntryValues DEF RegisterKick, SendInterrupt, RecordCooldown
<1>4. ASSUME NEW h \in Turns, TakeKick(h) \/ StopPolling(h) \/ KickAcquires(h) PROVE EntryShape'
  BY <1>0, <1>4, EntryValues DEF TakeKick, StopPolling, KickAcquires
<1>5. ASSUME NEW p \in Paths, TakeTodo(p) \/ ReleaseTodo(p) PROVE EntryShape'
  BY <1>0, <1>5, EntryValues, SlotValues DEF TakeTodo, ReleaseTodo, TodoTypes
<1>6. ASSUME NEW c \in Commands, NEW kind \in CommandKinds, StartCommand(c, kind) PROVE EntryShape'
  BY <1>0, <1>6, EntryValues DEF StartCommand, CommandKinds, NoEntry
<1>7. ASSUME NEW c \in Commands, Cleanup(c) PROVE EntryShape'
  BY <1>0, <1>7, EntryValues, SlotValues DEF Cleanup, NewEntry
<1>8. UNCHANGED entry => EntryShape'  BY <1>0
<1>. QED
  BY <1>1, <1>2, <1>3, <1>4, <1>5, <1>6, <1>7, <1>8
  DEF CommandKinds, OutputNext, TurnStep, outputVars, Send, Streams, LastEvent, WorkerEndsTurn,
      FastTodoDone, PostTodo, TodoGone,
      CommandKills, CommandWritesRow, CleanupUnpins, KillSilently

\* The slots, the commands and the numbers of the todo messages keep their types.
LEMMA TodoStep == TypeInd /\ [OutputNext]_outputVars => TodoTypes'
<1>. SUFFICES ASSUME TypeInd, [OutputNext]_outputVars PROVE TodoTypes'  OBVIOUS
<1>. USE DEF TodoTypes
<1>0. EntryShape /\ TodoTypes  BY DEF TypeInd
<1>1. entry.slot \in Slots /\ {entry.slot.msg} \ {0} \subseteq Posted
  BY <1>0, SlotValues, MessageNumbers DEF EntryShape, EntryType
<1>2. ASSUME NEW h \in Turns, EndsSilently(h) PROVE TodoTypes'
  BY <1>0, <1>1, <1>2 DEF EndsSilently
<1>r. ASSUME NEW m, Removes(m) PROVE pinned' \subseteq Posted /\ stuck' \subseteq Posted
  BY <1>0, <1>r DEF Removes
<1>3. ASSUME NEW p \in Paths, TakeTodo(p) \/ TodoGone(p) \/ ReleaseTodo(p) PROVE TodoTypes'
  BY <1>0, <1>1, <1>3, <1>r, SlotValues, MessageNumbers DEF TakeTodo, TodoGone, ReleaseTodo
<1>4. ASSUME NEW p \in Paths, PostTodo(p) PROVE TodoTypes'
  <2>1. todos' \in Messages /\ todos' \in Posted
    BY <1>0, <1>4, OutputAssumption DEF PostTodo, Messages, Posted
  <2>. QED  BY <1>0, <1>4, <2>1, SlotValues DEF PostTodo
<1>5. ASSUME NEW c \in Commands, NEW kind \in CommandKinds, StartCommand(c, kind) PROVE TodoTypes'
  BY <1>0, <1>5, MessageNumbers DEF StartCommand, CommandType, Steps, CommandKinds, AnyKind
<1>6. {held[Background].msg} \ {0} \subseteq Posted
  BY <1>0, SlotValues, MessageNumbers DEF Paths
<1>7. ASSUME NEW c \in Commands, CommandKills(c) PROVE TodoTypes'
  <2>1. command' \in [Commands -> CommandType]
    BY <1>0, <1>7, CommandMoves, MessageNumbers DEF CommandKills, Steps
  <2>. QED  BY <1>0, <1>6, <1>7, <2>1, SlotValues DEF CommandKills, Kill
<1>8. ASSUME NEW c \in Commands, CommandWritesRow(c) PROVE TodoTypes'
  <2>1. command' \in [Commands -> CommandType]
    BY <1>0, <1>8, CommandMoves, MessageNumbers DEF CommandWritesRow, Steps
  <2>. QED  BY <1>0, <1>8, <2>1 DEF CommandWritesRow
<1>9. ASSUME NEW c \in Commands, Cleanup(c) PROVE TodoTypes'
  <2>1. command' \in [Commands -> CommandType]
    <3>. DEFINE next == "unpin"   taken == entry.slot.msg
    <3>1. taken \in Messages /\ next \in Steps  BY <1>1, SlotValues DEF Steps
    <3>2. command' = [command EXCEPT ![c].pc = next, ![c].msg = taken]  BY <1>9 DEF Cleanup
    <3>. HIDE DEF next, taken
    <3>. QED  BY <1>0, <3>1, <3>2, CommandMoves
  <2>. QED  BY <1>0, <1>9, <2>1 DEF Cleanup
<1>10. ASSUME NEW c \in Commands, CleanupUnpins(c) PROVE TodoTypes'
  <2>1. command' \in [Commands -> CommandType]
    <3>. DEFINE next == IF command[c].kind = "clear" THEN "row" ELSE "done"
    <3>1. command' = [command EXCEPT ![c].pc = next, ![c].msg = 0]  BY <1>10 DEF CleanupUnpins
    <3>2. next \in Steps  BY DEF Steps
    <3>. HIDE DEF next
    <3>. QED  BY <1>0, <3>1, <3>2, CommandMoves, MessageNumbers
  <2>. QED  BY <1>0, <1>10, <1>r, <2>1 DEF CleanupUnpins
<1>11. CASE KillSilently
  BY <1>0, <1>6, <1>11, SlotValues DEF KillSilently, Kill
<1>12. UNCHANGED <<held, command, pinned, todos, lost, stuck>> => TodoTypes'  BY <1>0
<1>. QED
  BY <1>2, <1>3, <1>4, <1>5, <1>7, <1>8, <1>11, <1>12, <1>10, <1>9
  DEF CommandKinds, OutputNext, TurnStep, outputVars, BeginTurn, Send, Streams, ShowsTool, LastEvent,
      Captures, WorkerEndsTurn,
      CancelsKick, Reports, FastTodoDone, RegisterKick, SendInterrupt, RecordCooldown,
      TakeKick, StopPolling, KickAcquires

\* A handler that has the tracker checked out stays where it gives it back: no step
\* of it leaves process_turn_events or the last update with the tracker.
LEMMA HoldersStep == TypeInd /\ [OutputNext]_outputVars => HoldersGiveBack'
<1>. SUFFICES ASSUME TypeInd, [OutputNext]_outputVars PROVE HoldersGiveBack'  OBVIOUS
<1>0. TurnTypes /\ TodoTypes /\ HoldersGiveBack  BY DEF TypeInd
<1>. USE <1>0 DEF HoldersGiveBack, At, To, TurnTypes
<1>1. ASSUME NEW h \in Turns, BeginTurn(h) \/ Send(h) \/ Streams(h) \/ LastEvent(h) \/ Captures(h)
      PROVE  HoldersGiveBack'
  BY <1>1 DEF BeginTurn, Send, Streams, LastEvent, Captures
<1>2. ASSUME NEW h \in Turns, CancelsKick(h) \/ EndsSilently(h) \/ Reports(h) \/ FastTodoDone(h) \/ RegisterKick(h)
      PROVE  HoldersGiveBack'
  BY <1>2 DEF CancelsKick, EndsSilently, Reports, FastTodoDone, RegisterKick
<1>3. ASSUME NEW h \in Turns, SendInterrupt(h) \/ RecordCooldown(h) \/ StopPolling(h)
      PROVE  HoldersGiveBack'
  BY <1>3 DEF SendInterrupt, RecordCooldown, StopPolling
<1>4. ASSUME NEW h \in Turns, TakeKick(h) \/ KickAcquires(h)
      PROVE  HoldersGiveBack'
  BY <1>4 DEF TakeKick, KickAcquires
<1>5. ASSUME NEW p \in Paths, TakeTodo(p) PROVE HoldersGiveBack'
  <2>1. p # Background => turn[p] \in {"stream", "flush", "fastTodo"}
    BY <1>5 DEF TakeTodo, MayTake
  <2>2. turn' = turn /\ \A h \in Turns : h # p => held'[h] = held[h]
    BY <1>5 DEF TakeTodo, TodoTypes, Paths
  <2>. QED  BY <2>1, <2>2, OutputAssumption
<1>6. ASSUME NEW p \in Paths, PostTodo(p) \/ TodoGone(p) PROVE HoldersGiveBack'
  <2>1. held[p] # Empty  BY <1>6, SlotValues, MessageNumbers DEF PostTodo, TodoGone
  <2>2. turn' = turn /\ \A h \in Turns : h # p => held'[h] = held[h]
    BY <1>6 DEF PostTodo, TodoGone, TodoTypes, Paths
  <2>. QED  BY <2>1, <2>2, OutputAssumption
<1>7. ASSUME NEW p \in Paths, ReleaseTodo(p) PROVE HoldersGiveBack'
  <2>1. turn' = turn /\ held' = [held EXCEPT ![p] = Empty]  BY <1>7 DEF ReleaseTodo
  <2>2. \A h \in Turns : held'[h] = held[h] \/ held'[h] = Empty  BY <2>1 DEF TodoTypes, Paths
  <2>. QED  BY <2>1, <2>2
<1>8. (turn' = turn /\ \E H : held' = [held EXCEPT ![Background] = H]) => HoldersGiveBack'
  BY OutputAssumption DEF TodoTypes, Paths
<1>9. UNCHANGED <<turn, held>> => HoldersGiveBack'  OBVIOUS
<1>. QED
  BY <1>1, <1>2, <1>3, <1>4, <1>5, <1>6, <1>7, <1>8, <1>9
  DEF CommandKinds, OutputNext, TurnStep, outputVars, WorkerEndsTurn, ShowsTool, StartCommand,
      CommandKills, Kill, CommandWritesRow,
      Cleanup, CleanupUnpins, KillSilently

\* All the types together.
LEMMA TypeStep == TypeInd /\ [OutputNext]_outputVars => TypeInd'
BY TurnStepTypes, CountStep, EntryStep, TodoStep, HoldersStep DEF TypeInd

\* Silence stays with the turns that were marked: only Mark and KickAcquires meet a
\* tombstone with a turn, only BeginTurn and EndsSilently take it away, and no turn
\* enters Running past it.
LEMMA SilenceStep ==
  TypeInd /\ TombstoneMarks /\ NewTurnsSpeak /\ [OutputNext]_outputVars => TombstoneMarks' /\ NewTurnsSpeak'
<1>. DEFINE Silence == TombstoneMarks /\ NewTurnsSpeak
<1>. SUFFICES ASSUME TypeInd, TombstoneMarks, NewTurnsSpeak, [OutputNext]_outputVars
              PROVE  Silence'  OBVIOUS
<1>0. TurnTypes /\ EntryShape  BY DEF TypeInd
<1>. USE <1>0, EntryValues DEF TombstoneMarks, NewTurnsSpeak, Running, At, To, TurnTypes,
                               OnEntry, EntryType
<1>1. ASSUME NEW h \in Turns, BeginTurn(h) PROVE Silence'
  BY <1>1 DEF BeginTurn
<1>2. ASSUME NEW h \in Turns, Send(h) \/ Streams(h) \/ LastEvent(h) PROVE Silence'
  BY <1>2 DEF Send, Streams, LastEvent
<1>3. ASSUME NEW h \in Turns, Captures(h) PROVE Silence'
  BY <1>3 DEF Captures
<1>4. ASSUME NEW h \in Turns, CancelsKick(h) PROVE Silence'
  BY <1>4 DEF CancelsKick
<1>5. ASSUME NEW h \in Turns, EndsSilently(h) PROVE Silence'
  BY <1>5 DEF EndsSilently
<1>6. ASSUME NEW h \in Turns, Reports(h) PROVE Silence'
  BY <1>6 DEF Reports
<1>7. ASSUME NEW h \in Turns, FastTodoDone(h) \/ RegisterKick(h) PROVE Silence'
  BY <1>7 DEF FastTodoDone, RegisterKick
<1>8. ASSUME NEW h \in Turns, SendInterrupt(h) \/ RecordCooldown(h) PROVE Silence'
  BY <1>8 DEF SendInterrupt, RecordCooldown
<1>9. ASSUME NEW h \in Turns, TakeKick(h) \/ StopPolling(h) PROVE Silence'
  BY <1>9 DEF TakeKick, StopPolling
<1>10. ASSUME NEW h \in Turns, KickAcquires(h) PROVE Silence'
  BY <1>10 DEF KickAcquires
<1>11. ASSUME NEW p \in Paths, TakeTodo(p) \/ ReleaseTodo(p) PROVE Silence'
  BY <1>11 DEF TakeTodo, ReleaseTodo
<1>12. ASSUME NEW c \in Commands, NEW kind \in CommandKinds, StartCommand(c, kind) PROVE Silence'
  <2>1. CASE kind = "clear"  BY <1>12, <2>1 DEF StartCommand, CommandKinds, Mark
  <2>2. CASE kind = "sleep"  BY <1>12, <2>2 DEF StartCommand, CommandKinds
  <2>3. CASE kind = "closed" /\ entry.joined  BY <1>12, <2>3 DEF StartCommand, CommandKinds, Mark
  <2>4. CASE kind = "closed" /\ ~entry.joined  BY <1>12, <2>4 DEF StartCommand, CommandKinds
  <2>. QED  BY <2>1, <2>2, <2>3, <2>4 DEF CommandKinds
<1>13. ASSUME NEW c \in Commands, Cleanup(c) PROVE Silence'
  <2>1. turn' = turn /\ due' = due /\ marked' = marked  BY <1>13 DEF Cleanup
  <2>2. CASE entry.archived
    <3>1. entry' = [NewEntry EXCEPT !.archived = TRUE]  BY <1>13, <2>2 DEF Cleanup
    <3>2. entry'.archived  BY <3>1 DEF NewEntry, NoEntry
    <3>. QED  BY <2>1, <2>2, <3>2
  <2>3. CASE ~entry.archived
    <3>1. entry' = NoEntry /\ ~NoEntry.archived  BY <1>13, <2>3 DEF Cleanup, NoEntry
    <3>. QED  BY <2>1, <2>3, <3>1
  <2>. QED  BY <2>2, <2>3
<1>14. ASSUME NEW h \in Turns, ShowsTool(h) PROVE Silence'
  BY <1>14 DEF ShowsTool, Entry
<1>15. UNCHANGED <<entry, turn, due, marked>> => Silence'  OBVIOUS
<1>. QED
  BY <1>1, <1>2, <1>3, <1>4, <1>5, <1>6, <1>7, <1>8, <1>9, <1>10, <1>11, <1>12, <1>13, <1>14,
     <1>15
  DEF CommandKinds, OutputNext, TurnStep, outputVars, WorkerEndsTurn, PostTodo, TodoGone,
      CommandKills, CommandWritesRow, CleanupUnpins, KillSilently

\* A flag of /kick is paid for: what takes a credit clears a flag, and a turn that
\* ends by itself clears both.
LEMMA CreditStep ==
  TypeInd /\ KickHasCredit /\ KicksAreSpentOnce /\ [OutputNext]_outputVars
    => KickHasCredit' /\ KicksAreSpentOnce'
<1>. DEFINE Credit == KickHasCredit /\ KicksAreSpentOnce
<1>. SUFFICES ASSUME TypeInd, KickHasCredit, KicksAreSpentOnce, [OutputNext]_outputVars
              PROVE  Credit'
  OBVIOUS
<1>0. EntryShape /\ credit \in Int  BY DEF TypeInd, CountTypes
<1>. USE <1>0, EntryValues DEF KickHasCredit, KicksAreSpentOnce, OnEntry, EntryType
<1>1. ASSUME NEW h \in Turns, BeginTurn(h) \/ ShowsTool(h) \/ Captures(h) PROVE Credit'
  <2>1. credit' = credit /\ (entry'.kick => entry.kick)
    BY <1>1 DEF BeginTurn, ShowsTool, Captures, Entry, NewEntry, NoEntry
  <2>. QED  BY <2>1
<1>2. ASSUME NEW h \in Turns, CancelsKick(h) PROVE Credit'
  <2>1. outcome[h] = "aborted" => credit' = credit /\ (entry'.kick => entry.kick)
    BY <1>2 DEF CancelsKick
  <2>2. outcome[h] # "aborted" => credit' = 0 /\ ~entry'.kick
    <3>1. CASE entry.there  BY <1>2, <3>1 DEF CancelsKick
    <3>2. CASE ~entry.there  BY <1>2, <3>2 DEF CancelsKick, EntryShape, NoEntry
    <3>. QED  BY <3>1, <3>2
  <2>. QED  BY <2>1, <2>2
<1>3. ASSUME NEW h \in Turns, EndsSilently(h) \/ Reports(h) PROVE Credit'
  BY <1>3 DEF EndsSilently, Reports, NoEntry
<1>4. ASSUME NEW h \in Turns, RegisterKick(h) PROVE Credit'
  BY <1>4 DEF RegisterKick
<1>5. ASSUME NEW h \in Turns, SendInterrupt(h) \/ RecordCooldown(h) \/ StopPolling(h) \/ KickAcquires(h)
      PROVE  Credit'
  BY <1>5 DEF SendInterrupt, RecordCooldown, StopPolling, KickAcquires
<1>6. ASSUME NEW h \in Turns, TakeKick(h) PROVE Credit'
  <2>1. entry.kick => entry.there  BY DEF EntryShape, NoEntry
  <2>2. CASE entry.kick
    <3>1. credit' = credit - 1 /\ entry' = [entry EXCEPT !.kick = FALSE]
      BY <1>6, <2>1, <2>2 DEF TakeKick
    <3>. QED  BY <2>2, <3>1
  <2>3. CASE ~entry.kick
    <3>1. credit' = credit /\ (entry' = entry \/ entry' = [entry EXCEPT !.kick = FALSE])
      BY <1>6, <2>3 DEF TakeKick
    <3>. QED  BY <2>3, <3>1
  <2>. QED  BY <2>2, <2>3
<1>7. ASSUME NEW p \in Paths, TakeTodo(p) \/ ReleaseTodo(p) PROVE Credit'
  BY <1>7 DEF TakeTodo, ReleaseTodo
<1>8. ASSUME NEW c \in Commands, NEW kind \in CommandKinds, StartCommand(c, kind) PROVE Credit'
  <2>1. CASE kind = "clear"  BY <1>8, <2>1 DEF StartCommand, CommandKinds
  <2>2. CASE kind = "sleep"  BY <1>8, <2>2 DEF StartCommand, CommandKinds
  <2>3. CASE kind = "closed"  BY <1>8, <2>3 DEF StartCommand, CommandKinds
  <2>. QED  BY <2>1, <2>2, <2>3 DEF CommandKinds
<1>9. ASSUME NEW c \in Commands, Cleanup(c) PROVE Credit'
  BY <1>9 DEF Cleanup, NewEntry, NoEntry
<1>10. UNCHANGED <<entry, credit>> => Credit'  OBVIOUS
<1>. QED
  BY <1>1, <1>2, <1>3, <1>4, <1>5, <1>6, <1>7, <1>8, <1>9, <1>10
  DEF CommandKinds, OutputNext, TurnStep, outputVars, Send, Streams, LastEvent, WorkerEndsTurn,
      FastTodoDone, PostTodo, TodoGone,
      CommandKills, CommandWritesRow, CleanupUnpins, KillSilently
\* No step forgets a todo message: what leaves the slot, a handler or a cleanup is
\* taken over by another of them, removed, or counted as lost or stuck.
LEMMA TodosStep ==
  TypeInd /\ CleanupMessages /\ TodosHaveOwners /\ [OutputNext]_outputVars
    => CleanupMessages' /\ TodosHaveOwners'
<1>. DEFINE Owned(m) == \/ entry.slot.msg = m
                        \/ \E p \in Paths : held[p].msg = m
                        \/ \E c \in Commands : command[c].msg = m
            Owners == CleanupMessages /\ TodosHaveOwners
<1>. SUFFICES ASSUME TypeInd, CleanupMessages, TodosHaveOwners, [OutputNext]_outputVars
              PROVE  Owners'
  OBVIOUS
<1>0. EntryShape /\ TodoTypes /\ \A m \in pinned \ (lost \cup stuck) : Owned(m)
  <2>1. EntryShape /\ TodoTypes  BY DEF TypeInd
  <2>2. \A m \in pinned \ (lost \cup stuck) : Owned(m)  BY DEF TodosHaveOwners
  <2>. QED  BY <2>1, <2>2
<1>r. ASSUME NEW m, Removes(m)
      PROVE  stuck \subseteq stuck' /\ pinned' \subseteq pinned /\ m \notin pinned' \ stuck'
  BY <1>r DEF Removes
<1>1. ASSUME UNCHANGED <<held, command, pinned, lost, stuck>>, entry'.slot.msg = entry.slot.msg
      PROVE  Owners'
  BY <1>1 DEF CleanupMessages, TodosHaveOwners
<1>2. ASSUME NEW h \in Turns,
             BeginTurn(h) \/ ShowsTool(h) \/ Captures(h) \/ CancelsKick(h) \/ Reports(h) \/ RegisterKick(h)
      PROVE  Owners'
  <2>1. UNCHANGED <<held, command, pinned, lost, stuck>>
    BY <1>2 DEF BeginTurn, ShowsTool, Captures, CancelsKick, Reports, RegisterKick
  <2>2. entry'.slot.msg = entry.slot.msg
    BY <1>0, <1>2, EntryValues DEF BeginTurn, ShowsTool, Captures, CancelsKick, Reports,
                                   RegisterKick, OnEntry, EntryType, Entry
  <2>. QED  BY <1>1, <2>1, <2>2
<1>3. ASSUME NEW h \in Turns,
             SendInterrupt(h) \/ RecordCooldown(h) \/ TakeKick(h) \/ StopPolling(h) \/ KickAcquires(h)
      PROVE  Owners'
  <2>1. UNCHANGED <<held, command, pinned, lost, stuck>>
    BY <1>3 DEF SendInterrupt, RecordCooldown, TakeKick, StopPolling, KickAcquires
  <2>2. entry'.slot.msg = entry.slot.msg
    BY <1>0, <1>3, EntryValues DEF SendInterrupt, RecordCooldown, TakeKick, StopPolling,
                                   KickAcquires, OnEntry, EntryType
  <2>. QED  BY <1>1, <2>1, <2>2
<1>4. ASSUME NEW h \in Turns, EndsSilently(h) PROVE Owners'
  <2>1. UNCHANGED <<held, command, pinned, stuck>> /\ lost' = lost \cup ({entry.slot.msg} \ {0})
    BY <1>4 DEF EndsSilently
  <2>2. \A m \in pinned : m # 0  BY <1>0, MessageNumbers DEF TodoTypes
  <2>. QED  BY <1>0, <2>1, <2>2 DEF CleanupMessages, TodosHaveOwners
<1>5. ASSUME NEW p \in Paths, TakeTodo(p) PROVE Owners'
  <2>1. UNCHANGED <<command, pinned, lost, stuck>> /\ held[p].msg = 0
    BY <1>5, SlotValues DEF TakeTodo
  <2>2. held'[p].msg = entry.slot.msg /\ \A q \in Paths \ {p} : held'[q] = held[q]
    BY <1>0, <1>5 DEF TakeTodo, TodoTypes, Here
  <2>3. \A m \in pinned : m # 0  BY <1>0, MessageNumbers DEF TodoTypes
  <2>. QED  BY <1>0, <2>1, <2>2, <2>3 DEF CleanupMessages, TodosHaveOwners
<1>6. ASSUME NEW p \in Paths, PostTodo(p) PROVE Owners'
  <2>1. UNCHANGED <<entry, command, lost, stuck>> /\ pinned' = pinned \cup {todos'} /\ held[p].msg = 0
    BY <1>6, SlotValues DEF PostTodo, Here
  <2>2. held'[p].msg = todos' /\ \A q \in Paths \ {p} : held'[q] = held[q]
    BY <1>0, <1>6 DEF PostTodo, TodoTypes, Here
  <2>3. \A m \in pinned : m # 0  BY <1>0, MessageNumbers DEF TodoTypes
  <2>. QED  BY <1>0, <2>1, <2>2, <2>3 DEF CleanupMessages, TodosHaveOwners
<1>7. ASSUME NEW p \in Paths, TodoGone(p) PROVE Owners'
  <2>1. /\ UNCHANGED <<entry, command, lost>> /\ stuck \subseteq stuck' /\ pinned' \subseteq pinned
        /\ held[p].msg \notin pinned' \ stuck'
    BY <1>7, <1>r DEF TodoGone
  <2>2. \A q \in Paths \ {p} : held'[q] = held[q]
    BY <1>0, <1>7 DEF TodoGone, TodoTypes
  <2>. QED  BY <1>0, <2>1, <2>2 DEF CleanupMessages, TodosHaveOwners
<1>8. ASSUME NEW p \in Paths, ReleaseTodo(p) PROVE Owners'
  <2>1. command' = command /\ lost' = lost \cup ({entry.slot.msg} \ {0})
    BY <1>8 DEF ReleaseTodo
  <2>2. \A q \in Paths \ {p} : held'[q] = held[q]
    BY <1>0, <1>8 DEF ReleaseTodo, TodoTypes
  <2>3. /\ pinned' \subseteq pinned /\ stuck \subseteq stuck'
        /\ held[p].msg \in pinned' \ stuck' => entry'.slot.msg = held[p].msg
    BY <1>0, <1>8, <1>r DEF ReleaseTodo, EntryShape, EntryType
  <2>4. \A m \in pinned : m # 0  BY <1>0, MessageNumbers DEF TodoTypes
  <2>. QED  BY <1>0, <2>1, <2>2, <2>3, <2>4 DEF CleanupMessages, TodosHaveOwners
<1>9. ASSUME NEW c \in Commands, NEW kind \in CommandKinds, StartCommand(c, kind) PROVE Owners'
  <2>1. command[c].msg = 0
    BY <1>9 DEF StartCommand, CommandKinds, CleanupMessages
  <2>2. UNCHANGED <<held, pinned, lost, stuck>> /\ \A d \in Commands \ {c} : command'[d] = command[d]
    BY <1>0, <1>9 DEF StartCommand, CommandKinds, TodoTypes
  <2>3. command'[c].msg = 0
    BY <1>0, <1>9 DEF StartCommand, CommandKinds, TodoTypes
  <2>4. entry'.slot.msg = entry.slot.msg
    <3>1. CASE kind = "clear"
      BY <1>0, <1>9, <3>1, EntryValues DEF StartCommand, CommandKinds, EntryType
    <3>2. CASE kind = "sleep"  BY <1>9, <3>2 DEF StartCommand, CommandKinds
    <3>3. CASE kind = "closed"
      BY <1>0, <1>9, <3>3, EntryValues DEF StartCommand, CommandKinds, EntryType
    <3>. QED  BY <3>1, <3>2, <3>3 DEF CommandKinds
  <2>5. \A m \in pinned : m # 0  BY <1>0, MessageNumbers DEF TodoTypes
  <2>. QED  BY <1>0, <2>1, <2>2, <2>3, <2>4, <2>5 DEF CleanupMessages, TodosHaveOwners
<1>10. ASSUME Kill, UNCHANGED <<entry, pinned, stuck>>,
              \A c \in Commands : command'[c].msg = command[c].msg /\ (command[c].pc = "unpin" => command'[c].pc = "unpin")
       PROVE  Owners'
  <2>1. \A q \in Paths : held'[q] = held[q] \/ (q = Background /\ held'[q] = Empty)
    BY <1>0, <1>10 DEF Kill, TodoTypes
  <2>2. lost' = lost \cup ({held[Background].msg} \ {0})  BY <1>10 DEF Kill
  <2>3. \A m \in pinned : m # 0  BY <1>0, MessageNumbers DEF TodoTypes
  <2>. QED  BY <1>0, <1>10, <2>1, <2>2, <2>3 DEF CleanupMessages, TodosHaveOwners
<1>11. ASSUME NEW c \in Commands, CommandKills(c) PROVE Owners'
  <2>1. PICK s \in Steps : command' = [command EXCEPT ![c].pc = s]
    BY <1>11 DEF CommandKills, Steps
  <2>2. \A d \in Commands : command'[d].msg = command[d].msg /\ (d # c => command'[d].pc = command[d].pc)
    BY <1>0, <2>1, CommandMoves, MessageNumbers
  <2>. QED  BY <1>10, <1>11, <2>2 DEF CommandKills
<1>12. ASSUME NEW c \in Commands, CommandWritesRow(c) PROVE Owners'
  <2>1. PICK s \in Steps : command' = [command EXCEPT ![c].pc = s]
    BY <1>12 DEF CommandWritesRow, Steps
  <2>2. \A d \in Commands : command'[d].msg = command[d].msg /\ (d # c => command'[d].pc = command[d].pc)
    BY <1>0, <2>1, CommandMoves, MessageNumbers
  <2>. QED  BY <1>0, <1>12, <2>2 DEF CommandWritesRow, CleanupMessages, TodosHaveOwners
<1>13. ASSUME NEW c \in Commands, Cleanup(c) PROVE Owners'
  <2>. DEFINE next == "unpin"   taken == entry.slot.msg
  <2>1. taken \in Messages /\ next \in Steps
    BY <1>0, SlotValues DEF Steps, EntryShape, EntryType
  <2>2. command' = [command EXCEPT ![c].pc = next, ![c].msg = taken] /\ UNCHANGED <<held, pinned, lost, stuck>>
    BY <1>13 DEF Cleanup
  <2>3. next = "unpin" /\ taken = entry.slot.msg  OBVIOUS
  <2>. HIDE DEF next, taken
  <2>4. \A d \in Commands : /\ command'[d].msg = IF d = c THEN taken ELSE command[d].msg
                            /\ command'[d].pc = IF d = c THEN next ELSE command[d].pc
    <3>1. \A d \in Commands :
            /\ [command EXCEPT ![c].pc = next, ![c].msg = taken][d].msg = IF d = c THEN taken ELSE command[d].msg
            /\ [command EXCEPT ![c].pc = next, ![c].msg = taken][d].pc = IF d = c THEN next ELSE command[d].pc
      BY <1>0, <2>1 DEF TodoTypes, CommandType
    <3>. QED  BY <2>2, <3>1
  <2>5. command[c].msg = 0  BY <1>13 DEF Cleanup, CleanupMessages
  <2>6. \A m \in pinned : m # 0  BY <1>0, MessageNumbers DEF TodoTypes
  <2>. QED  BY <1>0, <2>2, <2>3, <2>4, <2>5, <2>6 DEF CleanupMessages, TodosHaveOwners
<1>14. ASSUME NEW c \in Commands, CleanupUnpins(c) PROVE Owners'
  <2>. DEFINE next == IF command[c].kind = "clear" THEN "row" ELSE "done"
  <2>1. /\ command' = [command EXCEPT ![c].pc = next, ![c].msg = 0]
        /\ UNCHANGED <<entry, held, lost>> /\ stuck \subseteq stuck' /\ pinned' \subseteq pinned
        /\ command[c].msg \notin pinned' \ stuck'
    BY <1>14, <1>r DEF CleanupUnpins
  <2>2. next \in Steps  BY DEF Steps
  <2>. HIDE DEF next
  <2>3. \A d \in Commands : /\ command'[d].msg = IF d = c THEN 0 ELSE command[d].msg
                            /\ command'[d].pc = IF d = c THEN next ELSE command[d].pc
    <3>1. \A d \in Commands :
            /\ [command EXCEPT ![c].pc = next, ![c].msg = 0][d].msg = IF d = c THEN 0 ELSE command[d].msg
            /\ [command EXCEPT ![c].pc = next, ![c].msg = 0][d].pc = IF d = c THEN next ELSE command[d].pc
      BY <1>0, <2>2, MessageNumbers DEF TodoTypes, CommandType
    <3>. QED  BY <2>1, <3>1
  <2>. QED  BY <1>0, <2>1, <2>3 DEF CleanupMessages, TodosHaveOwners
<1>15. CASE KillSilently
  BY <1>10, <1>15 DEF KillSilently
<1>16. UNCHANGED <<entry, held, command, pinned, lost, stuck>> => Owners'  BY <1>1
<1>. QED
  BY <1>2, <1>3, <1>4, <1>5, <1>6, <1>7, <1>8, <1>9, <1>11, <1>12, <1>13, <1>14, <1>15, <1>16
  DEF CommandKinds, OutputNext, TurnStep, outputVars, Send, Streams, LastEvent, WorkerEndsTurn,
      FastTodoDone

\* The invariant is inductive.
LEMMA OutputStep == OutputInd /\ [OutputNext]_outputVars => OutputInd'
BY TypeStep, SilenceStep, CreditStep, TodosStep DEF OutputInd

\* The inductive invariant holds in every state, for any number of handlers and
\* commands.
THEOREM OutputInvariant == OutputSpec => []OutputInd
BY OutputInitial, OutputStep, PTL DEF OutputSpec

\* For any number of turns and commands: a turn that ends in silence was running, or
\* is the turn of a /kick that found the tombstone, when the tombstone was set
\* (begin_turn, #314).
THEOREM NewTurnsAreHeard == OutputSpec => []NewTurnsSpeak
<1>1. OutputInd => NewTurnsSpeak  BY DEF OutputInd
<1>. QED  BY <1>1, OutputInvariant, PTL

\* For any number of kicks: no more turns are started for /kick than flags were
\* registered and not cancelled by a turn that ended by itself.
THEOREM KicksStartOneTurn == OutputSpec => []KicksAreSpentOnce
<1>1. OutputInd => KicksAreSpentOnce  BY DEF OutputInd
<1>. QED  BY <1>1, OutputInvariant, PTL

\* For any number of paths, todo messages and failed requests: a message on Discord that
\* was not lost in one of the three known ways, and whose removal did not fail, is in the
\* slot, checked out or in a cleanup.
THEOREM TodosStayOwned == OutputSpec => []TodosHaveOwners
<1>1. OutputInd => TodosHaveOwners  BY DEF OutputInd
<1>. QED  BY <1>1, OutputInvariant, PTL

\* Type correctness, and that a handler has the tracker only where it gives it back.
THEOREM OutputTypes == OutputSpec => []OutputTypeOK
<1>1. OutputInd => OutputTypeOK
  BY DEF OutputInd, TypeInd, TurnTypes, CountTypes, EntryShape, EntryType, TodoTypes,
         HoldersGiveBack, Messages, Posted,
         CommandType, Steps, CommandKinds, AnyKind, OutputTypeOK
<1>. QED  BY <1>1, OutputInvariant, PTL

\* A step by which a turn reports its end is never taken by a turn that a tombstone
\* has still to silence, whatever cleanups ran in between.
THEOREM ClearedTurnsStaySilent == OutputSpec => ClearedTurnsAreSilent
<1>. DEFINE Silenced == \A h \in Turns : turn[h] = "check" /\ turn'[h] \in {"fastTodo",
"done"} => h \notin due
<1>1. OutputInd /\ [OutputNext]_outputVars => [Silenced]_outputVars
  <2>. SUFFICES ASSUME OutputInd, [OutputNext]_outputVars PROVE [Silenced]_outputVars  OBVIOUS
  <2>0. TurnTypes /\ TombstoneMarks  BY DEF OutputInd, TypeInd
  <2>1. ASSUME NEW h \in Turns, turn[h] = "check", turn'[h] \in {"fastTodo", "done"}
        PROVE  Reports(h)
    <3>. USE <2>0, <2>1 DEF TurnTypes, At, To
    <3>1. ASSUME NEW g \in Turns, BeginTurn(g) \/ Send(g) \/ Streams(g) \/ LastEvent(g) \/ Captures(g)
          PROVE  FALSE
      BY <3>1 DEF BeginTurn, Send, Streams, LastEvent, Captures
    <3>2. ASSUME NEW g \in Turns, CancelsKick(g) \/ EndsSilently(g) \/ FastTodoDone(g) \/ RegisterKick(g)
          PROVE  FALSE
      BY <3>2 DEF CancelsKick, EndsSilently, FastTodoDone, RegisterKick
    <3>3. ASSUME NEW g \in Turns, SendInterrupt(g) \/ RecordCooldown(g) \/ StopPolling(g)
          PROVE  FALSE
      BY <3>3 DEF SendInterrupt, RecordCooldown, StopPolling
    <3>4. ASSUME NEW g \in Turns, TakeKick(g) \/ KickAcquires(g) PROVE FALSE
      BY <3>4 DEF TakeKick, KickAcquires
    <3>5. ASSUME NEW g \in Turns, Reports(g) PROVE Reports(h)
      BY <3>5 DEF Reports
    <3>6. turn' = turn => FALSE  OBVIOUS
    <3>. QED
      BY <3>1, <3>2, <3>3, <3>4, <3>5, <3>6
      DEF CommandKinds, OutputNext, TurnStep, outputVars, WorkerEndsTurn, ShowsTool, TakeTodo,
          PostTodo, TodoGone, ReleaseTodo, Removes, StartCommand,
          CommandKills, CommandWritesRow, Cleanup, CleanupUnpins, KillSilently
  <2>. QED  BY <2>0, <2>1 DEF TombstoneMarks, Reports
<1>. QED  BY <1>1, OutputInvariant, PTL DEF OutputSpec, ClearedTurnsAreSilent

(***************************************************************************)
(* The context of a thread and its next-step buttons.  A step of a handler  *)
(* leaves the others alone, so what it may take away is what it alone would *)
(* have brought.                                                            *)
(***************************************************************************)
ContextSpec == ContextInit /\ [][ContextNext]_contextVars

InputSteps == {"new", "lock", "open", "take", "inject", "send", "flag", "old", "turn", "summary",
               "record", "clicked", "done"}
InputRecord == [at : InputSteps, kind : {"text", "compact", "direct"}, fresh : BOOLEAN,
                context : BOOLEAN, offer : Nat]
InputTypes ==
  /\ input \in [Handlers -> InputRecord]
  /\ row \in BOOLEAN /\ needs \in BOOLEAN /\ owed \in BOOLEAN

Brings(h) == \/ input[h].fresh /\ input[h].at \in {"lock", "open", "take", "inject", "send"}
             \/ input[h].context /\ input[h].at = "send"
             \/ input[h].at = "flag"
OtherBrings(h) == \E g \in Handlers \ {h} : Brings(g)

\* A direct execution brings no context; a fresh text that is sent has taken it along.
KindInd(h) ==
  /\ input[h].kind = "direct" => ~input[h].fresh /\ ~input[h].context
  /\ input[h].kind = "text" /\ input[h].at = "send" /\ input[h].fresh => input[h].context

\* Buttons that somebody looks after are recorded or about to be.
ButtonsInd ==
  /\ offers \in Nat /\ 0 \notin buttons
  /\ \A b \in buttons \ stray :
       b = button \/ \E h \in Handlers : input[h].at = "record" /\ input[h].offer = b

ContextInd == InputTypes /\ (\A h \in Handlers : KindInd(h)) /\ ContextIsKept /\ ButtonsInd

\* Handler h goes to a step and the others stay.
Goes(h, to) == InputTypes' /\ input'[h].at = to /\ \A g \in Handlers \ {h} : input'[g] = input[g]

\* Somebody brings the context if h does or another handler.
LEMMA WhoBrings ==
  ASSUME NEW h \in Handlers
  PROVE  /\ Bringing # {} <=> Brings(h) \/ OtherBrings(h)
         /\ Bringing \ {h} # {} <=> OtherBrings(h)
<1>1. \A g \in Handlers : g \in Bringing <=> Brings(g)
  BY DEF Bringing, Brings
<1>2. Bringing \subseteq Handlers
  BY DEF Bringing
<1> HIDE DEF Bringing
<1> QED BY <1>1, <1>2 DEF OtherBrings

\* What HandlerTo leaves of a handler.
LEMMA HandlerMoves ==
  ASSUME InputTypes, NEW h \in Handlers, NEW to \in InputSteps, HandlerTo(h, to),
         row' \in BOOLEAN, needs' \in BOOLEAN, owed' \in BOOLEAN
  PROVE  /\ Goes(h, to)
         /\ to = "done" => ~input'[h].fresh /\ ~input'[h].context
         /\ to # "done" => /\ input'[h].kind = input[h].kind /\ input'[h].fresh = input[h].fresh
                           /\ input'[h].context = input[h].context /\ input'[h].offer = input[h].offer
<1>1. CASE to = "done"
  <2> DEFINE over == [Idle EXCEPT !.at = "done"]
  <2>1. over.at = "done" /\ ~over.fresh /\ ~over.context /\ over \in InputRecord
    BY DEF Idle, InputRecord, InputSteps
  <2>2. input' = [input EXCEPT ![h] = over]
    BY <1>1 DEF HandlerTo
  <2> HIDE DEF over
  <2> QED BY <1>1, <2>1, <2>2 DEF Goes, InputTypes
<1>2. CASE to # "done"
  <2> DEFINE next == [input[h] EXCEPT !.at = to]
  <2>1. /\ next.at = to /\ next.kind = input[h].kind /\ next.fresh = input[h].fresh
        /\ next.context = input[h].context /\ next.offer = input[h].offer /\ next \in InputRecord
    BY DEF InputTypes, InputRecord
  <2>2. input' = [input EXCEPT ![h] = next]
    BY <1>2 DEF HandlerTo
  <2> HIDE DEF next
  <2> QED BY <1>2, <2>1, <2>2 DEF Goes, InputTypes
<1> QED BY <1>1, <1>2

\* The context survives a step of h if h brings it, the flag does or another handler.
LEMMA ContextStays ==
  ASSUME ContextInd, NEW h \in Handlers, NEW to, Goes(h, to), KindInd(h)',
         owed' => needs' \/ Brings(h)' \/ OtherBrings(h)
  PROVE  InputTypes' /\ (\A g \in Handlers : KindInd(g)') /\ ContextIsKept'
<1>1. \A g \in Handlers \ {h} : (Brings(g)' <=> Brings(g)) /\ (KindInd(g)' <=> KindInd(g))
  BY DEF Goes, Brings, KindInd
<1>2. \A g \in Handlers : KindInd(g)'
  BY <1>1 DEF ContextInd
<1>3. \A g \in Handlers : Brings(g)' => (Bringing # {})'
  BY DEF Brings, Bringing
<1>4. OtherBrings(h) => (Bringing # {})'
  BY <1>1, <1>3 DEF OtherBrings
<1> QED BY <1>2, <1>3, <1>4 DEF ContextIsKept, Goes

\* As long as the context was owed before, it was kept.
LEMMA KeptBefore ==
  ASSUME ContextInd, NEW h \in Handlers
  PROVE  owed => needs \/ Brings(h) \/ OtherBrings(h)
BY WhoBrings DEF ContextInd, ContextIsKept

\* A step that has nothing to do with buttons.
LEMMA ButtonsStay ==
  ASSUME ContextInd, NEW h \in Handlers, NEW to, Goes(h, to), input[h].at # "record",
         UNCHANGED <<button, buttons, offers, stray>>
  PROVE  ButtonsInd'
BY DEF ContextInd, ButtonsInd, Goes

\* A first message brings the context.
LEMMA ArriveStep ==
  ASSUME ContextInd, NEW h \in Handlers, NEW kind \in {"text", "compact", "direct"}, Arrive(h, kind)
  PROVE  ContextInd'
<1> DEFINE start == [Idle EXCEPT !.at = "lock", !.kind = kind, !.fresh = ~row]
<1>1. /\ input[h].at = "new" /\ (kind = "direct" => row) /\ input' = [input EXCEPT ![h] = start]
      /\ row' = TRUE /\ owed' = (owed \/ ~row) /\ UNCHANGED <<needs, button, buttons, offers, stray>>
  BY DEF Arrive
<1>2. /\ start.at = "lock" /\ start.kind = kind /\ start.fresh = (~row) /\ start.context = FALSE
      /\ start \in InputRecord
  BY DEF Idle, InputRecord, InputSteps
<1> HIDE DEF start
<1>3. Goes(h, "lock") /\ input'[h] = start
  BY <1>1, <1>2 DEF ContextInd, InputTypes, Goes
<1>4. KindInd(h)' /\ (~row => Brings(h)')
  BY <1>1, <1>2, <1>3 DEF KindInd, Brings
<1>5. owed' => needs' \/ Brings(h)' \/ OtherBrings(h)
  BY <1>1, <1>4, KeptBefore DEF Brings
<1> QED BY <1>1, <1>3, <1>4, <1>5, ContextStays, ButtonsStay DEF ContextInd

\* The lock is taken.
LEMMA EnterStep == ASSUME ContextInd, NEW h \in Handlers, Enter(h) PROVE ContextInd'
<1>1. /\ input[h].at = "lock" /\ HandlerTo(h, "open")
      /\ UNCHANGED <<row, needs, owed, button, buttons, offers, stray>>
  BY DEF Enter
<1>2. /\ Goes(h, "open") /\ input'[h].kind = input[h].kind /\ input'[h].fresh = input[h].fresh
      /\ input'[h].context = input[h].context
  BY <1>1, HandlerMoves DEF ContextInd, InputTypes, InputSteps
<1>3. KindInd(h)' /\ (Brings(h)' <=> Brings(h))
  BY <1>1, <1>2 DEF ContextInd, KindInd, Brings, Goes
<1>4. owed' => needs' \/ Brings(h)' \/ OtherBrings(h)
  BY <1>1, <1>3, KeptBefore
<1> QED BY <1>1, <1>2, <1>3, <1>4, ContextStays, ButtonsStay DEF ContextInd

\* What is forgiven is not owed.
LEMMA Forgiven ==
  ASSUME ContextInd, NEW h \in Handlers, ForgivenBy(h)
  PROVE  owed' \in BOOLEAN /\ (owed' => needs \/ OtherBrings(h))
BY WhoBrings DEF ForgivenBy

\* A handler that is done has no kind to keep to.
LEMMA DoneKeepsKind ==
  ASSUME NEW h \in Handlers, Goes(h, "done"), ~input'[h].fresh, ~input'[h].context
  PROVE  KindInd(h)'
BY DEF Goes, KindInd

\* The session cannot be opened.
LEMMA OpenFailsStep == ASSUME ContextInd, NEW h \in Handlers, OpenFails(h) PROVE ContextInd'
<1>1. /\ input[h].at = "open" /\ HandlerTo(h, "done") /\ ForgivenBy(h)
      /\ UNCHANGED <<row, needs, button, buttons, offers, stray>>
  BY DEF OpenFails
<1>2. Goes(h, "done") /\ KindInd(h)'
  BY <1>1, HandlerMoves, Forgiven, DoneKeepsKind DEF ContextInd, InputTypes, InputSteps
<1>3. owed' => needs' \/ Brings(h)' \/ OtherBrings(h)
  BY <1>1, Forgiven
<1> QED BY <1>1, <1>2, <1>3, ContextStays, ButtonsStay DEF ContextInd

\* The turn is acquired, or the message is injected.
LEMMA AcquireTurnStep == ASSUME ContextInd, NEW h \in Handlers, AcquireTurn(h) PROVE ContextInd'
<1>1. PICK to \in {"send", "take", "inject"} :
        HandlerTo(h, to) /\ (to = "send" => input[h].kind = "compact")
  BY DEF AcquireTurn
<1>2. input[h].at = "open" /\ UNCHANGED <<row, needs, owed, button, buttons, offers, stray>>
  BY DEF AcquireTurn
<1>3. /\ Goes(h, to) /\ input'[h].kind = input[h].kind /\ input'[h].fresh = input[h].fresh
      /\ input'[h].context = input[h].context
  BY <1>1, <1>2, HandlerMoves DEF ContextInd, InputTypes, InputSteps
<1>4. KindInd(h)' /\ (Brings(h) => Brings(h)')
  BY <1>1, <1>2, <1>3 DEF ContextInd, KindInd, Brings, Goes
<1>5. owed' => needs' \/ Brings(h)' \/ OtherBrings(h)
  BY <1>2, <1>4, KeptBefore
<1> QED BY <1>2, <1>3, <1>4, <1>5, ContextStays, ButtonsStay DEF ContextInd

\* A text takes the context along.
LEMMA TakeContextStep == ASSUME ContextInd, NEW h \in Handlers, TakeContext(h) PROVE ContextInd'
<1> DEFINE context == input[h].fresh \/ needs
           next == [input[h] EXCEPT !.at = "send", !.context = context]
<1>1. /\ input[h].at = "take" /\ input[h].kind = "text" /\ needs' = FALSE
      /\ input' = [input EXCEPT ![h].at = "send", ![h].context = context]
      /\ UNCHANGED <<row, owed, button, buttons, offers, stray>>
  BY DEF TakeContext
<1>2. context \in BOOLEAN
  OBVIOUS
<1> HIDE DEF context
<1>3. /\ input' = [input EXCEPT ![h] = next]
      /\ next.at = "send" /\ next.kind = "text" /\ next.fresh = input[h].fresh /\ next.context = context
      /\ next \in InputRecord
  BY <1>1, <1>2 DEF ContextInd, InputTypes, InputRecord, InputSteps
<1> HIDE DEF next
<1>4. Goes(h, "send") /\ input'[h] = next
  BY <1>1, <1>3 DEF ContextInd, InputTypes, Goes
<1>5. KindInd(h)' /\ (Brings(h) \/ needs => Brings(h)')
  BY <1>1, <1>3, <1>4 DEF KindInd, Brings, context
<1>6. owed' => needs' \/ Brings(h)' \/ OtherBrings(h)
  BY <1>1, <1>5, KeptBefore
<1> QED BY <1>1, <1>4, <1>5, <1>6, ContextStays, ButtonsStay DEF ContextInd

\* A direct execution drops the flag.
LEMMA DropContextStep == ASSUME ContextInd, NEW h \in Handlers, DropContext(h) PROVE ContextInd'
<1>1. /\ input[h].at = "take" /\ input[h].kind = "direct" /\ needs' = FALSE /\ HandlerTo(h, "send")
      /\ owed' = (owed /\ Bringing # {}) /\ UNCHANGED <<row, button, buttons, offers, stray>>
  BY DEF DropContext
<1>2. /\ Goes(h, "send") /\ input'[h].kind = "direct" /\ input'[h].fresh = input[h].fresh
      /\ input'[h].context = input[h].context
  BY <1>1, HandlerMoves DEF ContextInd, InputTypes, InputSteps
<1>3. KindInd(h)' /\ (Brings(h) => Brings(h)')
  BY <1>1, <1>2 DEF ContextInd, KindInd, Brings, Goes
<1>4. owed' => needs' \/ Brings(h)' \/ OtherBrings(h)
  BY <1>1, <1>3, WhoBrings
<1> QED BY <1>1, <1>2, <1>3, <1>4, ContextStays, ButtonsStay DEF ContextInd

\* A message is sent: a text with its context, a compact that leaves the flag to be set.
LEMMA SendPrimaryStep ==
  ASSUME ContextInd, NEW h \in Handlers, NEW sent \in BOOLEAN, SendPrimary(h, sent)
  PROVE  ContextInd'
<1>1. /\ input[h].at = "send" /\ input[h].kind # "direct"
      /\ UNCHANGED <<row, needs, button, buttons, offers, stray>>
  BY DEF SendPrimary
<1>2. input[h].kind \in {"text", "compact"}
  BY <1>1 DEF ContextInd, InputTypes, InputRecord
<1>3. CASE ~sent
  <2>1. HandlerTo(h, "done") /\ ForgivenBy(h)
    BY <1>3 DEF SendPrimary
  <2>2. Goes(h, "done") /\ KindInd(h)'
    BY <1>1, <2>1, HandlerMoves, Forgiven, DoneKeepsKind DEF ContextInd, InputTypes, InputSteps
  <2>3. owed' => needs' \/ Brings(h)' \/ OtherBrings(h)
    BY <1>1, <2>1, Forgiven
  <2> QED BY <1>1, <2>2, <2>3, ContextStays, ButtonsStay DEF ContextInd
<1>4. CASE sent /\ input[h].kind = "compact"
  <2>1. HandlerTo(h, "flag") /\ owed' = TRUE
    BY <1>4 DEF SendPrimary
  <2>2. Goes(h, "flag") /\ input'[h].kind = "compact"
    BY <1>1, <1>4, <2>1, HandlerMoves DEF ContextInd, InputTypes, InputSteps
  <2>3. KindInd(h)' /\ Brings(h)'
    BY <2>2 DEF KindInd, Brings, Goes
  <2> QED BY <1>1, <2>2, <2>3, ContextStays, ButtonsStay DEF ContextInd
<1>5. CASE sent /\ input[h].kind = "text"
  <2>1. HandlerTo(h, "old") /\ owed' = (owed /\ ~input[h].context)
    BY <1>5 DEF SendPrimary
  <2>2. Goes(h, "old") /\ input'[h].kind = "text"
    BY <1>1, <1>5, <2>1, HandlerMoves DEF ContextInd, InputTypes, InputSteps
  <2>3. KindInd(h)'
    BY <2>2 DEF KindInd, Goes
  <2>4. Brings(h) => input[h].context
    BY <1>1, <1>5 DEF ContextInd, KindInd, Brings
  <2>5. owed' => needs' \/ Brings(h)' \/ OtherBrings(h)
    BY <1>1, <2>1, <2>4, KeptBefore
  <2> QED BY <1>1, <2>2, <2>3, <2>5, ContextStays, ButtonsStay DEF ContextInd
<1> QED BY <1>2, <1>3, <1>4, <1>5

\* A handler that brings nothing goes to a step where it brings nothing.
LEMMA NothingBrought ==
  ASSUME ContextInd, NEW h \in Handlers, NEW to \in InputSteps, HandlerTo(h, to),
         ~Brings(h), input[h].at # "record", to \in {"old", "turn", "summary", "clicked", "done"},
         UNCHANGED <<row, needs, owed>>
  PROVE  /\ Goes(h, to) /\ InputTypes' /\ ContextIsKept'
         /\ \A g \in Handlers : KindInd(g)'
<1>1. /\ Goes(h, to)
      /\ to = "done" => ~input'[h].fresh /\ ~input'[h].context
      /\ to # "done" => /\ input'[h].kind = input[h].kind /\ input'[h].fresh = input[h].fresh
                        /\ input'[h].context = input[h].context
  BY HandlerMoves DEF ContextInd, InputTypes
<1>2. KindInd(h)'
  BY <1>1 DEF ContextInd, KindInd, Goes
<1>3. owed' => needs' \/ Brings(h)' \/ OtherBrings(h)
  BY KeptBefore
<1> QED BY <1>1, <1>2, <1>3, ContextStays

\* A direct execution is sent, or not, or injected.
LEMMA DirectStep ==
  ASSUME ContextInd, NEW h \in Handlers,
         InjectDirect(h) \/ \E sent \in BOOLEAN : SendDirect(h, sent)
  PROVE  ContextInd'
<1>1. PICK to \in {"old", "done"} : HandlerTo(h, to)
  BY DEF InjectDirect, SendDirect
<1>2. /\ input[h].at \in {"send", "inject"} /\ input[h].kind = "direct"
      /\ UNCHANGED <<row, needs, owed, button, buttons, offers, stray>>
  BY DEF InjectDirect, SendDirect
<1>3. ~Brings(h)
  BY <1>2 DEF ContextInd, KindInd, Brings
<1>4. Goes(h, to) /\ InputTypes' /\ ContextIsKept' /\ \A g \in Handlers : KindInd(g)'
  BY <1>1, <1>2, <1>3, NothingBrought DEF InputSteps
<1> QED BY <1>2, <1>4, ButtonsStay DEF ContextInd

\* A message in the middle of a turn.
LEMMA InjectStep ==
  ASSUME ContextInd, NEW h \in Handlers, NEW sent \in BOOLEAN, Inject(h, sent)
  PROVE  ContextInd'
<1>1. input[h].at = "inject" /\ UNCHANGED <<row, needs, button, buttons, offers, stray>>
  BY DEF Inject
<1>2. CASE sent /\ input[h].kind = "compact"
  <2>1. HandlerTo(h, "flag") /\ owed' = TRUE
    BY <1>2 DEF Inject
  <2>2. Goes(h, "flag") /\ input'[h].kind = "compact"
    BY <1>1, <1>2, <2>1, HandlerMoves DEF ContextInd, InputTypes, InputSteps
  <2>3. KindInd(h)' /\ Brings(h)'
    BY <2>2 DEF KindInd, Brings, Goes
  <2> QED BY <1>1, <2>2, <2>3, ContextStays, ButtonsStay DEF ContextInd
<1>3. CASE ~(sent /\ input[h].kind = "compact")
  <2>1. HandlerTo(h, "done") /\ ForgivenBy(h)
    BY <1>3 DEF Inject
  <2>2. Goes(h, "done") /\ KindInd(h)'
    BY <1>1, <2>1, HandlerMoves, Forgiven, DoneKeepsKind DEF ContextInd, InputTypes, InputSteps
  <2>3. owed' => needs' \/ Brings(h)' \/ OtherBrings(h)
    BY <1>1, <2>1, Forgiven
  <2> QED BY <1>1, <2>2, <2>3, ContextStays, ButtonsStay DEF ContextInd
<1> QED BY <1>2, <1>3

\* The flag is set.
LEMMA SetFlagStep == ASSUME ContextInd, NEW h \in Handlers, SetFlag(h) PROVE ContextInd'
<1>1. PICK to \in {"old", "done"} : HandlerTo(h, to)
  BY DEF SetFlag
<1>2. /\ input[h].at = "flag" /\ needs' = TRUE
      /\ UNCHANGED <<row, owed, button, buttons, offers, stray>>
  BY DEF SetFlag
<1>3. /\ Goes(h, to)
      /\ to = "done" => ~input'[h].fresh /\ ~input'[h].context
      /\ to # "done" => /\ input'[h].kind = input[h].kind /\ input'[h].fresh = input[h].fresh
                        /\ input'[h].context = input[h].context
  BY <1>1, <1>2, HandlerMoves DEF ContextInd, InputTypes, InputSteps
<1>4. KindInd(h)'
  BY <1>3 DEF ContextInd, KindInd, Goes
<1> QED BY <1>2, <1>3, <1>4, ContextStays, ButtonsStay DEF ContextInd

\* The state of the thread is cleaned up.
LEMMA ForgetStateStep == ContextInd /\ ForgetState => ContextInd'
<1> SUFFICES ASSUME ContextInd, ForgetState PROVE ContextInd'
  OBVIOUS
<1>1. /\ needs' = FALSE /\ button' = 0 /\ owed' = (owed /\ Bringing # {})
      /\ stray' = stray \cup ({button} \ {0}) /\ UNCHANGED <<row, input, buttons, offers>>
  BY DEF ForgetState
<1>2. InputTypes' /\ (\A h \in Handlers : KindInd(h)')
  BY <1>1 DEF ContextInd, InputTypes, KindInd
<1>3. ContextIsKept'
  BY <1>1 DEF ContextIsKept, Bringing
<1>4. ButtonsInd'
  BY <1>1 DEF ContextInd, ButtonsInd
<1> QED BY <1>2, <1>3, <1>4 DEF ContextInd

\* A turn begins and removes the old buttons, ends, and posts and records new ones.
LEMMA HandlerTurnStep ==
  ASSUME ContextInd, NEW h \in Handlers, NEW ok \in BOOLEAN,
         RemoveOld(h, ok) \/ EndTurn(h)
  PROVE  ContextInd'
<1>1. PICK to \in {"turn", "summary"} : HandlerTo(h, to)
  BY DEF RemoveOld, EndTurn
<1>2. input[h].at \in {"old", "turn"} /\ UNCHANGED <<row, needs, owed, offers>>
  BY DEF RemoveOld, EndTurn
<1>3. ~Brings(h)
  BY <1>2 DEF Brings
<1>4. Goes(h, to) /\ InputTypes' /\ ContextIsKept' /\ \A g \in Handlers : KindInd(g)'
  BY <1>1, <1>2, <1>3, NothingBrought DEF InputSteps
<1>5. ButtonsInd'
  <2>1. /\ buttons' \subseteq buttons /\ stray \subseteq stray'
        /\ button' = button \/ button \notin buttons' \ stray'
    BY DEF RemoveOld, EndTurn, ContextInd, ButtonsInd
  <2> QED BY <1>2, <1>4, <2>1 DEF ContextInd, ButtonsInd, Goes
<1> QED BY <1>4, <1>5 DEF ContextInd

\* A summary is posted.
LEMMA PostSummaryStep ==
  ASSUME ContextInd, NEW h \in Handlers, NEW offered \in BOOLEAN, PostSummary(h, offered)
  PROVE  ContextInd'
<1>1. input[h].at = "summary" /\ UNCHANGED <<row, needs, owed, button, stray>>
  BY DEF PostSummary
<1>2. ~Brings(h)
  BY <1>1 DEF Brings
<1>3. CASE ~offered
  <2>1. HandlerTo(h, "done") /\ UNCHANGED <<buttons, offers>>
    BY <1>3 DEF PostSummary
  <2>2. Goes(h, "done") /\ InputTypes' /\ ContextIsKept' /\ \A g \in Handlers : KindInd(g)'
    BY <1>1, <1>2, <2>1, NothingBrought DEF InputSteps
  <2> QED BY <1>1, <2>1, <2>2, ButtonsStay DEF ContextInd
<1>4. CASE offered
  <2> DEFINE next == [input[h] EXCEPT !.at = "record", !.offer = offers + 1]
  <2>1. /\ offers' = offers + 1 /\ buttons' = buttons \cup {offers'}
        /\ input' = [input EXCEPT ![h].at = "record", ![h].offer = offers']
    BY <1>4 DEF PostSummary
  <2>2. offers \in Nat /\ offers + 1 \in Nat /\ offers + 1 # 0
    BY DEF ContextInd, ButtonsInd
  <2>3. /\ input' = [input EXCEPT ![h] = next]
        /\ next.at = "record" /\ next.kind = input[h].kind /\ next.fresh = input[h].fresh
        /\ next.context = input[h].context /\ next.offer = offers + 1 /\ next \in InputRecord
    BY <2>1, <2>2 DEF ContextInd, InputTypes, InputRecord, InputSteps
  <2> HIDE DEF next
  <2>4. Goes(h, "record") /\ input'[h] = next
    BY <1>1, <2>3 DEF ContextInd, InputTypes, Goes
  <2>5. KindInd(h)'
    BY <2>3, <2>4 DEF ContextInd, KindInd
  <2>6. owed' => needs' \/ Brings(h)' \/ OtherBrings(h)
    BY <1>1, <1>2, KeptBefore
  <2>7. ButtonsInd'
    <3>1. offers' \in Nat /\ 0 \notin buttons'
      BY <2>1, <2>2 DEF ContextInd, ButtonsInd
    <3>2. ASSUME NEW b \in buttons' \ stray'
          PROVE  b = button' \/ \E g \in Handlers : input'[g].at = "record" /\ input'[g].offer = b
      <4>1. CASE b = offers + 1
        BY <2>3, <2>4, <4>1
      <4>2. CASE b \in buttons \ stray
        BY <1>1, <2>4, <4>2 DEF ContextInd, ButtonsInd, Goes
      <4> QED BY <1>1, <2>1, <3>2, <4>1, <4>2
    <3> QED BY <3>1, <3>2 DEF ButtonsInd
  <2> QED BY <2>4, <2>5, <2>6, <2>7, ContextStays DEF ContextInd
<1> QED BY <1>3, <1>4

\* Its buttons are recorded.
LEMMA RecordOfferStep == ASSUME ContextInd, NEW h \in Handlers, RecordOffer(h) PROVE ContextInd'
<1>1. /\ input[h].at = "record" /\ button' = input[h].offer /\ HandlerTo(h, "done")
      /\ stray' = stray \cup ({button} \ {0}) /\ UNCHANGED <<row, needs, owed, buttons, offers>>
  BY DEF RecordOffer
<1>2. Goes(h, "done") /\ KindInd(h)'
  BY <1>1, HandlerMoves, DoneKeepsKind DEF ContextInd, InputTypes, InputSteps
<1>3. owed' => needs' \/ Brings(h)' \/ OtherBrings(h)
  BY <1>1, KeptBefore DEF Brings
<1>4. ButtonsInd'
  <2> SUFFICES ASSUME NEW b \in buttons \ stray'
               PROVE  b = button' \/ \E g \in Handlers : input'[g].at = "record" /\ input'[g].offer = b
    BY <1>1 DEF ContextInd, ButtonsInd
  <2>1. b \in buttons \ stray /\ b # button
    BY <1>1 DEF ContextInd, ButtonsInd
  <2>2. PICK g \in Handlers : input[g].at = "record" /\ input[g].offer = b
    BY <2>1 DEF ContextInd, ButtonsInd
  <2>3. CASE g = h
    BY <1>1, <2>2, <2>3
  <2>4. CASE g # h
    BY <1>2, <2>2, <2>4 DEF Goes
  <2> QED BY <2>3, <2>4
<1> QED BY <1>2, <1>3, <1>4, ContextStays DEF ContextInd

\* A click takes the buttons away or leaves them stray.
LEMMA ClickStep ==
  ASSUME ContextInd, NEW h \in Handlers, NEW offer \in 1..MaxOffers, NEW answered \in BOOLEAN,
         NEW owner \in BOOLEAN, Click(h, offer, answered, owner)
  PROVE  ContextInd'
<1>1. PICK to \in {"clicked", "done"} : HandlerTo(h, to)
  BY DEF Click
<1>2. input[h].at = "new" /\ UNCHANGED <<row, needs, owed, button, offers>>
  BY DEF Click
<1>3. Goes(h, to) /\ InputTypes' /\ ContextIsKept' /\ \A g \in Handlers : KindInd(g)'
  <2>1. ~Brings(h)
    BY <1>2 DEF Brings
  <2> QED BY <1>1, <1>2, <2>1, NothingBrought DEF InputSteps
<1>4. ButtonsInd'
  <2>1. buttons' \subseteq buttons /\ stray \subseteq stray'
    BY DEF Click
  <2> QED BY <1>2, <1>3, <2>1 DEF ContextInd, ButtonsInd, Goes
<1> QED BY <1>3, <1>4 DEF ContextInd

\* The recorded offer starts a direct execution.
LEMMA TakeOfferStep ==
  ASSUME ContextInd, NEW h \in Handlers, NEW exists \in BOOLEAN, TakeOffer(h, exists)
  PROVE  ContextInd'
<1>1. /\ input[h].at = "clicked" /\ button' = 0 /\ stray' = stray \cup (buttons \cap {button})
      /\ UNCHANGED <<row, needs, owed, buttons, offers>>
  BY DEF TakeOffer
<1>2. PICK next \in InputRecord :
        /\ input' = [input EXCEPT ![h] = next]
        /\ next.at \in {"lock", "done"} /\ next.fresh = FALSE /\ next.context = FALSE
  <2> DEFINE next == [Idle EXCEPT !.at = "lock", !.kind = "direct"]
             over == [Idle EXCEPT !.at = "done"]
  <2>1. next \in InputRecord /\ next.at = "lock" /\ next.fresh = FALSE /\ next.context = FALSE
    BY DEF Idle, InputRecord, InputSteps
  <2>2. over \in InputRecord /\ over.at = "done" /\ over.fresh = FALSE /\ over.context = FALSE
    BY DEF Idle, InputRecord, InputSteps
  <2>3. input' = [input EXCEPT ![h] = next] \/ input' = [input EXCEPT ![h] = over]
    BY DEF TakeOffer
  <2> HIDE DEF next, over
  <2> QED BY <2>1, <2>2, <2>3
<1>3. Goes(h, next.at) /\ input'[h] = next
  BY <1>1, <1>2 DEF ContextInd, InputTypes, Goes
<1>4. KindInd(h)'
  BY <1>2, <1>3 DEF KindInd
<1>5. owed' => needs' \/ Brings(h)' \/ OtherBrings(h)
  BY <1>1, KeptBefore DEF Brings
<1>6. ButtonsInd'
  BY <1>1, <1>3 DEF ContextInd, ButtonsInd, Goes
<1> QED BY <1>3, <1>4, <1>5, <1>6, ContextStays DEF ContextInd

\* Every step keeps the invariant.
LEMMA ContextStep == ContextInd /\ [ContextNext]_contextVars => ContextInd'
<1> SUFFICES ASSUME ContextInd, [ContextNext]_contextVars PROVE ContextInd'
  OBVIOUS
<1>1. CASE ForgetState
  BY <1>1, ForgetStateStep
<1>2. ASSUME NEW h \in Handlers, HandlerStep(h) PROVE ContextInd'
  <2>1. ASSUME NEW kind \in {"text", "compact", "direct"}, Arrive(h, kind) PROVE ContextInd'
    BY <2>1, ArriveStep
  <2>2. CASE \/ Enter(h) \/ OpenFails(h) \/ AcquireTurn(h) \/ TakeContext(h) \/ DropContext(h)
             \/ SetFlag(h) \/ RecordOffer(h)
    BY <2>2, EnterStep, OpenFailsStep, AcquireTurnStep, TakeContextStep, DropContextStep,
       SetFlagStep, RecordOfferStep
  <2>3. CASE InjectDirect(h)
    BY <2>3, DirectStep
  <2>4. CASE EndTurn(h)
    BY <2>4, HandlerTurnStep
  <2>5. ASSUME NEW ok \in BOOLEAN,
               \/ SendPrimary(h, ok) \/ SendDirect(h, ok) \/ Inject(h, ok) \/ RemoveOld(h, ok)
               \/ PostSummary(h, ok) \/ TakeOffer(h, ok)
        PROVE  ContextInd'
    BY <2>5, SendPrimaryStep, DirectStep, InjectStep, HandlerTurnStep, PostSummaryStep, TakeOfferStep
  <2>6. ASSUME NEW offer \in 1..MaxOffers, NEW answered \in BOOLEAN, NEW owner \in BOOLEAN,
               Click(h, offer, answered, owner)
        PROVE  ContextInd'
    BY <2>6, ClickStep
  <2> QED BY <1>2, <2>1, <2>2, <2>3, <2>4, <2>5, <2>6 DEF HandlerStep
<1>3. CASE UNCHANGED contextVars
  <2>1. /\ InputTypes' /\ \A h \in Handlers : KindInd(h)'
    BY <1>3 DEF contextVars, ContextInd, InputTypes, KindInd
  <2>2. ContextIsKept' /\ ButtonsInd'
    BY <1>3 DEF contextVars, ContextInd, ContextIsKept, Bringing, ButtonsInd
  <2> QED BY <2>1, <2>2 DEF ContextInd
<1> QED BY <1>1, <1>2, <1>3 DEF ContextNext

\* At the start nothing is owed and no button is there.
LEMMA ContextInitial == ContextInit => ContextInd
<1> SUFFICES ASSUME ContextInit PROVE ContextInd
  OBVIOUS
<1>1. Idle \in InputRecord /\ ~Idle.fresh /\ ~Idle.context
  BY DEF Idle, InputRecord, InputSteps
<1>2. /\ row = FALSE /\ needs = FALSE /\ owed = FALSE /\ buttons = {} /\ offers = 0
      /\ input = [h \in Handlers |-> Idle]
  BY DEF ContextInit
<1>3. InputTypes /\ \A h \in Handlers : KindInd(h)
  BY <1>1, <1>2 DEF InputTypes, KindInd
<1>4. ContextIsKept /\ ButtonsInd
  BY <1>2 DEF ContextIsKept, ButtonsInd
<1> QED BY <1>3, <1>4 DEF ContextInd

(***************************************************************************)
(* The files of a message.  They are the files on the disk but for what a   *)
(* failed write left, and every attachment was downloaded or reported.      *)
(***************************************************************************)
FilesSpec == FilesInit /\ [][FilesNext]_fileVars

FilesInd ==
  /\ paths \in Seq(Nat) /\ errors \in Nat
  /\ step \in {"choose", "download", "send", "sent", "failed"}
  /\ leftover \subseteq disk /\ Files \cap leftover = {}
  /\ disk \ leftover = (IF step = "failed" THEN {} ELSE Files)
  /\ \A i, j \in ToSet(paths) : File(i) = File(j) => i = j
  /\ step = "choose" => paths = <<>> /\ errors = 0
  /\ step = "download" => Len(paths) + errors <= Len(attached)
  /\ step \in {"send", "sent", "failed"} => (Fits => Len(paths) + errors = Len(attached))
  /\ attached \in Seq([name : FileNames, size : Nat])

\* A downloaded file is one more path.
LEMMA FileAppended ==
  ASSUME paths \in Seq(Nat), NEW e \in Nat, paths' = Append(paths, e)
  PROVE  /\ paths' \in Seq(Nat) /\ Len(paths') = Len(paths) + 1
         /\ ToSet(paths') = ToSet(paths) \cup {e}
<1>1. /\ paths' \in Seq(Nat) /\ Len(paths') = Len(paths) + 1
      /\ \A i \in 1..Len(paths) : paths'[i] = paths[i]
      /\ paths'[Len(paths) + 1] = e
  OBVIOUS
<1>2. DOMAIN paths' = 1..(Len(paths) + 1) /\ DOMAIN paths = 1..Len(paths) /\ Len(paths) \in Nat
  BY <1>1
<1>3. \A n \in DOMAIN paths' : n \in DOMAIN paths \/ n = Len(paths) + 1
  BY <1>2
<1>4. \A n \in DOMAIN paths : n \in DOMAIN paths'
  BY <1>2
<1>5. Len(paths) + 1 \in DOMAIN paths'
  BY <1>2
<1> QED BY <1>1, <1>2, <1>3, <1>4, <1>5 DEF ToSet

\* Steps that keep the files and the attachments.
LEMMA FilesRest ==
  ASSUME UNCHANGED <<attached, paths>>
  PROVE  Files' = Files /\ (Fits' <=> Fits) /\ \A i : File(i)' = File(i)
BY DEF Files, File, Fits

\* Every step keeps the invariant of the files.
LEMMA FilesStep == FilesInd /\ [FilesNext]_fileVars => FilesInd'
<1> SUFFICES ASSUME FilesInd, [FilesNext]_fileVars PROVE FilesInd'
  OBVIOUS
<1>0. MaxFile \in Nat /\ Len(paths) \in Nat /\ Len(attached) \in Nat
  BY InputAssumption DEF FilesInd
<1>1. ASSUME NEW name \in FileNames, NEW size \in 1..(MaxFile + 1), Attach(name, size)
      PROVE  FilesInd'
  <2>1. /\ step = "choose" /\ attached' = Append(attached, [name |-> name, size |-> size])
        /\ UNCHANGED <<step, disk, paths, errors, leftover>>
    BY <1>1 DEF Attach
  <2>2. attached' \in Seq([name : FileNames, size : Nat])
    BY <1>0, <2>1 DEF FilesInd
  <2>3. paths = <<>> /\ ToSet(paths) = {} /\ Files = {} /\ Files' = {}
    BY <2>1 DEF FilesInd, ToSet, Files
  <2> QED BY <2>1, <2>2, <2>3 DEF FilesInd
<1>2. CASE StartDownload
  <2>1. /\ step = "choose" /\ step' = (IF Fits THEN "download" ELSE "send")
        /\ errors' = (IF Fits THEN 0 ELSE 1) /\ UNCHANGED <<attached, disk, paths, leftover>>
    BY <1>2 DEF StartDownload
  <2>2. Files' = Files /\ (Fits' <=> Fits) /\ \A i : File(i)' = File(i)
    BY <2>1, FilesRest
  <2>3. paths = <<>> /\ Len(paths) = 0
    BY <2>1 DEF FilesInd
  <2> QED BY <1>0, <2>1, <2>2, <2>3 DEF FilesInd
<1>3. CASE Refuse
  <2>1. /\ step = "download" /\ Len(paths) + errors + 1 <= Len(attached)
        /\ errors' = errors + 1 /\ UNCHANGED <<attached, step, disk, paths, leftover>>
    BY <1>3 DEF Refuse, Left, Current
  <2>2. Files' = Files /\ (Fits' <=> Fits) /\ \A i : File(i)' = File(i)
    BY <2>1, FilesRest
  <2> QED BY <1>0, <2>1, <2>2 DEF FilesInd
<1>4. ASSUME NEW saved \in BOOLEAN, Save(saved) PROVE FilesInd'
  <2> DEFINE current == Current
             file == File(current)
  <2>1. /\ step = "download" /\ current = Len(paths) + errors + 1 /\ current <= Len(attached)
        /\ UNCHANGED <<attached, step>>
    BY <1>4 DEF Save, Left, Current
  <2>2. current \in Nat
    BY <1>0, <2>1 DEF FilesInd
  <2>3. CASE file \in disk
    <3>1. errors' = errors + 1 /\ UNCHANGED <<disk, paths, leftover>>
      BY <1>4, <2>3 DEF Save
    <3>2. Files' = Files /\ (Fits' <=> Fits) /\ \A i : File(i)' = File(i)
      BY <2>1, <3>1, FilesRest
    <3> QED BY <1>0, <2>1, <3>1, <3>2 DEF FilesInd
  <2>4. CASE file \notin disk /\ ~saved
    <3>1. /\ disk' = disk \cup {file} /\ leftover' = leftover \cup {file}
          /\ errors' = errors + 1 /\ UNCHANGED paths
      BY <1>4, <2>4 DEF Save
    <3>2. Files' = Files /\ (Fits' <=> Fits) /\ \A i : File(i)' = File(i)
      BY <2>1, <3>1, FilesRest
    <3>3. Files \subseteq disk
      BY <2>1 DEF FilesInd
    <3> QED BY <1>0, <2>1, <2>4, <3>1, <3>2, <3>3 DEF FilesInd
  <2>5. CASE file \notin disk /\ saved
    <3>1. disk' = disk \cup {file} /\ paths' = Append(paths, current) /\ UNCHANGED <<errors, leftover>>
      BY <1>4, <2>5 DEF Save
    <3>2. paths' \in Seq(Nat) /\ Len(paths') = Len(paths) + 1 /\ ToSet(paths') = ToSet(paths) \cup {current}
      BY <2>2, <3>1, FileAppended DEF FilesInd
    <3>3. \A i : File(i)' = File(i)
      BY <2>1 DEF File
    <3> HIDE DEF current
    <3>4. Files' = Files \cup {file}
      BY <3>2, <3>3 DEF Files
    <3>5. Files \subseteq disk /\ leftover \subseteq disk
      BY <2>1 DEF FilesInd
    <3>6. \A i \in ToSet(paths) : File(i) # file
      BY <2>5, <3>5 DEF Files
    <3>7. \A i, j \in ToSet(paths') : File(i)' = File(j)' => i = j
      BY <3>2, <3>3, <3>6 DEF FilesInd
    <3>8. disk' \ leftover' = Files' /\ leftover' \subseteq disk' /\ Files' \cap leftover' = {}
      BY <2>1, <2>5, <3>1, <3>4, <3>5 DEF FilesInd
    <3> QED BY <1>0, <2>1, <3>1, <3>2, <3>7, <3>8 DEF FilesInd
  <2> QED BY <2>3, <2>4, <2>5
<1>5. CASE EndDownload
  <2>1. /\ step = "download" /\ ~(Len(paths) + errors + 1 <= Len(attached)) /\ step' = "send"
        /\ UNCHANGED <<attached, disk, paths, errors, leftover>>
    BY <1>5 DEF EndDownload, Left, Current
  <2>2. Files' = Files /\ (Fits' <=> Fits) /\ \A i : File(i)' = File(i)
    BY <2>1, FilesRest
  <2> QED BY <1>0, <2>1, <2>2 DEF FilesInd
<1>6. ASSUME NEW sent \in BOOLEAN, SendWithFiles(sent) PROVE FilesInd'
  <2>1. /\ step = "send" /\ step' = (IF sent THEN "sent" ELSE "failed")
        /\ disk' = (IF sent THEN disk ELSE disk \ Files)
        /\ UNCHANGED <<attached, paths, errors, leftover>>
    BY <1>6 DEF SendWithFiles
  <2>2. Files' = Files /\ (Fits' <=> Fits) /\ \A i : File(i)' = File(i)
    BY <2>1, FilesRest
  <2> QED BY <2>1, <2>2 DEF FilesInd
<1>7. CASE UNCHANGED fileVars
  <2>1. Files' = Files /\ (Fits' <=> Fits) /\ \A i : File(i)' = File(i)
    BY <1>7, FilesRest DEF fileVars
  <2> QED BY <1>7, <2>1 DEF FilesInd, fileVars
<1> QED BY <1>1, <1>2, <1>3, <1>4, <1>5, <1>6, <1>7 DEF FilesNext

\* At the start nothing is there.
LEMMA FilesInitial == FilesInit => FilesInd
<1> SUFFICES ASSUME FilesInit PROVE FilesInd
  OBVIOUS
<1>1. paths = <<>> /\ ToSet(paths) = {} /\ Files = {}
  BY DEF FilesInit, ToSet, Files
<1> QED BY <1>1 DEF FilesInit, FilesInd

\* Both machines beside each other.
InputSpec == ContextSpec /\ FilesSpec

\* However messages, commands, clicks and clean-ups interleave, what is owed is brought,
\* the buttons are live, and the files are those the message names.
THEOREM MessagesStayComplete == InputSpec => []MessagesAreComplete
<1>1. ContextInd => ContextIsKept /\ ButtonsAreLive
  <2> SUFFICES ASSUME ContextInd, \A h \in Handlers : input[h].at \in {"new", "lock", "done"},
                      NEW b \in buttons \ stray
               PROVE  b = button
    BY DEF ContextInd, ButtonsAreLive
  <2> QED BY DEF ContextInd, ButtonsInd
<1>2. FilesInd => FilesAreKept
  BY DEF FilesInd, FilesAreKept
<1>3. ContextSpec => [](ContextIsKept /\ ButtonsAreLive)
  BY <1>1, ContextInitial, ContextStep, PTL DEF ContextSpec
<1>4. FilesSpec => []FilesAreKept
  BY <1>2, FilesInitial, FilesStep, PTL DEF FilesSpec
<1> QED BY <1>3, <1>4, PTL DEF InputSpec, MessagesAreComplete

(***************************************************************************)
(* The rate-limit monitor.  What was told of a window in its cycle is what  *)
(* was posted last of it, and while the monitor goes from one window to the *)
(* other it works on the info that is not unseen.                           *)
(***************************************************************************)
RateSpec == RateInit /\ [][RateNext]_rateVars

Usages == {{}} \cup {{p} : p \in Percents}
InfoType == [pct : [Windows -> Usages], reset : [Windows -> Nat], updated : BOOLEAN]
RateTypes ==
  /\ info \in InfoType /\ infoUnseen \in BOOLEAN /\ clock \in Nat
  /\ monitor \in [at : {"idle"} \cup Windows, held : InfoType, now : Nat,
                  cycle : [Windows -> Nat], told : [Windows -> Usages]]
  /\ failed \subseteq Windows

Bucket(w, p) == p \div Step(w)

\* What was posted of a window is what is kept as told in its cycle.
ToldIsPosted ==
  /\ DOMAIN posted = Windows
  /\ \A w \in Windows : monitor.told[w] # {} =>
       posted[w] = {[pct |-> p, reset |-> monitor.cycle[w]] : p \in monitor.told[w]}

\* A usage p that ends at reset was told.
ToldOf(w, p, reset) ==
  monitor.cycle[w] = reset /\ \E q \in monitor.told[w] : Bucket(w, q) = Bucket(w, p)
TellsAll(w, i, now) ==
  w \notin failed => \A p \in i.pct[w] : i.reset[w] > now => ToldOf(w, p, i.reset[w])

MonitorInd ==
  /\ ~info.updated => \A w \in Windows : info.pct[w] = {}
  /\ monitor.at = "idle" /\ ~infoUnseen => \A w \in Windows : TellsAll(w, info, clock)
  /\ monitor.at = "seven_day" => TellsAll("five_hour", monitor.held, monitor.now)
  /\ monitor.at # "idle" => monitor.now <= clock /\ (~infoUnseen => monitor.held = info)

RateInd == RateTypes /\ ToldIsPosted /\ MonitorInd

\* An event and the clock leave alone what was told.
LEMMA SameTold ==
  ASSUME UNCHANGED <<monitor, failed>>, NEW w, NEW i, NEW now, TellsAll(w, i, now)
  PROVE  TellsAll(w, i, now)'
BY DEF TellsAll, ToldOf

\* What notify_if_changed makes of the monitor.
Notified(w, told) ==
  /\ monitor'.cycle = [monitor.cycle EXCEPT ![w] = monitor.held.reset[w]]
  /\ monitor'.told = [monitor.told EXCEPT ![w] = told]
  /\ monitor'.at = IF w = "five_hour" THEN "seven_day" ELSE "idle"
  /\ monitor'.held = IF w = "five_hour" THEN monitor.held ELSE info
  /\ monitor'.now = IF w = "five_hour" THEN monitor.now ELSE 0
  /\ monitor' \in [at : {"idle"} \cup Windows, held : InfoType, now : Nat,
                   cycle : [Windows -> Nat], told : [Windows -> Usages]]

\* A window is told, or nothing new is to be told of it, or its message failed.
LEMMA NotifyTells ==
  ASSUME RateTypes, ToldIsPosted, NEW w \in Windows, NEW sent \in BOOLEAN,
         NotifyWindow(w, sent), NEW i, i = monitor.held, NEW now, now = monitor.now
  PROVE  /\ \E told \in Usages : Notified(w, told)
         /\ ToldIsPosted' /\ RateTypes' /\ TellsAll(w, i, now)'
         /\ \A v \in Windows \ {w} : v \in failed' <=> v \in failed
<1> DEFINE pct == monitor.held.pct[w]
           reset == monitor.held.reset[w]
           pending == BucketChanged(pct, ToldThisCycle(w), Step(w)) /\ reset > monitor.now
           told == IF pending /\ sent THEN pct ELSE ToldThisCycle(w)
<1>1. /\ pct \in Usages /\ reset \in Nat /\ ToldThisCycle(w) \in Usages /\ monitor.now \in Nat
      /\ info \in InfoType /\ monitor.held \in InfoType
  BY DEF RateTypes, InfoType, ToldThisCycle, Usages
<1>2. told \in Usages
  BY <1>1
<1>3. Notified(w, told)
  <2>1. monitor' = [monitor EXCEPT !.cycle[w] = reset, !.told[w] = told,
                      !.at = IF w = "five_hour" THEN "seven_day" ELSE "idle",
                      !.held = IF w = "five_hour" THEN monitor.held ELSE info,
                      !.now = IF w = "five_hour" THEN monitor.now ELSE 0]
    BY DEF NotifyWindow
  <2> HIDE DEF told, reset
  <2>2. "five_hour" \in Windows /\ "seven_day" \in Windows
    BY DEF Windows
  <2> QED BY <1>1, <1>2, <2>1, <2>2 DEF Notified, RateTypes, reset
<1>4. /\ posted' = IF pending /\ sent THEN [posted EXCEPT ![w] = {[pct |-> p, reset |-> reset] : p \in pct}]
                   ELSE posted
      /\ failed' = IF pending /\ ~sent THEN failed \cup {w} ELSE failed \ {w}
      /\ UNCHANGED <<info, infoUnseen, clock>>
  BY DEF NotifyWindow
<1>5. ToldThisCycle(w) # {} => monitor.cycle[w] = reset /\ ToldThisCycle(w) = monitor.told[w]
  BY DEF ToldThisCycle
<1>6. ~pending => pct = {} \/ reset <= monitor.now \/
                (ToldThisCycle(w) # {} /\ \A p \in pct, q \in ToldThisCycle(w) : Bucket(w, p) = Bucket(w, q))
  BY <1>1 DEF BucketChanged, Bucket
<1> HIDE DEF pct, reset, pending, told
<1>7. ToldIsPosted'
  <2>1. DOMAIN posted' = Windows
    BY <1>4 DEF ToldIsPosted
  <2>2. ASSUME NEW v \in Windows, monitor'.told[v] # {}
        PROVE  posted'[v] = {[pct |-> p, reset |-> monitor'.cycle[v]] : p \in monitor'.told[v]}
    <3>1. CASE v # w
      <4>1. monitor'.told[v] = monitor.told[v] /\ monitor'.cycle[v] = monitor.cycle[v]
        BY <1>3, <3>1 DEF Notified, RateTypes
      <4>2. posted'[v] = posted[v]
        BY <1>4, <3>1 DEF ToldIsPosted
      <4> QED BY <2>2, <4>1, <4>2 DEF ToldIsPosted
    <3>2. CASE v = w
      <4>1. monitor'.told[v] = told /\ monitor'.cycle[v] = reset
        BY <1>3, <3>2 DEF Notified, RateTypes, reset
      <4>2. CASE pending /\ sent
        BY <1>4, <3>2, <4>1, <4>2 DEF ToldIsPosted, told
      <4>3. CASE ~(pending /\ sent)
        <5>1. told = ToldThisCycle(w) /\ posted' = posted
          BY <1>4, <4>3 DEF told
        <5> QED BY <1>5, <2>2, <3>2, <4>1, <5>1 DEF ToldIsPosted
      <4> QED BY <4>2, <4>3
    <3> QED BY <3>1, <3>2
  <2> QED BY <2>1, <2>2 DEF ToldIsPosted
<1>8. RateTypes'
  BY <1>3, <1>4 DEF RateTypes, Notified
<1>9. TellsAll(w, i, now)'
  <2>1. SUFFICES ASSUME w \notin failed', NEW p \in pct, reset > monitor.now
                 PROVE  monitor'.cycle[w] = reset /\ \E q \in monitor'.told[w] : Bucket(w, q) = Bucket(w, p)
    BY DEF TellsAll, ToldOf, pct, reset
  <2>2. monitor'.told[w] = told /\ monitor'.cycle[w] = reset
    BY <1>3 DEF Notified, RateTypes, reset
  <2>3. CASE pending
    <3>1. sent
      BY <1>4, <2>1, <2>3
    <3> QED BY <2>1, <2>2, <2>3, <3>1 DEF told
  <2>4. CASE ~pending
    <3>1. told = ToldThisCycle(w)
      BY <2>4 DEF told
    <3>2. ToldThisCycle(w) # {} /\ \A q \in ToldThisCycle(w) : Bucket(w, p) = Bucket(w, q)
      BY <1>1, <1>6, <2>1, <2>4
    <3> QED BY <2>2, <3>1, <3>2
  <2> QED BY <2>3, <2>4
<1>10. \A v \in Windows \ {w} : v \in failed' <=> v \in failed
  BY <1>4
<1> QED BY <1>2, <1>3, <1>7, <1>8, <1>9, <1>10

\* Every step of the rate-limit monitor keeps its invariant.
LEMMA RateStep == RateInd /\ [RateNext]_rateVars => RateInd'
<1> SUFFICES ASSUME RateInd, [RateNext]_rateVars PROVE RateInd'
  OBVIOUS
<1> USE DEF RateInd
<1>1. ASSUME NEW w \in Windows, NEW used \in {{}} \cup {{p} : p \in Percents},
             NEW reset \in 0..MaxClock, RateEvent(w, used, reset)
      PROVE  RateInd'
  <2>1. UNCHANGED <<monitor, posted, failed, clock>> /\ infoUnseen' = TRUE
    BY <1>1 DEF RateEvent
  <2>2. info' \in InfoType /\ info'.updated
    <3> DEFINE pct == IF used = {} THEN info.pct[w] ELSE used
    <3>1. info' = [info EXCEPT !.pct[w] = pct, !.reset[w] = reset, !.updated = TRUE]
      BY <1>1 DEF RateEvent
    <3>2. pct \in Usages /\ reset \in Nat
      BY <1>1 DEF RateTypes, InfoType, Usages
    <3> HIDE DEF pct
    <3> QED BY <3>1, <3>2 DEF RateTypes, InfoType
  <2>3. RateTypes' /\ ToldIsPosted'
    BY <2>1, <2>2 DEF RateTypes, ToldIsPosted
  <2>4. MonitorInd'
    BY <2>1, <2>2, SameTold DEF MonitorInd, TellsAll, ToldOf
  <2> QED BY <2>3, <2>4
<1>2. CASE UnknownWindow
  <2>1. UNCHANGED <<info, monitor, posted, failed, clock>> /\ infoUnseen' = TRUE
    BY <1>2 DEF UnknownWindow
  <2>2. RateTypes' /\ ToldIsPosted'
    BY <2>1 DEF RateTypes, ToldIsPosted
  <2>3. MonitorInd'
    BY <2>1 DEF MonitorInd, TellsAll, ToldOf
  <2> QED BY <2>2, <2>3
<1>3. CASE TimePasses
  <2>1. UNCHANGED <<info, infoUnseen, monitor, posted, failed>> /\ clock' = clock + 1
    BY <1>3 DEF TimePasses
  <2>2. RateTypes' /\ ToldIsPosted'
    BY <2>1 DEF RateTypes, ToldIsPosted
  <2>3. ASSUME NEW w \in Windows, TellsAll(w, info, clock)
        PROVE  TellsAll(w, info, clock)'
    <3>1. \A n \in Nat : n > clock + 1 => n > clock
      BY DEF RateTypes
    <3>2. info.reset[w] \in Nat
      BY DEF RateTypes, InfoType
    <3> QED BY <2>1, <2>3, <3>1, <3>2 DEF TellsAll, ToldOf
  <2>4. monitor.now \in Nat /\ clock \in Nat
    BY DEF RateTypes
  <2>5. MonitorInd'
    BY <2>1, <2>3, <2>4 DEF MonitorInd, TellsAll, ToldOf
  <2> QED BY <2>2, <2>5
<1>4. CASE SeeRate
  <2>1. UNCHANGED <<info, posted, failed, clock>> /\ infoUnseen' = FALSE /\ monitor.at = "idle"
    BY <1>4 DEF SeeRate
  <2>2. CASE info.updated
    <3>1. monitor' = [monitor EXCEPT !.at = "five_hour", !.held = info, !.now = clock]
      BY <1>4, <2>2 DEF SeeRate
    <3>2. /\ monitor'.at = "five_hour" /\ monitor'.held = info /\ monitor'.now = clock
          /\ monitor'.cycle = monitor.cycle /\ monitor'.told = monitor.told
      BY <3>1 DEF RateTypes
    <3>3. RateTypes'
      BY <2>1, <3>1 DEF RateTypes, Windows
    <3>4. ToldIsPosted'
      BY <2>1, <3>2 DEF ToldIsPosted
    <3>5. MonitorInd'
      BY <2>1, <2>2, <3>2 DEF MonitorInd, RateTypes
    <3> QED BY <3>3, <3>4, <3>5
  <2>3. CASE ~info.updated
    <3>1. UNCHANGED monitor
      BY <1>4, <2>3 DEF SeeRate
    <3>2. RateTypes' /\ ToldIsPosted'
      BY <2>1, <3>1 DEF RateTypes, ToldIsPosted
    <3>3. MonitorInd'
      BY <2>1, <2>3, <3>1 DEF MonitorInd, TellsAll
    <3> QED BY <3>2, <3>3
  <2> QED BY <2>2, <2>3
<1>5. ASSUME NEW w \in Windows, NEW sent \in BOOLEAN, NotifyWindow(w, sent) PROVE RateInd'
  <2>1. PICK i : i = monitor.held
    OBVIOUS
  <2>2. PICK now : now = monitor.now
    OBVIOUS
  <2>3. PICK told \in Usages : Notified(w, told)
    BY <1>5, <2>1, <2>2, NotifyTells
  <2>4. /\ ToldIsPosted' /\ RateTypes' /\ TellsAll(w, i, now)'
        /\ \A v \in Windows \ {w} : v \in failed' <=> v \in failed
    BY <1>5, <2>1, <2>2, NotifyTells
  <2>5. UNCHANGED <<info, infoUnseen, clock>> /\ monitor.at = w
    BY <1>5 DEF NotifyWindow
  <2>6. CASE w = "five_hour"
    <3>1. monitor'.at = "seven_day" /\ monitor'.held = i /\ monitor'.now = now
      BY <2>1, <2>2, <2>3, <2>6 DEF Notified
    <3>2. now <= clock /\ (~infoUnseen => i = info)
      BY <2>1, <2>2, <2>5, <2>6 DEF MonitorInd
    <3>3. TellsAll("five_hour", monitor.held, monitor.now)'
      BY <2>4, <2>6, <3>1 DEF TellsAll, ToldOf
    <3> QED BY <2>4, <2>5, <3>1, <3>2, <3>3 DEF MonitorInd
  <2>7. CASE w = "seven_day"
    <3>1. monitor'.at = "idle"
      BY <2>3, <2>7 DEF Notified
    <3>2. TellsAll("five_hour", i, now)'
      <4>1. TellsAll("five_hour", i, now)
        BY <2>1, <2>2, <2>5, <2>7 DEF MonitorInd
      <4>2. "five_hour" \in Windows /\ "five_hour" # w
        BY <2>7 DEF Windows
      <4>3. monitor'.told["five_hour"] = monitor.told["five_hour"]
             /\ monitor'.cycle["five_hour"] = monitor.cycle["five_hour"]
        BY <2>3, <4>2 DEF Notified, RateTypes
      <4> QED BY <2>4, <4>1, <4>2, <4>3 DEF TellsAll, ToldOf
    <3>3. ASSUME ~infoUnseen, NEW v \in Windows PROVE TellsAll(v, info, clock)'
      <4>1. i = info /\ now <= clock /\ now \in Nat /\ clock \in Nat
        BY <2>1, <2>2, <2>5, <2>7, <3>3 DEF MonitorInd, RateTypes, Windows
      <4>2. TellsAll(v, i, now)'
        BY <2>4, <2>7, <3>2 DEF Windows
      <4>3. i.reset[v] \in Nat
        BY <4>1 DEF RateTypes, InfoType
      <4>4. i.reset[v] > clock => i.reset[v] > now
        BY <4>1, <4>3
      <4> QED BY <2>5, <4>1, <4>2, <4>4 DEF TellsAll, ToldOf
    <3> QED BY <2>4, <2>5, <3>1, <3>3 DEF MonitorInd
  <2> QED BY <2>6, <2>7 DEF Windows
<1>6. CASE UNCHANGED rateVars
  BY <1>6 DEF rateVars, RateTypes, ToldIsPosted, MonitorInd, TellsAll, ToldOf
<1> QED BY <1>1, <1>2, <1>3, <1>4, <1>5, <1>6 DEF RateNext

\* Nothing is told at the start.
LEMMA RateInitial == RateInit => RateInd
<1> SUFFICES ASSUME RateInit PROVE RateInd
  OBVIOUS
<1>1. info \in InfoType /\ ~info.updated /\ \A w \in Windows : info.pct[w] = {}
  BY DEF RateInit, InfoType, Usages
<1>2. /\ monitor.at = "idle" /\ monitor.held = info /\ monitor.now = 0
      /\ \A w \in Windows : monitor.told[w] = {}
  BY DEF RateInit
<1>3. monitor \in [at : {"idle"} \cup Windows, held : InfoType, now : Nat,
                   cycle : [Windows -> Nat], told : [Windows -> Usages]]
  BY <1>1 DEF RateInit, Usages
<1>4. RateTypes
  BY <1>1, <1>3 DEF RateInit, RateTypes
<1>5. ToldIsPosted
  BY <1>2 DEF RateInit, ToldIsPosted
<1>6. MonitorInd
  BY <1>1, <1>2 DEF MonitorInd, TellsAll
<1> QED BY <1>4, <1>5, <1>6 DEF RateInd

\* After the last event was seen, the last message about a window told its cycle and its
\* bucket, in whatever order events, the clock, resets and failures come.
THEOREM RateLimitsAreTold == RateSpec => []WindowsAreTold
<1>1. RateInd => WindowsAreTold
  <2> SUFFICES ASSUME RateInd, monitor.at = "idle", ~infoUnseen, NEW w \in Windows \ failed,
                      NEW p \in info.pct[w], info.reset[w] > clock
               PROVE  \E message \in posted[w] : /\ message.reset = info.reset[w]
                                                 /\ message.pct \div Step(w) = p \div Step(w)
    BY DEF WindowsAreTold
  <2>1. ToldOf(w, p, info.reset[w])
    BY DEF RateInd, MonitorInd, TellsAll
  <2>2. PICK q \in monitor.told[w] : Bucket(w, q) = Bucket(w, p)
    BY <2>1 DEF ToldOf
  <2>3. posted[w] = {[pct |-> r, reset |-> monitor.cycle[w]] : r \in monitor.told[w]}
    BY <2>2 DEF RateInd, ToldIsPosted
  <2>4. [pct |-> q, reset |-> monitor.cycle[w]] \in posted[w]
    BY <2>3
  <2> QED BY <2>1, <2>2, <2>4 DEF ToldOf, Bucket
<1> QED BY <1>1, RateInitial, RateStep, PTL DEF RateSpec

(***************************************************************************)
(* The presence.  What is being shown is what the seen channels hold, and   *)
(* once it is shown, so does the connection of the latest context.          *)
(***************************************************************************)
PresenceSpec == PresenceInit /\ [][PresenceNext]_presenceVars

Shards == 1..MaxShards
PresenceTypes ==
  /\ shard \in Shards /\ ctx \in Shards /\ presence.ctx \in Shards
  /\ presence \in [at : {"start", "show", "idle"}, count : Nat, ctx : Nat]
  /\ DOMAIN activity = Shards /\ count \in Nat

PresenceInd ==
  /\ PresenceTypes
  /\ presence.at = "show" => /\ ~countUnseen => presence.count = count
                             /\ ~ctxUnseen => presence.ctx = ctx
  /\ presence.at = "idle" /\ ~countUnseen /\ ~ctxUnseen => activity[ctx] = count

\* What is read to be shown is what both channels hold.
LEMMA ReadsCurrent ==
  ASSUME PresenceTypes, ReadToShow, UNCHANGED <<count, shard, ctx, activity>>
  PROVE  PresenceInd'
<1>1. presence' = [at |-> "show", count |-> count, ctx |-> ctx]
  BY DEF ReadToShow
<1>2. ctx \in Nat
  BY DEF PresenceTypes, Shards
<1>3. PresenceTypes'
  BY <1>1, <1>2 DEF PresenceTypes, Shards
<1> QED BY <1>1, <1>3 DEF PresenceInd

\* Every step of the presence monitor keeps its invariant.
LEMMA PresenceStep == PresenceInd /\ [PresenceNext]_presenceVars => PresenceInd'
<1> SUFFICES ASSUME PresenceInd, [PresenceNext]_presenceVars PROVE PresenceInd'
  OBVIOUS
<1>0. PresenceTypes
  BY DEF PresenceInd
<1>1. ASSUME NEW n \in 0..MaxCount, SessionsChange(n) PROVE PresenceInd'
  BY <1>1 DEF SessionsChange, PresenceInd, PresenceTypes, Shards
<1>2. CASE Reconnect
  <2>1. shard' \in Shards
    BY <1>0, <1>2, MonitorsAssumption DEF Reconnect, PresenceTypes, Shards
  <2> QED BY <1>2, <2>1 DEF Reconnect, PresenceInd, PresenceTypes, Shards
<1>3. CASE ContextArrives
  BY <1>3 DEF ContextArrives, PresenceInd, PresenceTypes, Shards
<1>4. CASE StartPresence
  BY <1>0, <1>4, ReadsCurrent DEF StartPresence
<1>5. CASE SeeCount
  BY <1>0, <1>5, ReadsCurrent DEF SeeCount
<1>6. CASE SeeContext
  BY <1>0, <1>6, ReadsCurrent DEF SeeContext
<1>7. CASE Show
  <2>1. presence' = [presence EXCEPT !.at = "idle"] /\ presence.at = "show"
    BY <1>7 DEF Show
  <2>2. /\ presence'.at = "idle" /\ presence'.ctx = presence.ctx /\ presence'.count = presence.count
        /\ presence' \in [at : {"start", "show", "idle"}, count : Nat, ctx : Nat]
    BY <1>0, <2>1 DEF PresenceTypes
  <2>3. activity' = [activity EXCEPT ![presence.ctx] = presence.count]
        /\ UNCHANGED <<count, countUnseen, shard, ctx, ctxUnseen>>
    BY <1>7 DEF Show
  <2>4. PresenceTypes'
    BY <1>0, <2>2, <2>3 DEF PresenceTypes, Shards
  <2>5. ASSUME ~countUnseen, ~ctxUnseen PROVE activity'[ctx] = count
    <3>1. presence.count = count /\ presence.ctx = ctx
      BY <2>1, <2>5 DEF PresenceInd
    <3> QED BY <1>0, <2>3, <3>1 DEF PresenceTypes
  <2> QED BY <2>2, <2>3, <2>4, <2>5 DEF PresenceInd
<1>8. CASE UNCHANGED presenceVars
  BY <1>8 DEF presenceVars, PresenceInd, PresenceTypes, Shards
<1> QED BY <1>1, <1>2, <1>3, <1>4, <1>5, <1>6, <1>7, <1>8 DEF PresenceNext

\* Nothing is shown at the start.
LEMMA PresenceInitial == PresenceInit => PresenceInd
<1> SUFFICES ASSUME PresenceInit PROVE PresenceInd
  OBVIOUS
<1>1. 1 \in Shards
  BY MonitorsAssumption DEF Shards
<1> QED BY <1>1 DEF PresenceInit, PresenceInd, PresenceTypes, Shards

(***************************************************************************)
(* The release checker.  Until a write fails or a release is withdrawn, the *)
(* last tag only grows, and a release above it was not announced: so one    *)
(* that is sent never was.                                                  *)
(***************************************************************************)
ReleaseSpec == ReleaseInit /\ [][ReleaseNext]_releaseVars

Releases == 1..MaxReleases
Writing == {"write", "fill"}
ReleaseTypes ==
  /\ latest \in 0..MaxReleases /\ lastTag \in 0..MaxReleases
  /\ checker \in [at : {"idle", "decide", "send"} \cup Writing, tag : 0..MaxReleases]
  /\ announced \in [Releases -> Nat] /\ stored \subseteq Releases /\ excused \in BOOLEAN
  /\ checker.at # "idle" => checker.tag \in Releases

\* The tag that is written or is to be written was announced or stored.
TagsAreTold ==
  /\ lastTag # 0 => announced[lastTag] > 0 \/ lastTag \in stored
  /\ checker.at \in Writing => announced[checker.tag] > 0 \/ checker.tag \in stored

\* Without an excuse the tags only grow, and no release above them was announced.
TagsGrow ==
  /\ lastTag <= latest
  /\ checker.at # "idle" => checker.tag <= latest /\ lastTag <= checker.tag
  /\ checker.at = "send" => lastTag # 0 /\ lastTag < checker.tag
  /\ checker.at = "write" => lastTag < checker.tag
  /\ checker.at = "fill" => lastTag = 0
  /\ \A r \in Releases : announced[r] > 0 =>
       r <= IF checker.at \in Writing THEN checker.tag ELSE lastTag
OnlyOnce ==
  /\ \A r \in Releases : announced[r] <= 1
  /\ \A r, s \in stored : r = s
  /\ stored # {} => lastTag # 0 \/ checker.at \in Writing

ReleaseInd == ReleaseTypes /\ TagsAreTold /\ (~excused => TagsGrow /\ OnlyOnce)

\* Every step of the release checker keeps its invariant.
LEMMA ReleaseStep == ReleaseInd /\ [ReleaseNext]_releaseVars => ReleaseInd'
<1> SUFFICES ASSUME ReleaseInd, [ReleaseNext]_releaseVars PROVE ReleaseInd'
  OBVIOUS
<1>0. ReleaseTypes /\ TagsAreTold /\ (~excused => TagsGrow /\ OnlyOnce) /\ MaxReleases \in Nat
  BY MonitorsAssumption DEF ReleaseInd
<1>1. CASE Publish
  <2>1. ReleaseTypes' /\ TagsAreTold'
    BY <1>0, <1>1 DEF Publish, ReleaseTypes, TagsAreTold
  <2>2. ASSUME ~excused PROVE TagsGrow' /\ OnlyOnce'
    BY <1>0, <1>1, <2>2 DEF Publish, ReleaseTypes, TagsGrow, OnlyOnce
  <2> QED BY <1>1, <2>1, <2>2 DEF ReleaseInd, Publish
<1>2. CASE Withdraw
  BY <1>0, <1>2 DEF Withdraw, ReleaseInd, ReleaseTypes, TagsAreTold
<1>3. CASE FetchLatest
  <2>1. /\ checker' = [at |-> "decide", tag |-> latest] /\ latest > 0 /\ checker.at = "idle"
        /\ UNCHANGED <<latest, lastTag, announced, stored, excused>>
    BY <1>3 DEF FetchLatest
  <2>2. ReleaseTypes' /\ TagsAreTold'
    BY <1>0, <2>1 DEF ReleaseTypes, TagsAreTold, Releases, Writing
  <2>3. ASSUME ~excused PROVE TagsGrow' /\ OnlyOnce'
    BY <1>0, <2>1, <2>3 DEF ReleaseTypes, TagsGrow, OnlyOnce, Writing
  <2> QED BY <2>1, <2>2, <2>3 DEF ReleaseInd
<1>4. CASE Decide
  <2>1. PICK at \in {"write", "idle", "send"} :
          /\ at = CASE lastTag = 0 -> "write" [] lastTag = checker.tag -> "idle" [] OTHER -> "send"
          /\ checker' = [checker EXCEPT !.at = at]
    BY <1>4 DEF Decide
  <2>2. checker'.at = at /\ checker'.tag = checker.tag /\ checker.at = "decide"
    BY <1>0, <1>4, <2>1 DEF ReleaseTypes, Decide
  <2>3. /\ stored' = IF lastTag = 0 THEN stored \cup {checker.tag} ELSE stored
        /\ UNCHANGED <<latest, lastTag, announced, excused>>
    BY <1>4 DEF Decide
  <2>4. checker.tag \in Releases
    BY <1>0, <2>2 DEF ReleaseTypes
  <2>5. ReleaseTypes'
    BY <1>0, <2>1, <2>2, <2>3, <2>4 DEF ReleaseTypes, Writing
  <2>6. TagsAreTold'
    BY <1>0, <2>1, <2>2, <2>3 DEF TagsAreTold, Writing
  <2>7. ASSUME ~excused PROVE TagsGrow' /\ OnlyOnce'
    <3>1. CASE lastTag = 0
      <4>1. at = "write"
        BY <2>1, <2>4, <3>1 DEF Releases
      <4>2. stored = {}
        BY <1>0, <2>2, <2>7, <3>1 DEF OnlyOnce, Writing
      <4>3. stored' = {checker.tag}
        BY <2>3, <3>1, <4>2
      <4>4. TagsGrow'
        BY <1>0, <2>2, <2>3, <2>4, <2>7, <3>1, <4>1
        DEF TagsGrow, ReleaseTypes, Releases, Writing
      <4> QED BY <1>0, <2>2, <2>3, <2>7, <4>1, <4>3, <4>4 DEF OnlyOnce, Writing
    <3>2. CASE lastTag # 0
      <4>1. TagsGrow'
        BY <1>0, <2>1, <2>2, <2>3, <2>4, <2>7, <3>2
        DEF TagsGrow, ReleaseTypes, Releases, Writing
      <4> QED BY <1>0, <2>3, <2>7, <3>2, <4>1 DEF OnlyOnce
    <3> QED BY <3>1, <3>2
  <2> QED BY <2>3, <2>5, <2>6, <2>7 DEF ReleaseInd
<1>5. ASSUME NEW sent \in BOOLEAN, Announce(sent) PROVE ReleaseInd'
  <2>1. /\ checker.at = "send" /\ checker' = [checker EXCEPT !.at = IF sent THEN "write" ELSE "idle"]
        /\ announced' = IF sent THEN [announced EXCEPT ![checker.tag] = announced[checker.tag] + 1]
                        ELSE announced
        /\ UNCHANGED <<latest, lastTag, stored, excused>>
    BY <1>5 DEF Announce
  <2>2. checker'.at = (IF sent THEN "write" ELSE "idle") /\ checker'.tag = checker.tag
        /\ checker.tag \in Releases
    BY <1>0, <2>1 DEF ReleaseTypes
  <2>3. /\ announced' \in [Releases -> Nat]
        /\ \A r \in Releases : r # checker.tag \/ ~sent => announced'[r] = announced[r]
        /\ sent => announced'[checker.tag] = announced[checker.tag] + 1
    BY <1>0, <2>1, <2>2 DEF ReleaseTypes
  <2>4. ReleaseTypes'
    BY <1>0, <2>1, <2>2, <2>3 DEF ReleaseTypes, Writing
  <2>5. TagsAreTold'
    <3>1. \A r \in Releases : announced[r] > 0 => announced'[r] > 0
      BY <1>0, <2>3 DEF ReleaseTypes
    <3>2. lastTag # 0 => lastTag \in Releases
      BY <1>0 DEF ReleaseTypes, Releases
    <3>3. sent => announced'[checker.tag] > 0
      BY <1>0, <2>2, <2>3 DEF ReleaseTypes
    <3> QED BY <1>0, <2>1, <2>2, <3>1, <3>2, <3>3 DEF TagsAreTold, Writing
  <2>6. ASSUME ~excused PROVE TagsGrow' /\ OnlyOnce'
    <3>1. lastTag < checker.tag /\ lastTag # 0 /\ checker.tag <= latest /\ TagsGrow /\ OnlyOnce
      BY <1>0, <2>1, <2>6 DEF TagsGrow
    <3>2. \A r \in Releases : announced[r] > 0 => r <= lastTag
      BY <2>1, <3>1 DEF TagsGrow, Writing
    <3>3. announced[checker.tag] = 0
      BY <1>0, <2>2, <3>1, <3>2 DEF ReleaseTypes, Releases
    <3>4. \A r \in Releases : announced'[r] > 0 =>
            r <= IF checker'.at \in Writing THEN checker'.tag ELSE lastTag
      BY <1>0, <2>2, <2>3, <3>1, <3>2 DEF ReleaseTypes, Releases, Writing
    <3>5. TagsGrow'
      BY <2>1, <2>2, <3>1, <3>4 DEF TagsGrow
    <3>6. \A r \in Releases : announced'[r] <= 1
      BY <2>2, <2>3, <3>1, <3>3 DEF OnlyOnce
    <3> QED BY <2>1, <3>1, <3>5, <3>6 DEF OnlyOnce
  <2> QED BY <2>1, <2>4, <2>5, <2>6 DEF ReleaseInd
<1>6. CASE TruncateTag
  <2>1. /\ checker.at = "write" /\ lastTag' = 0 /\ checker' = [checker EXCEPT !.at = "fill"]
        /\ UNCHANGED <<latest, announced, stored, excused>>
    BY <1>6 DEF TruncateTag
  <2>2. checker'.at = "fill" /\ checker'.tag = checker.tag /\ checker.tag \in Releases
    BY <1>0, <2>1 DEF ReleaseTypes
  <2>3. ReleaseTypes' /\ TagsAreTold'
    BY <1>0, <2>1, <2>2 DEF ReleaseTypes, TagsAreTold, Writing
  <2>4. ASSUME ~excused PROVE TagsGrow' /\ OnlyOnce'
    BY <1>0, <2>1, <2>2, <2>4 DEF ReleaseTypes, Releases, TagsGrow, OnlyOnce, Writing
  <2> QED BY <2>1, <2>3, <2>4 DEF ReleaseInd
<1>7. CASE FillTag
  <2>1. /\ checker.at = "fill" /\ lastTag' = checker.tag /\ checker' = [checker EXCEPT !.at = "idle"]
        /\ UNCHANGED <<latest, announced, stored, excused>>
    BY <1>7 DEF FillTag
  <2>2. checker'.at = "idle" /\ checker'.tag = checker.tag /\ checker.tag \in Releases
    BY <1>0, <2>1 DEF ReleaseTypes
  <2>3. ReleaseTypes' /\ TagsAreTold'
    BY <1>0, <2>1, <2>2 DEF ReleaseTypes, TagsAreTold, Writing
  <2>4. ASSUME ~excused PROVE TagsGrow' /\ OnlyOnce'
    BY <1>0, <2>1, <2>2, <2>4 DEF ReleaseTypes, Releases, TagsGrow, OnlyOnce, Writing
  <2> QED BY <2>1, <2>3, <2>4 DEF ReleaseInd
<1>8. CASE WriteFails
  <2>1. checker'.at = "idle" /\ checker' = [checker EXCEPT !.at = "idle"] /\ excused' = TRUE
        /\ UNCHANGED <<latest, lastTag, announced, stored>>
    BY <1>0, <1>8 DEF WriteFails, ReleaseTypes
  <2> QED BY <1>0, <2>1 DEF ReleaseInd, ReleaseTypes, TagsAreTold, Writing
<1>9. CASE RestartChecker
  <2>1. checker'.at = "idle" /\ checker' = [checker EXCEPT !.at = "idle"]
        /\ excused' = (excused \/ checker.at \in Writing)
        /\ UNCHANGED <<latest, lastTag, announced, stored>>
    BY <1>0, <1>9 DEF RestartChecker, ReleaseTypes, Writing
  <2>2. ReleaseTypes' /\ TagsAreTold'
    BY <1>0, <2>1 DEF ReleaseTypes, TagsAreTold, Writing
  <2>3. ASSUME ~excused' PROVE TagsGrow' /\ OnlyOnce'
    BY <1>0, <2>1, <2>3 DEF ReleaseTypes, TagsGrow, OnlyOnce, Writing
  <2> QED BY <2>2, <2>3 DEF ReleaseInd
<1>10. CASE UNCHANGED releaseVars
  BY <1>0, <1>10 DEF releaseVars, ReleaseInd, ReleaseTypes, TagsAreTold, TagsGrow, OnlyOnce
<1> QED BY <1>1, <1>2, <1>3, <1>4, <1>5, <1>6, <1>7, <1>8, <1>9, <1>10 DEF ReleaseNext

\* Nothing is announced at the start.
LEMMA ReleaseInitial == ReleaseInit => ReleaseInd
<1> SUFFICES ASSUME ReleaseInit PROVE ReleaseInd
  OBVIOUS
<1>1. MaxReleases \in Nat
  BY MonitorsAssumption
<1>2. /\ latest = 0 /\ lastTag = 0 /\ stored = {} /\ excused = FALSE
      /\ checker.at = "idle" /\ \A r \in Releases : announced[r] = 0
  BY DEF ReleaseInit, Releases
<1>3. ReleaseTypes
  <2>1. 0 \in 0..MaxReleases
    BY <1>1
  <2>2. checker \in [at : {"idle", "decide", "send"} \cup Writing, tag : 0..MaxReleases]
    BY <2>1 DEF ReleaseInit
  <2>3. announced \in [Releases -> Nat]
    BY DEF ReleaseInit, Releases
  <2> QED BY <1>2, <2>1, <2>2, <2>3 DEF ReleaseTypes
<1>4. TagsAreTold
  BY <1>2 DEF TagsAreTold, Writing
<1>5. TagsGrow
  BY <1>2 DEF TagsGrow, Writing
<1>6. OnlyOnce
  BY <1>2 DEF OnlyOnce
<1> QED BY <1>3, <1>4, <1>5, <1>6 DEF ReleaseInd

\* The three tasks beside each other.
MonitorsSpec == RateSpec /\ PresenceSpec /\ ReleaseSpec

\* Whatever happens outside and in whatever order, the three monitors tell it.
THEOREM NoticesStayCurrent == MonitorsSpec => []NoticesAreCurrent
<1>1. PresenceInd => PresenceIsCurrent
  BY DEF PresenceInd, PresenceTypes, PresenceIsCurrent
<1>2. ReleaseInd => ReleasesAreTold
  BY DEF ReleaseInd, ReleaseTypes, TagsAreTold, OnlyOnce, ReleasesAreTold
<1>3. PresenceSpec => []PresenceIsCurrent
  BY <1>1, PresenceInitial, PresenceStep, PTL DEF PresenceSpec
<1>4. ReleaseSpec => []ReleasesAreTold
  BY <1>2, ReleaseInitial, ReleaseStep, PTL DEF ReleaseSpec
<1> QED BY <1>3, <1>4, RateLimitsAreTold, PTL DEF MonitorsSpec, NoticesAreCurrent

(***************************************************************************)
(* The rows of a channel.  A thread that no message reached during an       *)
(* /unregister (it is not late) has a row as long as it has a process, so   *)
(* the command lists it; and nothing on its way to such a thread is left    *)
(* when the rows go.                                                        *)
(***************************************************************************)
MessageSteps ==
  {"new", "row", "insert", "open", "acquire", "reload", "respawn", "send", "turn", "done"}
CommandSteps == {"new", "insert", "list", "kill", "project", "cache", "done"}
Early == {"row", "insert", "open", "acquire", "reload", "respawn"}
Placed == {"open", "acquire", "reload", "respawn"}
Scopes == {"project", "global"}

MessageTypes ==
  /\ msg \in [RowMessages -> [at : MessageSteps, thread : RowThreads \cup {"none"},
                              path : Directories \cup {"none"}, primary : BOOLEAN]]
  /\ \A m \in RowMessages : Handling(m) => msg[m].thread \in RowThreads /\ msg[m].path \in Directories
  /\ \A m \in RowMessages : msg[m].at = "reload" => msg[m].primary
RowCommandTypes ==
  /\ cmd \in [RowCommands -> [at : CommandSteps, arg : Directories \cup Scopes \cup {"none"},
                              list : SUBSET RowThreads]]
  /\ \A c \in RowCommands : /\ cmd[c].at = "insert" => cmd[c].arg \in Directories
                            /\ cmd[c].at = "cache" => cmd[c].arg \in Scopes
RowTypes ==
  /\ RowsTypeOK /\ MessageTypes /\ RowCommandTypes
  /\ up \in BOOLEAN /\ missed \in BOOLEAN

\* A thread t and its process, a message on its way to t, and an /unregister of t.
ProcessOK(t) == procs[t] # "none" => procs[t] = project /\ rows[t] # "none"
MessageOK(t, m) ==
  msg[m].thread = t /\ msg[m].at \in Early =>
    /\ msg[m].path = project /\ ~Unregistering
    /\ msg[m].at \in Placed => rows[t] # "none"
CommandOK(t, c) ==
  /\ cmd[c].at = "kill" /\ procs[t] # "none" => t \in cmd[c].list
  /\ cmd[c].at = "project" => procs[t] = "none"
ThreadOK(t) ==
  t \notin late => /\ ProcessOK(t)
                   /\ \A m \in RowMessages : MessageOK(t, m)
                   /\ \A c \in RowCommands : CommandOK(t, c)
ThreadsOK == \A t \in RowThreads : ThreadOK(t)

\* The scope that is being cached is the one that was saved.
ScopeOK ==
  /\ ~up => \A c \in RowCommands : cmd[c].at # "cache"
  /\ ~missed =>
       /\ \A c, d \in RowCommands : cmd[c].at = "cache" /\ cmd[d].at = "cache" => c = d
       /\ \A c \in RowCommands : cmd[c].at = "cache" => cmd[c].arg = scope.db
  /\ ScopeIsCached

RowsInd == RowTypes /\ RunningHasHandler /\ ThreadsOK /\ ScopeOK

\* A handler that goes on keeps what it knows; one that is done forgets it.
LEMMA MessageMoves ==
  ASSUME MessageTypes, NEW m \in RowMessages, Handling(m), NEW to \in MessageSteps \ {"new", "reload"},
         MessageTo(m, to)
  PROVE  /\ MessageTypes'
         /\ msg'[m].at = to
         /\ to # "done" => /\ msg'[m].thread = msg[m].thread /\ msg'[m].path = msg[m].path
                           /\ msg'[m].primary = msg[m].primary
         /\ \A n \in RowMessages \ {m} : msg'[n] = msg[n]
<1>1. CASE to = "done"
  <2> DEFINE forgotten == [Unread EXCEPT !.at = "done"]
  <2>1. msg' = [msg EXCEPT ![m] = forgotten]
    BY <1>1 DEF MessageTo
  <2>2. forgotten.at = "done" /\ forgotten \in [at : MessageSteps, thread : RowThreads \cup {"none"},
                                               path : Directories \cup {"none"}, primary : BOOLEAN]
    BY DEF Unread, MessageSteps
  <2> HIDE DEF forgotten
  <2>3. msg'[m].at = "done" /\ \A n \in RowMessages \ {m} : msg'[n] = msg[n]
    BY <2>1, <2>2 DEF MessageTypes
  <2>4. msg' \in [RowMessages -> [at : MessageSteps, thread : RowThreads \cup {"none"},
                                  path : Directories \cup {"none"}, primary : BOOLEAN]]
    BY <2>1, <2>2 DEF MessageTypes
  <2>5. ASSUME NEW n \in RowMessages, msg'[n].at \notin {"new", "done"}
        PROVE  msg'[n].thread \in RowThreads /\ msg'[n].path \in Directories
    <3>1. n # m
      BY <2>3, <2>5
    <3> QED BY <2>3, <2>5, <3>1 DEF MessageTypes, Handling
  <2>6. ASSUME NEW n \in RowMessages, msg'[n].at = "reload" PROVE msg'[n].primary
    <3>1. n # m
      BY <2>3, <2>6
    <3> QED BY <2>3, <2>6, <3>1 DEF MessageTypes
  <2>7. MessageTypes'
    BY <2>4, <2>5, <2>6 DEF MessageTypes, Handling
  <2> QED BY <1>1, <2>3, <2>7
<1>2. CASE to # "done"
  <2>1. msg' = [msg EXCEPT ![m] = [msg[m] EXCEPT !.at = to]]
    BY <1>2 DEF MessageTo
  <2>2. /\ [msg[m] EXCEPT !.at = to].thread = msg[m].thread /\ [msg[m] EXCEPT !.at = to].path = msg[m].path
        /\ [msg[m] EXCEPT !.at = to].primary = msg[m].primary /\ [msg[m] EXCEPT !.at = to].at = to
    BY DEF MessageTypes
  <2>3. msg'[m] = [msg[m] EXCEPT !.at = to] /\ \A n \in RowMessages \ {m} : msg'[n] = msg[n]
    BY <2>1 DEF MessageTypes
  <2>4. msg' \in [RowMessages -> [at : MessageSteps, thread : RowThreads \cup {"none"},
                                  path : Directories \cup {"none"}, primary : BOOLEAN]]
    BY <2>1 DEF MessageTypes
  <2> QED BY <1>2, <2>2, <2>3, <2>4 DEF MessageTypes, Handling
<1> QED BY <1>1, <1>2

\* So does a command.
LEMMA RowCommandMoves ==
  ASSUME RowCommandTypes, NEW c \in RowCommands, NEW to \in {"project", "done"}, CommandTo(c, to)
  PROVE  /\ RowCommandTypes' /\ cmd'[c].at = to
         /\ \A d \in RowCommands \ {c} : cmd'[d] = cmd[d]
<1>1. CASE to = "done"
  <2>1. cmd' = [cmd EXCEPT ![c] = [at |-> "done", arg |-> "none", list |-> {}]]
    <3>1. [Unissued EXCEPT !.at = "done"] = [at |-> "done", arg |-> "none", list |-> {}]
      BY DEF Unissued
    <3>2. cmd' = [cmd EXCEPT ![c] = [Unissued EXCEPT !.at = "done"]]
      BY <1>1 DEF CommandTo
    <3> QED BY <3>1, <3>2
  <2>2. cmd'[c].at = "done" /\ \A d \in RowCommands \ {c} : cmd'[d] = cmd[d]
    BY <2>1 DEF RowCommandTypes
  <2>3. cmd' \in [RowCommands -> [at : CommandSteps, arg : Directories \cup Scopes \cup {"none"},
                                  list : SUBSET RowThreads]]
    BY <2>1 DEF RowCommandTypes, CommandSteps
  <2>4. RowCommandTypes'
    BY <2>2, <2>3 DEF RowCommandTypes
  <2> QED BY <1>1, <2>2, <2>4
<1>2. CASE to = "project"
  <2>1. cmd' = [cmd EXCEPT ![c] = [cmd[c] EXCEPT !.at = "project"]]
    BY <1>2 DEF CommandTo
  <2>2. cmd'[c].at = "project" /\ \A d \in RowCommands \ {c} : cmd'[d] = cmd[d]
    BY <2>1 DEF RowCommandTypes
  <2>3. cmd' \in [RowCommands -> [at : CommandSteps, arg : Directories \cup Scopes \cup {"none"},
                                  list : SUBSET RowThreads]]
    BY <2>1 DEF RowCommandTypes, CommandSteps
  <2>4. RowCommandTypes'
    BY <2>2, <2>3 DEF RowCommandTypes
  <2> QED BY <1>2, <2>2, <2>4
<1> QED BY <1>1, <1>2

\* A command that begins.
LEMMA CommandBegins ==
  ASSUME RowCommandTypes, NEW c \in RowCommands, NEW arg, NEW to, Begin(c, arg, to),
         \/ to = "done"
         \/ to = "insert" /\ arg \in Directories
         \/ to = "list" /\ arg = "none"
         \/ to = "cache" /\ arg \in Scopes
  PROVE  /\ RowCommandTypes' /\ cmd'[c].at = to /\ (to = "cache" => cmd'[c].arg = arg)
         /\ \A d \in RowCommands \ {c} : cmd'[d] = cmd[d]
<1> DEFINE given == IF to = "done" THEN "none" ELSE arg
<1>1. cmd' = [cmd EXCEPT ![c] = [at |-> to, list |-> {}, arg |-> given]]
  BY DEF Begin
<1>2. /\ to \in CommandSteps /\ given \in Directories \cup Scopes \cup {"none"}
      /\ to = "insert" => given \in Directories
      /\ to = "cache" => given \in Scopes /\ given = arg
  BY DEF CommandSteps
<1> HIDE DEF given
<1> QED BY <1>1, <1>2 DEF RowCommandTypes

(***************************************************************************)
(* The steps of messages: commands, the project and the scope stay.         *)
(***************************************************************************)
OfMessages == UNCHANGED <<project, cmd, scope, up, crashes, missed>>

\* The scope is left alone.
LEMMA ScopeRests ==
  ASSUME ScopeOK, UNCHANGED <<cmd, scope, up, missed>>
  PROVE  ScopeOK'
BY DEF ScopeOK, ScopeIsCached

\* Who writes the running status of thread t back.
Owned(t) ==
  \/ \E m \in RowMessages : WritesBack(m, t)
  \/ work[t] = "bg" \/ t \in swept \/ t \in stranded

\* A row that runs keeps its owner, or gets one.
LEMMA OwnersRemain ==
  ASSUME RunningHasHandler, up' = up,
         \A t \in RowThreads : rows'[t] = "running" => Owned(t)' \/ (rows[t] = "running" /\ ~Owned(t))
  PROVE  RunningHasHandler'
BY DEF RunningHasHandler, Owned

\* A message that holds no status goes on.
LEMMA OthersWriteBack ==
  ASSUME NEW m \in RowMessages, msg[m].at \in {"new", "row", "insert", "open", "acquire"},
         \A n \in RowMessages \ {m} : msg'[n] = msg[n], NEW t \in RowThreads, Owned(t),
         UNCHANGED <<work, swept, stranded>>
  PROVE  Owned(t)'
<1>1. ASSUME NEW n \in RowMessages, WritesBack(n, t) PROVE WritesBack(n, t)'
  <2>1. n # m
    BY <1>1 DEF WritesBack
  <2> QED BY <1>1, <2>1 DEF WritesBack
<1> QED BY <1>1 DEF Owned

\* A message that holds it goes on holding it.
LEMMA HolderWritesBack ==
  ASSUME NEW m \in RowMessages, \A n \in RowMessages \ {m} : msg'[n] = msg[n],
         msg'[m].thread = msg[m].thread, msg'[m].primary = msg[m].primary,
         msg'[m].at \in {"reload", "respawn", "send", "turn"},
         NEW t \in RowThreads, NEW n \in RowMessages, WritesBack(n, t)
  PROVE  WritesBack(n, t)'
BY DEF WritesBack

\* A status that is written takes back what was left to nobody.
LEMMA StatusIsSet ==
  ASSUME RowTypes, NEW t \in RowThreads, NEW s \in {"idle", "running"}, SetStatus(t, s)
  PROVE  /\ rows' \in [RowThreads -> {"none", "idle", "running"}] /\ stranded' \subseteq RowThreads
         /\ rows'[t] = "none" \/ rows'[t] = s
         /\ \A u \in RowThreads : rows[u] # "none" <=> rows'[u] # "none"
         /\ \A u \in RowThreads \ {t} : rows'[u] = rows[u] /\ (u \in stranded' <=> u \in stranded)
<1>1. rows' = IF rows[t] # "none" THEN [rows EXCEPT ![t] = s] ELSE rows
  BY DEF SetStatus
<1>2. rows \in [RowThreads -> {"none", "idle", "running"}] /\ stranded \subseteq RowThreads
  BY DEF RowTypes, RowsTypeOK
<1>3. rows' \in [RowThreads -> {"none", "idle", "running"}]
  BY <1>1, <1>2
<1>4. (rows'[t] = "none" \/ rows'[t] = s) /\ \A u \in RowThreads \ {t} : rows'[u] = rows[u]
  BY <1>1, <1>2
<1>5. \A u \in RowThreads : rows[u] # "none" <=> rows'[u] # "none"
  BY <1>1, <1>2
<1>6. stranded' = stranded \ {t}
  BY DEF SetStatus
<1> QED BY <1>2, <1>3, <1>4, <1>5, <1>6

\* A message reaches thread t.
LEMMA ReadProjectStep ==
  ASSUME RowsInd, NEW m \in RowMessages, NEW t \in RowThreads, ReadProject(m, t)
  PROVE  RowsInd'
<1>1. /\ msg' = [msg EXCEPT ![m] = [at |-> "row", thread |-> t, path |-> project, primary |-> FALSE]]
      /\ late' = IF Unregistering THEN late \cup {t} ELSE late
      /\ project \in Directories /\ msg[m].at = "new"
      /\ OfMessages /\ UNCHANGED <<rows, procs, work, swept, stranded>>
  BY DEF ReadProject, Registered, OfMessages, sessionVars
<1>2. /\ msg'[m] = [at |-> "row", thread |-> t, path |-> project, primary |-> FALSE]
      /\ \A n \in RowMessages \ {m} : msg'[n] = msg[n]
  BY <1>1 DEF RowsInd, RowTypes, MessageTypes
<1>3. MessageTypes'
  <2>1. msg' \in [RowMessages -> [at : MessageSteps, thread : RowThreads \cup {"none"},
                                  path : Directories \cup {"none"}, primary : BOOLEAN]]
    BY <1>1 DEF RowsInd, RowTypes, MessageTypes, MessageSteps
  <2> QED BY <1>1, <1>2, <2>1 DEF RowsInd, RowTypes, MessageTypes, Handling
<1>4. RowTypes'
  BY <1>1, <1>3 DEF RowsInd, RowTypes, RowsTypeOK, RowCommandTypes, OfMessages
<1>5. RunningHasHandler'
  <2>1. \A s \in RowThreads : Owned(s) => Owned(s)'
    BY <1>1, <1>2, OthersWriteBack
  <2> QED BY <1>1, <2>1, OwnersRemain DEF RowsInd, OfMessages
<1>6. ThreadsOK'
  <2> SUFFICES ASSUME NEW s \in RowThreads, s \notin late' PROVE ThreadOK(s)'
    BY DEF ThreadsOK, ThreadOK
  <2>1. s \notin late /\ (Unregistering => s # t) /\ (Unregistering' <=> Unregistering)
    BY <1>1 DEF Unregistering, OfMessages
  <2>2. ProcessOK(s)' /\ \A c \in RowCommands : CommandOK(s, c)'
    BY <1>1, <2>1 DEF RowsInd, ThreadsOK, ThreadOK, ProcessOK, CommandOK, OfMessages
  <2>3. ASSUME NEW n \in RowMessages PROVE MessageOK(s, n)'
    <3>1. CASE n = m
      BY <1>1, <1>2, <2>1, <3>1 DEF MessageOK, Placed, OfMessages
    <3>2. CASE n # m
      BY <1>1, <1>2, <2>1, <3>2 DEF RowsInd, ThreadsOK, ThreadOK, MessageOK, OfMessages
    <3> QED BY <3>1, <3>2
  <2> QED BY <2>2, <2>3 DEF ThreadOK
<1>7. ScopeOK'
  BY <1>1, ScopeRests DEF RowsInd, OfMessages
<1> QED BY <1>4, <1>5, <1>6, <1>7 DEF RowsInd

\* Message m goes on to a step: it deletes no row, and a process it spawns runs in the
\* directory it read.
GoesOn(m, to) ==
  /\ Handling(m) /\ OfMessages /\ UNCHANGED late
  /\ MessageTypes' /\ msg'[m].at = to
  /\ to # "done" => msg'[m].thread = msg[m].thread /\ msg'[m].path = msg[m].path
  /\ to \in Early => msg[m].at \in Early
  /\ to \in Placed => msg[m].at \in Placed \/ rows'[msg[m].thread] # "none"
  /\ \A n \in RowMessages \ {m} : msg'[n] = msg[n]
  /\ RowsTypeOK'
  /\ \A t \in RowThreads :
       /\ rows[t] # "none" => rows'[t] # "none"
       /\ \/ procs'[t] = procs[t] \/ procs'[t] = "none"
          \/ msg[m].at \in {"open", "respawn"} /\ t = msg[m].thread /\ procs'[t] = msg[m].path

\* A message that goes on disturbs nothing of the rows but who has the turn.
LEMMA HandlerGoesOn ==
  ASSUME RowsInd, NEW m \in RowMessages, NEW to, GoesOn(m, to)
  PROVE  RowTypes' /\ ThreadsOK' /\ ScopeOK'
<1>1. RowTypes'
  BY DEF GoesOn, RowsInd, RowTypes, RowCommandTypes, OfMessages
<1>2. ThreadsOK'
  <2> SUFFICES ASSUME NEW s \in RowThreads, s \notin late PROVE ThreadOK(s)'
    BY DEF ThreadsOK, ThreadOK, GoesOn
  <2>1. (Unregistering' <=> Unregistering) /\ project' = project /\ cmd' = cmd
    BY DEF Unregistering, OfMessages, GoesOn
  <2>2. ThreadOK(s)
    BY DEF RowsInd, ThreadsOK
  <2>3. MessageOK(s, m) /\ ProcessOK(s)
    BY <2>2 DEF ThreadOK
  <2>4. \/ procs'[s] = procs[s] \/ procs'[s] = "none"
        \/ msg[m].at \in {"open", "respawn"} /\ s = msg[m].thread /\ procs'[s] = msg[m].path
    BY DEF GoesOn
  <2>5. rows[s] # "none" => rows'[s] # "none"
    BY DEF GoesOn
  <2>6. ProcessOK(s)'
    BY <2>1, <2>3, <2>4, <2>5 DEF ProcessOK, MessageOK, Early, Placed
  <2>7. ASSUME NEW c \in RowCommands PROVE CommandOK(s, c)'
    <3>1. CommandOK(s, c)
      BY <2>2 DEF ThreadOK
    <3>2. CASE procs'[s] = procs[s] \/ procs'[s] = "none"
      BY <2>1, <3>1, <3>2 DEF CommandOK
    <3>3. CASE msg[m].at \in {"open", "respawn"} /\ s = msg[m].thread
      <4>1. ~Unregistering
        BY <2>3, <3>3 DEF MessageOK, Early
      <4> QED BY <2>1, <4>1 DEF CommandOK, Unregistering
    <3> QED BY <2>4, <3>2, <3>3
  <2>8. ASSUME NEW n \in RowMessages PROVE MessageOK(s, n)'
    <3>1. CASE n = m
      <4> SUFFICES ASSUME msg'[m].thread = s, msg'[m].at \in Early
                   PROVE  /\ msg'[m].path = project' /\ ~Unregistering'
                          /\ msg'[m].at \in Placed => rows'[s] # "none"
        BY <3>1 DEF MessageOK
      <4>1. to \in Early /\ to # "done" /\ msg'[m].at = to
        BY DEF GoesOn, Early
      <4>2. msg[m].thread = s /\ msg'[m].path = msg[m].path /\ msg[m].at \in Early
        BY <4>1 DEF GoesOn
      <4>3. msg[m].path = project /\ ~Unregistering /\ (msg[m].at \in Placed => rows[s] # "none")
        BY <2>3, <4>2 DEF MessageOK
      <4>4. to \in Placed => rows'[s] # "none"
        BY <2>5, <4>2, <4>3 DEF GoesOn
      <4> QED BY <2>1, <4>1, <4>2, <4>3, <4>4
    <3>2. CASE n # m
      <4>1. MessageOK(s, n) /\ msg'[n] = msg[n]
        BY <2>2, <3>2 DEF ThreadOK, GoesOn
      <4> QED BY <2>1, <2>5, <4>1 DEF MessageOK
    <3> QED BY <3>1, <3>2
  <2> QED BY <2>6, <2>7, <2>8 DEF ThreadOK
<1>3. ScopeOK'
  BY ScopeRests DEF RowsInd, OfMessages, GoesOn
<1> QED BY <1>1, <1>2, <1>3

\* The message finds the session row, or not.
LEMMA ReadRowStep ==
  ASSUME RowsInd, NEW m \in RowMessages, ReadRow(m)
  PROVE  RowsInd'
<1>1. PICK to \in {"insert", "open"} :
        MessageTo(m, to) /\ (to = "open" => rows[msg[m].thread] # "none")
  BY DEF ReadRow
<1>2. /\ msg[m].at = "row" /\ Handling(m) /\ OfMessages
      /\ UNCHANGED <<rows, procs, work, swept, stranded, late>>
  BY DEF ReadRow, OfMessages, Handling, sessionVars
<1>3. /\ MessageTypes' /\ msg'[m].at = to /\ msg'[m].thread = msg[m].thread /\ msg'[m].path = msg[m].path
      /\ \A n \in RowMessages \ {m} : msg'[n] = msg[n]
  BY <1>1, <1>2, MessageMoves DEF RowsInd, RowTypes, MessageSteps
<1>4. GoesOn(m, to)
  BY <1>1, <1>2, <1>3 DEF GoesOn, RowsInd, RowTypes, RowsTypeOK, OfMessages, Early, Placed
<1>5. RunningHasHandler'
  <2>1. \A s \in RowThreads : Owned(s) => Owned(s)'
    BY <1>2, <1>3, OthersWriteBack
  <2> QED BY <1>2, <2>1, OwnersRemain DEF RowsInd, OfMessages
<1> QED BY <1>4, <1>5, HandlerGoesOn DEF RowsInd

\* It creates one, or fails.
LEMMA InsertRowStep ==
  ASSUME RowsInd, NEW m \in RowMessages, InsertRow(m)
  PROVE  RowsInd'
<1>1. PICK to \in {"open", "done"} :
        /\ MessageTo(m, to)
        /\ rows' = IF to = "open" THEN [rows EXCEPT ![msg[m].thread] = "idle"] ELSE rows
  BY DEF InsertRow
<1>2. /\ msg[m].at = "insert" /\ Handling(m) /\ OfMessages
      /\ UNCHANGED <<procs, work, swept, stranded, late>>
  BY DEF InsertRow, OfMessages, Handling, sessionVars
<1>3. /\ MessageTypes' /\ msg'[m].at = to
      /\ to # "done" => msg'[m].thread = msg[m].thread /\ msg'[m].path = msg[m].path
      /\ \A n \in RowMessages \ {m} : msg'[n] = msg[n]
  BY <1>1, <1>2, MessageMoves DEF RowsInd, RowTypes, MessageSteps
<1>4. msg[m].thread \in RowThreads
  BY <1>2 DEF RowsInd, RowTypes, MessageTypes
<1>5. /\ rows' \in [RowThreads -> {"none", "idle", "running"}]
      /\ to = "open" => rows'[msg[m].thread] = "idle"
      /\ \A t \in RowThreads : rows'[t] = rows[t] \/ rows'[t] = "idle"
  BY <1>1, <1>4 DEF RowsInd, RowTypes, RowsTypeOK
<1>6. GoesOn(m, to)
  BY <1>1, <1>2, <1>3, <1>5 DEF GoesOn, RowsInd, RowTypes, RowsTypeOK, OfMessages, Early, Placed
<1>7. RunningHasHandler'
  <2>1. \A s \in RowThreads : Owned(s) => Owned(s)'
    BY <1>2, <1>3, OthersWriteBack
  <2> QED BY <1>2, <1>5, <2>1, OwnersRemain DEF RowsInd, OfMessages
<1> QED BY <1>6, <1>7, HandlerGoesOn DEF RowsInd

\* A process is there or spawned, or not.
LEMMA GetOrCreates ==
  ASSUME RowTypes, NEW m \in RowMessages, msg[m].at \in {"open", "respawn"},
         NEW onto \in {"acquire", "send"}, NEW spawned, GetOrCreate(m, spawned, onto)
  PROVE  \E to \in {onto, "done"} :
           /\ MessageTypes' /\ msg'[m].at = to
           /\ to # "done" => /\ msg'[m].thread = msg[m].thread /\ msg'[m].path = msg[m].path
                             /\ msg'[m].primary = msg[m].primary
           /\ to = "done" => UNCHANGED procs /\ procs[msg[m].thread] = "none"
           /\ \A n \in RowMessages \ {m} : msg'[n] = msg[n]
           /\ procs' \in [RowThreads -> {"none"} \cup Directories]
           /\ \A t \in RowThreads : procs'[t] = procs[t] \/ (t = msg[m].thread /\ procs'[t] = msg[m].path)
<1>1. PICK to \in {onto, "done"} :
        /\ MessageTo(m, to)
        /\ \/ UNCHANGED procs /\ (to = "done" => procs[msg[m].thread] = "none")
           \/ /\ procs' = [procs EXCEPT ![msg[m].thread] = IF procs[msg[m].thread] = "none" THEN msg[m].path
                                                        ELSE procs[msg[m].thread]]
              /\ to # "done"
  BY DEF GetOrCreate
<1>2. Handling(m) /\ msg[m].thread \in RowThreads /\ msg[m].path \in Directories
  BY DEF RowTypes, MessageTypes, Handling
<1>3. /\ MessageTypes' /\ msg'[m].at = to
      /\ to # "done" => /\ msg'[m].thread = msg[m].thread /\ msg'[m].path = msg[m].path
                        /\ msg'[m].primary = msg[m].primary
      /\ \A n \in RowMessages \ {m} : msg'[n] = msg[n]
  BY <1>1, <1>2, MessageMoves DEF RowTypes, MessageSteps
<1>4. /\ procs' \in [RowThreads -> {"none"} \cup Directories]
      /\ \A t \in RowThreads : procs'[t] = procs[t] \/ (t = msg[m].thread /\ procs'[t] = msg[m].path)
  BY <1>1, <1>2 DEF RowTypes, RowsTypeOK
<1> QED BY <1>1, <1>3, <1>4

\* It finds or spawns the process of its thread.
LEMMA OpenStep ==
  ASSUME RowsInd, NEW m \in RowMessages, NEW spawned \in BOOLEAN, Open(m, spawned)
  PROVE  RowsInd'
<1>1. /\ msg[m].at = "open" /\ Handling(m) /\ OfMessages /\ GetOrCreate(m, spawned, "acquire")
      /\ UNCHANGED <<rows, work, swept, stranded, late>>
  BY DEF Open, OfMessages, Handling
<1>2. PICK to \in {"acquire", "done"} :
        /\ MessageTypes' /\ msg'[m].at = to
        /\ to # "done" => msg'[m].thread = msg[m].thread /\ msg'[m].path = msg[m].path
        /\ \A n \in RowMessages \ {m} : msg'[n] = msg[n]
        /\ procs' \in [RowThreads -> {"none"} \cup Directories]
        /\ \A t \in RowThreads : procs'[t] = procs[t] \/ (t = msg[m].thread /\ procs'[t] = msg[m].path)
  BY <1>1, GetOrCreates DEF RowsInd
<1>3. GoesOn(m, to)
  BY <1>1, <1>2 DEF GoesOn, RowsInd, RowTypes, RowsTypeOK, OfMessages, Early, Placed
<1>4. RunningHasHandler'
  <2>1. \A s \in RowThreads : Owned(s) => Owned(s)'
    BY <1>1, <1>2, OthersWriteBack
  <2> QED BY <1>1, <2>1, OwnersRemain DEF RowsInd, OfMessages
<1> QED BY <1>3, <1>4, HandlerGoesOn DEF RowsInd

\* It acquires the turn, or not.
LEMMA TryAcquireStep ==
  ASSUME RowsInd, NEW m \in RowMessages, NEW onto \in {"send", "reload"}, TryAcquire(m, onto)
  PROVE  RowsInd'
<1> DEFINE t == msg[m].thread
           acquired == rows[t] = "idle"
<1>1. /\ msg' = [msg EXCEPT ![m].at = onto, ![m].primary = acquired]
      /\ rows' = IF acquired THEN [rows EXCEPT ![t] = "running"] ELSE rows
      /\ msg[m].at = "acquire" /\ Handling(m) /\ OfMessages
      /\ UNCHANGED <<procs, work, swept, stranded, late>>
  BY DEF TryAcquire, OfMessages, Handling, sessionVars
<1>2. t \in RowThreads /\ acquired \in BOOLEAN
  BY <1>1 DEF RowsInd, RowTypes, MessageTypes
<1>3. /\ rows' \in [RowThreads -> {"none", "idle", "running"}]
      /\ \A s \in RowThreads : rows'[s] = rows[s] \/ (s = t /\ acquired /\ rows'[s] = "running")
      /\ \A s \in RowThreads : rows[s] # "none" => rows'[s] # "none"
  BY <1>1, <1>2 DEF RowsInd, RowTypes, RowsTypeOK
<1> HIDE DEF acquired
<1>4. /\ msg' \in [RowMessages -> [at : MessageSteps, thread : RowThreads \cup {"none"},
                                   path : Directories \cup {"none"}, primary : BOOLEAN]]
      /\ msg'[m].at = onto /\ msg'[m].thread = t /\ msg'[m].path = msg[m].path
      /\ msg'[m].primary = acquired
      /\ \A n \in RowMessages \ {m} : msg'[n] = msg[n]
  BY <1>1, <1>2 DEF RowsInd, RowTypes, MessageTypes, MessageSteps
<1>5. MessageTypes'
  <2>1. onto = "reload" => acquired
    BY DEF TryAcquire, acquired
  <2> QED BY <1>1, <1>4, <2>1 DEF RowsInd, RowTypes, MessageTypes, Handling
<1>6. GoesOn(m, onto)
  BY <1>1, <1>3, <1>4, <1>5 DEF GoesOn, RowsInd, RowTypes, RowsTypeOK, OfMessages, Early, Placed
<1>7. RunningHasHandler'
  <2>1. \A s \in RowThreads : Owned(s) => Owned(s)'
    BY <1>1, <1>4, OthersWriteBack
  <2>2. ASSUME NEW s \in RowThreads, s = t, acquired PROVE Owned(s)'
    BY <1>4, <2>2 DEF Owned, WritesBack
  <2> QED BY <1>1, <1>3, <2>1, <2>2, OwnersRemain DEF RowsInd, OfMessages
<1> QED BY <1>6, <1>7, HandlerGoesOn DEF RowsInd

\* A process that ends is nobody's, and its worker does nothing.
LEMMA ProcessEnds ==
  ASSUME RowTypes, NEW t \in RowThreads, EndProcess(t)
  PROVE  /\ procs' \in [RowThreads -> {"none"} \cup Directories]
         /\ work' \in [RowThreads -> {"none", "turn", "bg"}]
         /\ \A s \in RowThreads : (procs'[s] = procs[s] \/ procs'[s] = "none") /\ (s # t => work'[s] = work[s])
BY DEF EndProcess, RowTypes, RowsTypeOK

\* It ends the process whose settings are old.
LEMMA ReloadStep ==
  ASSUME RowsInd, NEW m \in RowMessages, Reload(m)
  PROVE  RowsInd'
<1> DEFINE t == msg[m].thread
<1>1. /\ msg[m].at = "reload" /\ Handling(m) /\ OfMessages /\ MessageTo(m, "respawn") /\ EndProcess(t)
      /\ UNCHANGED <<rows, swept, stranded, late>>
  BY DEF Reload, OfMessages, Handling
<1>2. t \in RowThreads /\ msg[m].primary
  BY <1>1 DEF RowsInd, RowTypes, MessageTypes
<1>3. /\ MessageTypes' /\ msg'[m].at = "respawn" /\ msg'[m].thread = t /\ msg'[m].path = msg[m].path
      /\ msg'[m].primary = msg[m].primary /\ \A n \in RowMessages \ {m} : msg'[n] = msg[n]
  BY <1>1, MessageMoves DEF RowsInd, RowTypes, MessageSteps
<1>4. /\ procs' \in [RowThreads -> {"none"} \cup Directories]
      /\ work' \in [RowThreads -> {"none", "turn", "bg"}]
      /\ \A s \in RowThreads : (procs'[s] = procs[s] \/ procs'[s] = "none") /\ (s # t => work'[s] = work[s])
  BY <1>1, <1>2, ProcessEnds DEF RowsInd
<1>5. GoesOn(m, "respawn")
  BY <1>1, <1>3, <1>4 DEF GoesOn, RowsInd, RowTypes, RowsTypeOK, OfMessages, Early, Placed
<1>6. RunningHasHandler'
  <2>1. ASSUME NEW s \in RowThreads, Owned(s) PROVE Owned(s)'
    <3>1. CASE s = t
      BY <1>2, <1>3, <3>1 DEF Owned, WritesBack
    <3>2. CASE s # t
      <4>1. \A n \in RowMessages : WritesBack(n, s) => WritesBack(n, s)'
        BY <1>3, HolderWritesBack
      <4> QED BY <1>1, <1>4, <2>1, <3>2, <4>1 DEF Owned
    <3> QED BY <3>1, <3>2
  <2> QED BY <1>1, <2>1, OwnersRemain DEF RowsInd, OfMessages
<1> QED BY <1>5, <1>6, HandlerGoesOn DEF RowsInd

\* It spawns another, or leaves its status to nobody.
LEMMA RespawnStep ==
  ASSUME RowsInd, NEW m \in RowMessages, NEW spawned \in BOOLEAN, Respawn(m, spawned)
  PROVE  RowsInd'
<1> DEFINE t == msg[m].thread
<1>1. /\ msg[m].at = "respawn" /\ Handling(m) /\ OfMessages /\ GetOrCreate(m, spawned, "send")
      /\ stranded' = IF procs'[t] = "none" /\ rows[t] = "running" THEN stranded \cup {t} ELSE stranded
      /\ UNCHANGED <<rows, work, swept, late>>
  BY DEF Respawn, OfMessages, Handling
<1>2. PICK to \in {"send", "done"} :
        /\ MessageTypes' /\ msg'[m].at = to
        /\ to # "done" => /\ msg'[m].thread = t /\ msg'[m].path = msg[m].path
                          /\ msg'[m].primary = msg[m].primary
        /\ to = "done" => UNCHANGED procs /\ procs[t] = "none"
        /\ \A n \in RowMessages \ {m} : msg'[n] = msg[n]
        /\ procs' \in [RowThreads -> {"none"} \cup Directories]
        /\ \A s \in RowThreads : procs'[s] = procs[s] \/ (s = t /\ procs'[s] = msg[m].path)
  BY <1>1, GetOrCreates DEF RowsInd
<1>3. t \in RowThreads
  BY <1>1 DEF RowsInd, RowTypes, MessageTypes
<1>4. stranded' \subseteq RowThreads /\ stranded \subseteq stranded'
  BY <1>1, <1>3 DEF RowsInd, RowTypes, RowsTypeOK
<1>5. GoesOn(m, to)
  BY <1>1, <1>2, <1>4 DEF GoesOn, RowsInd, RowTypes, RowsTypeOK, OfMessages, Early, Placed
<1>6. RunningHasHandler'
  <2>1. ASSUME NEW s \in RowThreads, rows[s] = "running", Owned(s) PROVE Owned(s)'
    <3>1. CASE to = "done" /\ s = t
      <4>1. procs'[t] = "none"
        BY <1>2, <3>1
      <4>2. t \in stranded'
        BY <1>1, <2>1, <3>1, <4>1
      <4> QED BY <3>1, <4>2 DEF Owned
    <3>2. CASE to = "done" /\ s # t
      <4>1. \A n \in RowMessages : WritesBack(n, s) => WritesBack(n, s)'
        BY <1>2, <3>2 DEF WritesBack
      <4> QED BY <1>1, <1>4, <2>1, <4>1 DEF Owned
    <3>3. CASE to = "send"
      <4>1. \A n \in RowMessages : WritesBack(n, s) => WritesBack(n, s)'
        BY <1>2, <3>3, HolderWritesBack
      <4> QED BY <1>1, <1>4, <2>1, <4>1 DEF Owned
    <3> QED BY <3>1, <3>2, <3>3
  <2> QED BY <1>1, <2>1, OwnersRemain DEF RowsInd, OfMessages
<1> QED BY <1>5, <1>6, HandlerGoesOn DEF RowsInd

\* It is over, and the status it held is idle or another's.
LEMMA GivesBack ==
  ASSUME RowsInd, NEW m \in RowMessages, Handling(m), OfMessages, MessageTo(m, "done"),
         SetStatus(msg[m].thread, "idle"), UNCHANGED <<procs, work, swept, late>>
  PROVE  RowsInd'
<1> DEFINE t == msg[m].thread
<1>1. t \in RowThreads
  BY DEF RowsInd, RowTypes, MessageTypes
<1>2. MessageTypes' /\ msg'[m].at = "done" /\ \A n \in RowMessages \ {m} : msg'[n] = msg[n]
  BY MessageMoves DEF RowsInd, RowTypes, MessageSteps
<1>3. /\ rows' \in [RowThreads -> {"none", "idle", "running"}] /\ stranded' \subseteq RowThreads
      /\ rows'[t] # "running" /\ \A s \in RowThreads : rows[s] # "none" => rows'[s] # "none"
      /\ \A s \in RowThreads \ {t} : rows'[s] = rows[s] /\ (s \in stranded' <=> s \in stranded)
  BY <1>1, StatusIsSet DEF RowsInd
<1>4. GoesOn(m, "done")
  BY <1>2, <1>3 DEF GoesOn, RowsInd, RowTypes, RowsTypeOK, OfMessages, Early, Placed
<1>5. RunningHasHandler'
  <2>1. ASSUME NEW s \in RowThreads \ {t}, Owned(s) PROVE Owned(s)'
    <3>1. \A n \in RowMessages : WritesBack(n, s) => WritesBack(n, s)'
      BY <1>2 DEF WritesBack
    <3> QED BY <1>3, <2>1, <3>1 DEF Owned
  <2> QED BY <1>3, <2>1, OwnersRemain DEF RowsInd, OfMessages
<1> QED BY <1>4, <1>5, HandlerGoesOn DEF RowsInd

\* It is sent, or it gives the turn back.
LEMMA SendMessageStep ==
  ASSUME RowsInd, NEW m \in RowMessages, SendMessage(m)
  PROVE  RowsInd'
<1> DEFINE t == msg[m].thread
<1>1. /\ msg[m].at = "send" /\ Handling(m) /\ OfMessages /\ UNCHANGED <<procs, work, swept, late>>
  BY DEF SendMessage, OfMessages, Handling
<1>2. CASE procs[t] = "none" /\ msg[m].primary
  <2>1. MessageTo(m, "done") /\ SetStatus(t, "idle")
    BY <1>2 DEF SendMessage
  <2> QED BY <1>1, <2>1, GivesBack
<1>3. CASE ~(procs[t] = "none" /\ msg[m].primary)
  <2>1. PICK to \in {"turn", "done"} : MessageTo(m, to) /\ (to = "done" => ~msg[m].primary)
    BY <1>3 DEF SendMessage
  <2>2. UNCHANGED <<rows, stranded>>
    BY <1>3 DEF SendMessage
  <2>3. /\ MessageTypes' /\ msg'[m].at = to
        /\ to # "done" => /\ msg'[m].thread = t /\ msg'[m].path = msg[m].path
                          /\ msg'[m].primary = msg[m].primary
        /\ \A n \in RowMessages \ {m} : msg'[n] = msg[n]
    BY <1>1, <2>1, MessageMoves DEF RowsInd, RowTypes, MessageSteps
  <2>4. GoesOn(m, to)
    BY <1>1, <2>2, <2>3 DEF GoesOn, RowsInd, RowTypes, RowsTypeOK, OfMessages, Early, Placed
  <2>5. RunningHasHandler'
    <3>1. ASSUME NEW s \in RowThreads, Owned(s) PROVE Owned(s)'
      <4>1. ASSUME NEW n \in RowMessages, WritesBack(n, s) PROVE WritesBack(n, s)'
        <5>1. CASE n = m
          BY <2>1, <2>3, <4>1, <5>1 DEF WritesBack
        <5>2. CASE n # m
          BY <2>3, <4>1, <5>2 DEF WritesBack
        <5> QED BY <5>1, <5>2
      <4> QED BY <1>1, <2>2, <3>1, <4>1 DEF Owned
    <3> QED BY <1>1, <2>2, <3>1, OwnersRemain DEF RowsInd, OfMessages
  <2> QED BY <2>4, <2>5, HandlerGoesOn DEF RowsInd
<1> QED BY <1>2, <1>3

\* Its turn ends.
LEMMA FinishTurnStep ==
  ASSUME RowsInd, NEW m \in RowMessages, FinishTurn(m)
  PROVE  RowsInd'
<1>1. /\ Handling(m) /\ OfMessages /\ MessageTo(m, "done") /\ SetStatus(msg[m].thread, "idle")
      /\ UNCHANGED <<procs, work, swept, late>>
  BY DEF FinishTurn, OfMessages, Handling
<1> QED BY <1>1, GivesBack

(***************************************************************************)
(* The steps of workers and of those who end sessions: messages stay too.   *)
(***************************************************************************)
\* No process is spawned and no row deleted.
SessionsGoOn ==
  /\ OfMessages /\ UNCHANGED <<msg, late>> /\ RowsTypeOK'
  /\ \A t \in RowThreads : /\ procs'[t] = procs[t] \/ procs'[t] = "none"
                           /\ rows[t] # "none" => rows'[t] # "none"

\* Such a step disturbs nothing but who owns a status.
LEMMA SessionGoesOn ==
  ASSUME RowsInd, SessionsGoOn,
         \A t \in RowThreads : rows'[t] = "running" => Owned(t)' \/ (rows[t] = "running" /\ ~Owned(t))
  PROVE  RowsInd'
<1>1. RowTypes'
  BY DEF RowsInd, RowTypes, RowCommandTypes, MessageTypes, Handling, OfMessages, SessionsGoOn
<1>2. RunningHasHandler'
  BY OwnersRemain DEF RowsInd, OfMessages, SessionsGoOn
<1>3. ThreadsOK'
  <2> SUFFICES ASSUME NEW s \in RowThreads, s \notin late PROVE ThreadOK(s)'
    BY DEF ThreadsOK, ThreadOK, SessionsGoOn
  <2>1. (Unregistering' <=> Unregistering) /\ project' = project /\ cmd' = cmd /\ msg' = msg
    BY DEF Unregistering, OfMessages, SessionsGoOn
  <2>2. ThreadOK(s) /\ (rows[s] # "none" => rows'[s] # "none") /\ (procs'[s] = procs[s] \/ procs'[s] = "none")
    BY DEF RowsInd, ThreadsOK, SessionsGoOn
  <2>3. ProcessOK(s)'
    BY <2>1, <2>2 DEF ThreadOK, ProcessOK
  <2>4. \A c \in RowCommands : CommandOK(s, c)'
    BY <2>1, <2>2 DEF ThreadOK, CommandOK
  <2>5. \A n \in RowMessages : MessageOK(s, n)'
    BY <2>1, <2>2 DEF ThreadOK, MessageOK
  <2> QED BY <2>3, <2>4, <2>5 DEF ThreadOK
<1>4. ScopeOK'
  BY ScopeRests DEF RowsInd, OfMessages, SessionsGoOn
<1> QED BY <1>1, <1>2, <1>3, <1>4 DEF RowsInd

\* Handlers are not touched by what a worker does.
LEMMA HandlersStay ==
  ASSUME UNCHANGED msg, NEW t, Owned(t), ~Owned(t)'
  PROVE  (work[t] = "bg" /\ work'[t] # "bg") \/ (t \in swept /\ t \notin swept')
         \/ (t \in stranded /\ t \notin stranded')
BY DEF Owned, WritesBack

\* A worker begins and ends a turn of a message.
LEMMA WorkerStep ==
  ASSUME RowsInd, NEW t \in RowThreads, WorkerTurn(t) \/ WorkerRests(t)
  PROVE  RowsInd'
<1>1. /\ OfMessages /\ UNCHANGED <<msg, late, rows, procs, swept, stranded>>
      /\ work[t] # "bg" /\ \E w \in {"none", "turn"} : work' = [work EXCEPT ![t] = w]
  BY DEF WorkerTurn, WorkerRests, OfMessages
<1>2. /\ work' \in [RowThreads -> {"none", "turn", "bg"}]
      /\ \A s \in RowThreads : work[s] = "bg" => work'[s] = "bg"
  BY <1>1 DEF RowsInd, RowTypes, RowsTypeOK
<1>3. SessionsGoOn
  BY <1>1, <1>2 DEF SessionsGoOn, RowsInd, RowTypes, RowsTypeOK, OfMessages
<1>4. \A s \in RowThreads : Owned(s) => Owned(s)'
  BY <1>1, <1>2, HandlersStay
<1> QED BY <1>1, <1>3, <1>4, SessionGoesOn

\* A background turn owns the status it writes, and gives it back.
LEMMA BgTurnStep ==
  ASSUME RowsInd, NEW t \in RowThreads, StartBgTurn(t) \/ EndBgTurn(t)
  PROVE  RowsInd'
<1>1. PICK w \in {"bg", "none"} :
        /\ work' = [work EXCEPT ![t] = w] /\ SetStatus(t, IF w = "bg" THEN "running" ELSE "idle")
  BY DEF StartBgTurn, EndBgTurn
<1>2. OfMessages /\ UNCHANGED <<msg, late, procs, swept>>
  BY DEF StartBgTurn, EndBgTurn, OfMessages
<1> DEFINE s == IF w = "bg" THEN "running" ELSE "idle"
<1>3. s \in {"idle", "running"} /\ SetStatus(t, s)
  BY <1>1
<1>4. /\ rows' \in [RowThreads -> {"none", "idle", "running"}] /\ stranded' \subseteq RowThreads
      /\ rows'[t] = "none" \/ rows'[t] = s
      /\ \A u \in RowThreads : rows[u] # "none" => rows'[u] # "none"
      /\ \A u \in RowThreads \ {t} : rows'[u] = rows[u] /\ (u \in stranded' <=> u \in stranded)
  <2> HIDE DEF s
  <2> QED BY <1>3, StatusIsSet DEF RowsInd
<1>5. /\ work' \in [RowThreads -> {"none", "turn", "bg"}] /\ work'[t] = w
      /\ \A u \in RowThreads \ {t} : work'[u] = work[u]
  BY <1>1 DEF RowsInd, RowTypes, RowsTypeOK
<1>6. SessionsGoOn
  BY <1>2, <1>4, <1>5 DEF SessionsGoOn, RowsInd, RowTypes, RowsTypeOK, OfMessages
<1>7. \A u \in RowThreads \ {t} : Owned(u) => Owned(u)'
  BY <1>2, <1>4, <1>5, HandlersStay
<1>8. rows'[t] = "running" => Owned(t)'
  BY <1>4, <1>5 DEF Owned
<1> QED BY <1>4, <1>6, <1>7, <1>8, SessionGoesOn

\* A session ends, and somebody is left with its status or no background turn had it.
LEMMA EndsStep ==
  ASSUME RowsInd, NEW t \in RowThreads,
         ExitProcess(t) \/ (\E panicked \in BOOLEAN : EndSession(t, panicked)) \/ EndSilently(t)
  PROVE  RowsInd'
<1>1. OfMessages /\ UNCHANGED <<msg, late, rows>> /\ EndProcess(t)
  BY DEF ExitProcess, EndSession, EndSilently, OfMessages
<1>2. /\ procs' \in [RowThreads -> {"none"} \cup Directories]
      /\ work' \in [RowThreads -> {"none", "turn", "bg"}]
      /\ \A s \in RowThreads : (procs'[s] = procs[s] \/ procs'[s] = "none") /\ (s # t => work'[s] = work[s])
  BY <1>1, ProcessEnds DEF RowsInd
<1>3. /\ swept \subseteq swept' /\ stranded \subseteq stranded'
      /\ swept' \subseteq swept \cup {t} /\ stranded' \subseteq stranded \cup {t}
  BY DEF ExitProcess, EndSession, EndSilently, Orphaned
<1>4. rows[t] = "running" /\ work[t] = "bg" => t \in swept' \/ t \in stranded'
  BY DEF ExitProcess, EndSession, EndSilently, Orphaned
<1>5. SessionsGoOn
  BY <1>1, <1>2, <1>3 DEF SessionsGoOn, RowsInd, RowTypes, RowsTypeOK, OfMessages
<1>6. \A s \in RowThreads : Owned(s) /\ rows[s] = "running" => Owned(s)'
  <2> SUFFICES ASSUME NEW s \in RowThreads, Owned(s), rows[s] = "running", ~Owned(s)' PROVE FALSE
    OBVIOUS
  <2>1. (work[s] = "bg" /\ work'[s] # "bg") \/ (s \in swept /\ s \notin swept')
        \/ (s \in stranded /\ s \notin stranded')
    BY <1>1, HandlersStay
  <2>2. s = t /\ work[t] = "bg"
    BY <1>2, <1>3, <2>1
  <2> QED BY <1>4, <2>2 DEF Owned
<1> QED BY <1>1, <1>5, <1>6, SessionGoesOn

\* Whoever ended a session writes its status.
LEMMA WriteStatusStep ==
  ASSUME RowsInd, NEW t \in RowThreads, WriteStatus(t)
  PROVE  RowsInd'
<1>1. /\ OfMessages /\ UNCHANGED <<msg, late, procs, work>> /\ SetStatus(t, "idle")
      /\ swept' = swept \ {t}
  BY DEF WriteStatus, OfMessages
<1>2. /\ rows' \in [RowThreads -> {"none", "idle", "running"}] /\ stranded' \subseteq RowThreads
      /\ rows'[t] # "running" /\ \A u \in RowThreads : rows[u] # "none" => rows'[u] # "none"
      /\ \A u \in RowThreads \ {t} : rows'[u] = rows[u] /\ (u \in stranded' <=> u \in stranded)
  BY <1>1, StatusIsSet DEF RowsInd
<1>3. SessionsGoOn
  BY <1>1, <1>2 DEF SessionsGoOn, RowsInd, RowTypes, RowsTypeOK, OfMessages
<1>4. \A u \in RowThreads \ {t} : Owned(u) => Owned(u)'
  BY <1>1, <1>2, HandlersStay
<1> QED BY <1>2, <1>3, <1>4, SessionGoesOn

(***************************************************************************)
(* The steps of commands: messages stay.                                    *)
(***************************************************************************)
\* Without a project, nothing runs in a thread and nothing is on its way to one.
LEMMA NothingRuns ==
  ASSUME RowsInd, NEW t \in RowThreads, t \notin late, project \notin Directories
  PROVE  /\ procs[t] = "none"
         /\ \A m \in RowMessages : ~(msg[m].thread = t /\ msg[m].at \in Early)
<1>1. ThreadOK(t)
  BY DEF RowsInd, ThreadsOK
<1>2. procs[t] = "none"
  <2>1. procs[t] \in {"none"} \cup Directories
    BY DEF RowsInd, RowTypes, RowsTypeOK
  <2>2. procs[t] # "none" => procs[t] = project
    BY <1>1 DEF ThreadOK, ProcessOK
  <2> QED BY <2>1, <2>2
<1>3. ASSUME NEW m \in RowMessages, msg[m].thread = t, msg[m].at \in Early PROVE FALSE
  <2>1. Handling(m)
    BY <1>3 DEF Handling, Early
  <2> QED BY <1>1, <1>3, <2>1 DEF ThreadOK, MessageOK, RowsInd, RowTypes, MessageTypes
<1> QED BY <1>2, <1>3

\* A step that touches no cached scope.
LEMMA NoScopeCached ==
  ASSUME ScopeOK, UNCHANGED <<scope, up, missed>>,
         \A d \in RowCommands : /\ cmd'[d].at = "cache" <=> cmd[d].at = "cache"
                                /\ cmd[d].at = "cache" => cmd'[d].arg = cmd[d].arg
  PROVE  ScopeOK'
BY DEF ScopeOK, ScopeIsCached

\* /register, /unregister and /new_project begin; the last one may make the channel.
LEMMA BeginStep ==
  ASSUME RowsInd, NEW c \in RowCommands, NEW arg, NEW to, Begin(c, arg, to),
         to = "done" \/ (to = "insert" /\ arg \in Directories) \/ (to = "list" /\ arg = "none"),
         project' = project \/ (project = "no channel" /\ project' = "none"),
         UNCHANGED <<rows, sessionVars, msg, scope, up, crashes, late, missed>>
  PROVE  RowsInd'
<1>1. RowCommandTypes' /\ cmd'[c].at = to /\ \A d \in RowCommands \ {c} : cmd'[d] = cmd[d]
  BY CommandBegins DEF RowsInd, RowTypes
<1>2. cmd[c].at = "new" /\ to \notin {"kill", "rows", "project", "cache"}
  BY DEF Begin
<1>3. RowTypes'
  BY <1>1 DEF RowsInd, RowTypes, RowsTypeOK, MessageTypes, Handling, sessionVars
<1>4. RunningHasHandler'
  BY DEF RowsInd, RunningHasHandler, WritesBack, sessionVars
<1>5. ThreadsOK'
  <2> SUFFICES ASSUME NEW s \in RowThreads, s \notin late PROVE ThreadOK(s)'
    BY DEF ThreadsOK, ThreadOK
  <2>1. Unregistering' <=> Unregistering
    BY <1>1, <1>2 DEF Unregistering
  <2>2. ThreadOK(s)
    BY DEF RowsInd, ThreadsOK
  <2>3. \A d \in RowCommands : CommandOK(s, d)'
    BY <1>1, <1>2, <2>2 DEF ThreadOK, CommandOK, sessionVars
  <2>4. CASE project' = project
    BY <2>1, <2>2, <2>3, <2>4 DEF ThreadOK, ProcessOK, MessageOK, sessionVars
  <2>5. CASE project = "no channel"
    <3>1. procs[s] = "none" /\ \A m \in RowMessages : ~(msg[m].thread = s /\ msg[m].at \in Early)
      BY <2>5, NothingRuns, RowsAssumption
    <3> QED BY <2>3, <3>1 DEF ThreadOK, ProcessOK, MessageOK, sessionVars
  <2> QED BY <2>4, <2>5
<1>6. ScopeOK'
  BY <1>1, <1>2, NoScopeCached DEF RowsInd
<1> QED BY <1>3, <1>4, <1>5, <1>6 DEF RowsInd

\* The project is inserted where none is.
LEMMA InsertProjectStep ==
  ASSUME RowsInd, NEW c \in RowCommands, InsertProject(c)
  PROVE  RowsInd'
<1>1. /\ cmd[c].at = "insert" /\ CommandTo(c, "done")
      /\ project' = IF Registered THEN project ELSE cmd[c].arg
      /\ UNCHANGED <<rows, sessionVars, msg, scope, up, crashes, late, missed>>
  BY DEF InsertProject
<1>2. RowCommandTypes' /\ cmd'[c].at = "done" /\ \A d \in RowCommands \ {c} : cmd'[d] = cmd[d]
  BY <1>1, RowCommandMoves DEF RowsInd, RowTypes
<1>3. cmd[c].arg \in Directories
  BY <1>1 DEF RowsInd, RowTypes, RowCommandTypes
<1>4. RowTypes'
  BY <1>1, <1>2, <1>3 DEF RowsInd, RowTypes, RowsTypeOK, MessageTypes, Handling, sessionVars
<1>5. RunningHasHandler'
  BY <1>1 DEF RowsInd, RunningHasHandler, WritesBack, sessionVars
<1>6. ThreadsOK'
  <2> SUFFICES ASSUME NEW s \in RowThreads, s \notin late PROVE ThreadOK(s)'
    BY <1>1 DEF ThreadsOK, ThreadOK
  <2>1. Unregistering' <=> Unregistering
    BY <1>1, <1>2 DEF Unregistering
  <2>2. ThreadOK(s)
    BY DEF RowsInd, ThreadsOK
  <2>3. \A d \in RowCommands : CommandOK(s, d)'
    BY <1>1, <1>2, <2>2 DEF ThreadOK, CommandOK, sessionVars
  <2>4. CASE Registered
    BY <1>1, <2>1, <2>2, <2>3, <2>4 DEF ThreadOK, ProcessOK, MessageOK, sessionVars
  <2>5. CASE ~Registered
    <3>1. procs[s] = "none" /\ \A m \in RowMessages : ~(msg[m].thread = s /\ msg[m].at \in Early)
      BY <2>5, NothingRuns DEF Registered
    <3> QED BY <1>1, <2>3, <3>1 DEF ThreadOK, ProcessOK, MessageOK, sessionVars
  <2> QED BY <2>4, <2>5
<1>7. ScopeOK'
  BY <1>1, <1>2, NoScopeCached DEF RowsInd
<1> QED BY <1>4, <1>5, <1>6, <1>7 DEF RowsInd

\* The sessions are listed: a thread that is not late is listed if it has a process.
LEMMA ListSessionsStep ==
  ASSUME RowsInd, NEW c \in RowCommands, ListSessions(c)
  PROVE  RowsInd'
<1> DEFINE listed == {t \in RowThreads : rows[t] # "none"}
<1>1. /\ cmd[c].at = "list"
      /\ cmd' = [cmd EXCEPT ![c].at = "kill", ![c].list = listed]
      /\ late' = late \cup {msg[m].thread : m \in {n \in RowMessages : msg[n].at \in Early}}
      /\ UNCHANGED <<project, rows, procs, work, swept, stranded, msg, scope, up, crashes, missed>>
  BY DEF ListSessions, Coming, Early, sessionVars
<1>2. listed \subseteq RowThreads
  OBVIOUS
<1> HIDE DEF listed
<1>3. /\ cmd'[c].at = "kill" /\ cmd'[c].list = listed
      /\ \A d \in RowCommands \ {c} : cmd'[d] = cmd[d]
      /\ cmd' \in [RowCommands -> [at : CommandSteps, arg : Directories \cup Scopes \cup {"none"},
                                   list : SUBSET RowThreads]]
  BY <1>1, <1>2 DEF RowsInd, RowTypes, RowCommandTypes, CommandSteps
<1>4. RowCommandTypes'
  BY <1>3 DEF RowsInd, RowTypes, RowCommandTypes
<1>5. RowTypes'
  BY <1>1, <1>4 DEF RowsInd, RowTypes, RowsTypeOK, MessageTypes, Handling, sessionVars
<1>6. RunningHasHandler'
  BY <1>1 DEF RowsInd, RunningHasHandler, WritesBack, sessionVars
<1>7. ThreadsOK'
  <2> SUFFICES ASSUME NEW s \in RowThreads, s \notin late' PROVE ThreadOK(s)'
    BY DEF ThreadsOK, ThreadOK
  <2>1. s \notin late /\ \A m \in RowMessages : ~(msg[m].thread = s /\ msg[m].at \in Early)
    BY <1>1
  <2>2. ThreadOK(s)
    BY DEF RowsInd, ThreadsOK
  <2>3. ProcessOK(s)'
    BY <1>1, <2>1, <2>2 DEF ThreadOK, ProcessOK
  <2>4. ASSUME NEW d \in RowCommands PROVE CommandOK(s, d)'
    <3>1. CASE d = c
      BY <1>1, <1>3, <2>1, <2>2, <3>1 DEF ThreadOK, ProcessOK, CommandOK, listed
    <3>2. CASE d # c
      BY <1>1, <1>3, <2>1, <2>2, <3>2 DEF ThreadOK, CommandOK, sessionVars
    <3> QED BY <3>1, <3>2
  <2>5. \A m \in RowMessages : MessageOK(s, m)'
    BY <1>1, <2>1 DEF MessageOK
  <2> QED BY <2>3, <2>4, <2>5 DEF ThreadOK
<1>8. ScopeOK'
  BY <1>1, <1>3, NoScopeCached DEF RowsInd
<1> QED BY <1>5, <1>6, <1>7, <1>8 DEF RowsInd

\* During an /unregister nothing is on its way to a thread that is not late.
LEMMA NothingComes ==
  ASSUME RowsInd, NEW t \in RowThreads, t \notin late, Unregistering
  PROVE  \A m \in RowMessages : ~(msg[m].thread = t /\ msg[m].at \in Early)
BY DEF RowsInd, ThreadsOK, ThreadOK, MessageOK

\* A listed session is killed.
LEMMA KillListedStep ==
  ASSUME RowsInd, NEW c \in RowCommands, NEW t \in RowThreads, KillListed(c, t)
  PROVE  RowsInd'
<1> DEFINE left == cmd[c].list \ {t}
<1>1. /\ cmd[c].at = "kill"
      /\ EndProcess(t) /\ stranded' = stranded \cup Orphaned(t)
      /\ cmd' = [cmd EXCEPT ![c].list = left]
      /\ UNCHANGED <<project, rows, swept, msg, scope, up, crashes, late, missed>>
  BY DEF KillListed
<1>2. left \subseteq RowThreads
  BY DEF RowsInd, RowTypes, RowCommandTypes
<1> HIDE DEF left
<1>3. /\ cmd'[c].at = "kill" /\ cmd'[c].list = left
      /\ \A d \in RowCommands \ {c} : cmd'[d] = cmd[d]
      /\ cmd' \in [RowCommands -> [at : CommandSteps, arg : Directories \cup Scopes \cup {"none"},
                                   list : SUBSET RowThreads]]
  BY <1>1, <1>2 DEF RowsInd, RowTypes, RowCommandTypes, CommandSteps
<1>4. RowCommandTypes'
  BY <1>3 DEF RowsInd, RowTypes, RowCommandTypes
<1>5. /\ procs' \in [RowThreads -> {"none"} \cup Directories] /\ procs'[t] = "none"
      /\ \A s \in RowThreads \ {t} : procs'[s] = procs[s] /\ work'[s] = work[s]
      /\ work' \in [RowThreads -> {"none", "turn", "bg"}]
      /\ stranded \subseteq stranded' /\ stranded' \subseteq RowThreads
  BY <1>1 DEF RowsInd, RowTypes, RowsTypeOK, EndProcess, Orphaned
<1>6. RowTypes'
  BY <1>1, <1>4, <1>5 DEF RowsInd, RowTypes, RowsTypeOK, MessageTypes, Handling, sessionVars
<1>7. RunningHasHandler'
  <2> SUFFICES ASSUME NEW s \in RowThreads, Owned(s), rows[s] = "running", ~Owned(s)' PROVE FALSE
    BY <1>1, OwnersRemain DEF RowsInd
  <2>1. work[s] = "bg" /\ work'[s] # "bg"
    BY <1>1, <1>5, HandlersStay
  <2>2. s = t
    BY <1>5, <2>1
  <2> QED BY <1>1, <2>1, <2>2 DEF Orphaned, Owned
<1>8. ThreadsOK'
  <2> SUFFICES ASSUME NEW s \in RowThreads, s \notin late PROVE ThreadOK(s)'
    BY <1>1 DEF ThreadsOK, ThreadOK
  <2>1. ThreadOK(s) /\ \A m \in RowMessages : ~(msg[m].thread = s /\ msg[m].at \in Early)
    BY <1>1, NothingComes DEF RowsInd, ThreadsOK, Unregistering
  <2>2. ProcessOK(s)'
    BY <1>1, <1>5, <2>1 DEF ThreadOK, ProcessOK
  <2>3. ASSUME NEW d \in RowCommands PROVE CommandOK(s, d)'
    <3>1. CommandOK(s, d)
      BY <2>1 DEF ThreadOK
    <3>2. CASE d = c
      BY <1>1, <1>3, <1>5, <3>1, <3>2 DEF CommandOK, left
    <3>3. CASE d # c
      BY <1>3, <1>5, <3>1, <3>3 DEF CommandOK
    <3> QED BY <3>2, <3>3
  <2>4. \A m \in RowMessages : MessageOK(s, m)'
    BY <1>1, <2>1 DEF MessageOK
  <2> QED BY <2>2, <2>3, <2>4 DEF ThreadOK
<1>9. ScopeOK'
  BY <1>1, <1>3, NoScopeCached DEF RowsInd
<1> QED BY <1>6, <1>7, <1>8, <1>9 DEF RowsInd

\* The rows of the channel are deleted.
LEMMA DeleteRowsStep ==
  ASSUME RowsInd, NEW c \in RowCommands, DeleteRows(c)
  PROVE  RowsInd'
<1>1. /\ cmd[c].at = "kill" /\ cmd[c].list = {} /\ CommandTo(c, "project")
      /\ rows' = [t \in RowThreads |-> "none"] /\ stranded' = {}
      /\ UNCHANGED <<project, procs, work, swept, msg, scope, up, crashes, late, missed>>
  BY DEF DeleteRows
<1>2. RowCommandTypes' /\ cmd'[c].at = "project" /\ \A d \in RowCommands \ {c} : cmd'[d] = cmd[d]
  BY <1>1, RowCommandMoves DEF RowsInd, RowTypes
<1>3. RowTypes'
  BY <1>1, <1>2 DEF RowsInd, RowTypes, RowsTypeOK, MessageTypes, Handling, sessionVars
<1>4. RunningHasHandler'
  BY <1>1 DEF RunningHasHandler
<1>5. ThreadsOK'
  <2> SUFFICES ASSUME NEW s \in RowThreads, s \notin late PROVE ThreadOK(s)'
    BY <1>1 DEF ThreadsOK, ThreadOK
  <2>1. ThreadOK(s) /\ \A m \in RowMessages : ~(msg[m].thread = s /\ msg[m].at \in Early)
    BY <1>1, NothingComes DEF RowsInd, ThreadsOK, Unregistering
  <2>2. procs[s] = "none"
    BY <1>1, <2>1 DEF ThreadOK, CommandOK, sessionVars
  <2> QED BY <1>1, <1>2, <2>1, <2>2 DEF ThreadOK, ProcessOK, MessageOK, CommandOK
<1>6. ScopeOK'
  BY <1>1, <1>2, NoScopeCached DEF RowsInd
<1> QED BY <1>3, <1>4, <1>5, <1>6 DEF RowsInd

\* The project is deleted, or stays for a late session.
LEMMA DeleteProjectStep ==
  ASSUME RowsInd, NEW c \in RowCommands, DeleteProject(c)
  PROVE  RowsInd'
<1>1. /\ cmd[c].at = "project" /\ CommandTo(c, "done")
      /\ project' = project \/ project' = "none"
      /\ UNCHANGED <<rows, sessionVars, msg, scope, up, crashes, late, missed>>
  BY DEF DeleteProject
<1>2. RowCommandTypes' /\ cmd'[c].at = "done" /\ \A d \in RowCommands \ {c} : cmd'[d] = cmd[d]
  BY <1>1, RowCommandMoves DEF RowsInd, RowTypes
<1>3. RowTypes'
  BY <1>1, <1>2 DEF RowsInd, RowTypes, RowsTypeOK, MessageTypes, Handling, sessionVars
<1>4. RunningHasHandler'
  BY <1>1 DEF RowsInd, RunningHasHandler, WritesBack, sessionVars
<1>5. ThreadsOK'
  <2> SUFFICES ASSUME NEW s \in RowThreads, s \notin late PROVE ThreadOK(s)'
    BY <1>1 DEF ThreadsOK, ThreadOK
  <2>1. ThreadOK(s) /\ \A m \in RowMessages : ~(msg[m].thread = s /\ msg[m].at \in Early)
    BY <1>1, NothingComes DEF RowsInd, ThreadsOK, Unregistering
  <2>2. procs[s] = "none"
    BY <1>1, <2>1 DEF ThreadOK, CommandOK, sessionVars
  <2> QED BY <1>1, <1>2, <2>1, <2>2 DEF ThreadOK, ProcessOK, MessageOK, CommandOK, sessionVars
<1>6. ScopeOK'
  BY <1>1, <1>2, NoScopeCached DEF RowsInd
<1> QED BY <1>3, <1>4, <1>5, <1>6 DEF RowsInd

\* Steps of the scope commands leave the threads alone.
LEMMA ScopeCommands ==
  ASSUME RowsInd, NEW c \in RowCommands, RowCommandTypes',
         scope' \in [db : Scopes, cache : Scopes], missed' \in BOOLEAN,
         cmd[c].at \notin {"kill", "project"}, cmd'[c].at \notin {"kill", "rows", "project"},
         \A d \in RowCommands \ {c} : cmd'[d] = cmd[d],
         UNCHANGED <<project, rows, sessionVars, msg, up, crashes, late>>
  PROVE  RowTypes' /\ RunningHasHandler' /\ ThreadsOK'
<1>1. RowTypes'
  BY DEF RowsInd, RowTypes, RowsTypeOK, MessageTypes, Handling, Scopes, sessionVars
<1>2. RunningHasHandler'
  BY DEF RowsInd, RunningHasHandler, WritesBack, sessionVars
<1>3. ThreadsOK'
  <2> SUFFICES ASSUME NEW s \in RowThreads, s \notin late PROVE ThreadOK(s)'
    BY DEF ThreadsOK, ThreadOK
  <2>1. Unregistering' => Unregistering
    BY DEF Unregistering
  <2>2. ThreadOK(s)
    BY DEF RowsInd, ThreadsOK
  <2>3. \A d \in RowCommands : CommandOK(s, d)'
    BY <2>2 DEF ThreadOK, CommandOK, sessionVars
  <2> QED BY <2>1, <2>2, <2>3 DEF ThreadOK, ProcessOK, MessageOK, sessionVars
<1> QED BY <1>1, <1>2, <1>3

\* The scope is saved.
LEMMA UpsertScopeStep ==
  ASSUME RowsInd, NEW c \in RowCommands, NEW s \in Scopes, UpsertScope(c, s)
  PROVE  RowsInd'
<1>1. /\ Begin(c, s, "cache") /\ up /\ cmd[c].at = "new"
      /\ scope' = [scope EXCEPT !.db = s]
      /\ missed' = (missed \/ \E other \in RowCommands : cmd[other].at = "cache")
      /\ UNCHANGED <<project, rows, sessionVars, msg, up, crashes, late>>
  BY DEF UpsertScope, Begin
<1>2. /\ RowCommandTypes' /\ cmd'[c].at = "cache" /\ cmd'[c].arg = s
      /\ \A d \in RowCommands \ {c} : cmd'[d] = cmd[d]
  BY <1>1, CommandBegins DEF RowsInd, RowTypes
<1>3. scope' \in [db : Scopes, cache : Scopes] /\ scope'.db = s
  BY <1>1 DEF RowsInd, RowTypes, RowsTypeOK, Scopes
<1>4. RowTypes' /\ RunningHasHandler' /\ ThreadsOK'
  BY <1>1, <1>2, <1>3, ScopeCommands DEF RowsInd, RowTypes
<1>5. ScopeOK'
  BY <1>1, <1>2, <1>3 DEF ScopeOK, ScopeIsCached
<1> QED BY <1>4, <1>5 DEF RowsInd

\* The scope is cached.
LEMMA CacheScopeStep ==
  ASSUME RowsInd, NEW c \in RowCommands, CacheScope(c)
  PROVE  RowsInd'
<1>1. /\ cmd[c].at = "cache" /\ CommandTo(c, "done")
      /\ scope' = [scope EXCEPT !.cache = cmd[c].arg]
      /\ UNCHANGED <<project, rows, sessionVars, msg, up, crashes, late, missed>>
  BY DEF CacheScope
<1>2. RowCommandTypes' /\ cmd'[c].at = "done" /\ \A d \in RowCommands \ {c} : cmd'[d] = cmd[d]
  BY <1>1, RowCommandMoves DEF RowsInd, RowTypes
<1>3. cmd[c].arg \in Scopes
  BY <1>1 DEF RowsInd, RowTypes, RowCommandTypes
<1>4. scope' \in [db : Scopes, cache : Scopes] /\ scope'.db = scope.db /\ scope'.cache = cmd[c].arg
  BY <1>1, <1>3 DEF RowsInd, RowTypes, RowsTypeOK, Scopes
<1>5. RowTypes' /\ RunningHasHandler' /\ ThreadsOK'
  BY <1>1, <1>2, <1>4, ScopeCommands DEF RowsInd, RowTypes
<1>6. ScopeOK'
  BY <1>1, <1>2, <1>4 DEF RowsInd, ScopeOK, ScopeIsCached
<1> QED BY <1>5, <1>6 DEF RowsInd

(***************************************************************************)
(* Crashes and boots.                                                       *)
(***************************************************************************)
\* A crash leaves the rows and the project.
LEMMA CrashBotStep == RowsInd /\ CrashBot => RowsInd'
<1> SUFFICES ASSUME RowsInd, CrashBot PROVE RowsInd'
  OBVIOUS
<1> DEFINE dead == [Unread EXCEPT !.at = "done"]
           over == [Unissued EXCEPT !.at = "done"]
<1>1. /\ up' = FALSE /\ crashes < MaxCrashes /\ crashes' = crashes + 1
      /\ procs' = [t \in RowThreads |-> "none"] /\ work' = [t \in RowThreads |-> "none"]
      /\ swept' = {} /\ stranded' = {}
      /\ msg' = [m \in RowMessages |-> IF Handling(m) THEN dead ELSE msg[m]]
      /\ cmd' = [c \in RowCommands |-> IF cmd[c].at = "new" THEN cmd[c] ELSE over]
      /\ scope' = [scope EXCEPT !.cache = "project"]
      /\ UNCHANGED <<project, rows, late, missed>>
  BY DEF CrashBot
<1>2. dead.at = "done" /\ dead \in [at : MessageSteps, thread : RowThreads \cup {"none"},
                                    path : Directories \cup {"none"}, primary : BOOLEAN]
  BY DEF Unread, MessageSteps
<1>3. over.at = "done" /\ over \in [at : CommandSteps, arg : Directories \cup Scopes \cup {"none"},
                                    list : SUBSET RowThreads]
  BY DEF Unissued, CommandSteps
<1> HIDE DEF dead, over
<1>4. /\ msg' \in [RowMessages -> [at : MessageSteps, thread : RowThreads \cup {"none"},
                                   path : Directories \cup {"none"}, primary : BOOLEAN]]
      /\ \A m \in RowMessages : msg'[m].at \in {"new", "done"}
  BY <1>1, <1>2 DEF RowsInd, RowTypes, MessageTypes, Handling
<1>5. /\ cmd' \in [RowCommands -> [at : CommandSteps, arg : Directories \cup Scopes \cup {"none"},
                                   list : SUBSET RowThreads]]
      /\ \A c \in RowCommands : cmd'[c].at \in {"new", "done"}
  BY <1>1, <1>3 DEF RowsInd, RowTypes, RowCommandTypes
<1>6. MessageTypes' /\ RowCommandTypes'
  BY <1>4, <1>5 DEF MessageTypes, RowCommandTypes, Handling
<1>7. RowsTypeOK'
  <2>1. crashes' \in 0..MaxCrashes
    <3>1. crashes \in 0..MaxCrashes /\ crashes < MaxCrashes /\ crashes' = crashes + 1
      BY <1>1 DEF RowsInd, RowTypes, RowsTypeOK
    <3>2. MaxCrashes \in Nat
      BY RowsAssumption
    <3> QED BY <3>1, <3>2
  <2>2. scope' \in [db : {"project", "global"}, cache : {"project", "global"}]
    BY <1>1 DEF RowsInd, RowTypes, RowsTypeOK
  <2>3. /\ procs' \in [RowThreads -> {"none"} \cup Directories]
        /\ work' \in [RowThreads -> {"none", "turn", "bg"}]
    BY <1>1
  <2> QED BY <1>1, <2>1, <2>2, <2>3 DEF RowsInd, RowTypes, RowsTypeOK
<1>8. RowTypes'
  BY <1>1, <1>6, <1>7 DEF RowsInd, RowTypes
<1>9. ThreadsOK'
  BY <1>1, <1>4, <1>5 DEF ThreadsOK, ThreadOK, ProcessOK, MessageOK, CommandOK, Early
<1>10. RunningHasHandler' /\ ScopeOK'
  BY <1>1, <1>5 DEF RunningHasHandler, ScopeOK, ScopeIsCached
<1> QED BY <1>8, <1>9, <1>10 DEF RowsInd

\* A boot resets the rows that ran and loads the scope.
LEMMA BootBotStep ==
  ASSUME RowsInd, NEW loaded \in BOOLEAN, BootBot(loaded)
  PROVE  RowsInd'
<1>1. /\ ~up /\ up' = TRUE
      /\ rows' = [t \in RowThreads |-> IF rows[t] = "running" THEN "idle" ELSE rows[t]]
      /\ scope' = IF loaded THEN [scope EXCEPT !.cache = scope.db] ELSE scope
      /\ missed' = ~loaded
      /\ UNCHANGED <<project, procs, work, swept, stranded, msg, cmd, crashes, late>>
  BY DEF BootBot, LoadScope, sessionVars
<1>2. /\ rows' \in [RowThreads -> {"none", "idle", "running"}]
      /\ \A t \in RowThreads : rows'[t] # "running" /\ (rows[t] # "none" => rows'[t] # "none")
  BY <1>1 DEF RowsInd, RowTypes, RowsTypeOK
<1>3. /\ scope' \in [db : Scopes, cache : Scopes]
      /\ loaded => scope'.cache = scope'.db
  BY <1>1 DEF RowsInd, RowTypes, RowsTypeOK, Scopes
<1>4. RowTypes'
  BY <1>1, <1>2, <1>3 DEF RowsInd, RowTypes, RowsTypeOK, MessageTypes, RowCommandTypes,
                          Handling, Scopes
<1>5. RunningHasHandler'
  BY <1>2 DEF RunningHasHandler
<1>6. ThreadsOK'
  <2> SUFFICES ASSUME NEW s \in RowThreads, s \notin late PROVE ThreadOK(s)'
    BY <1>1 DEF ThreadsOK, ThreadOK
  <2>1. (Unregistering' <=> Unregistering) /\ ThreadOK(s) /\ (rows[s] # "none" => rows'[s] # "none")
    BY <1>1, <1>2 DEF Unregistering, RowsInd, ThreadsOK
  <2> QED BY <1>1, <2>1 DEF ThreadOK, ProcessOK, MessageOK, CommandOK
<1>7. ScopeOK'
  BY <1>1, <1>3 DEF RowsInd, ScopeOK, ScopeIsCached
<1> QED BY <1>4, <1>5, <1>6, <1>7 DEF RowsInd

\* Every step keeps the invariant.
LEMMA RowsStep == RowsInd /\ [RowsNext]_rowsVars => RowsInd'
<1> SUFFICES ASSUME RowsInd, [RowsNext]_rowsVars PROVE RowsInd'
  OBVIOUS
<1>1. ASSUME NEW m \in RowMessages, NEW t \in RowThreads, ReadProject(m, t) PROVE RowsInd'
  BY <1>1, ReadProjectStep
<1>2. ASSUME NEW m \in RowMessages, MessageStep(m) PROVE RowsInd'
  BY <1>2, ReadRowStep, InsertRowStep, OpenStep, TryAcquireStep, ReloadStep, RespawnStep,
     SendMessageStep, FinishTurnStep DEF MessageStep
<1>3. ASSUME NEW t \in RowThreads, SessionStep(t) PROVE RowsInd'
  BY <1>3, WorkerStep, BgTurnStep, EndsStep, WriteStatusStep DEF SessionStep
<1>4. ASSUME NEW c \in RowCommands, NEW d \in Directories, Register(c, d) PROVE RowsInd'
  BY <1>4, BeginStep DEF Register
<1>5. ASSUME NEW c \in RowCommands, NEW d \in Directories, NewProject(c, d) PROVE RowsInd'
  BY <1>5, BeginStep DEF NewProject
<1>6. ASSUME NEW c \in RowCommands, Unregister(c) PROVE RowsInd'
  BY <1>6, BeginStep DEF Unregister
<1>7. ASSUME NEW c \in RowCommands, NEW s \in {"project", "global"}, UpsertScope(c, s)
      PROVE  RowsInd'
  BY <1>7, UpsertScopeStep DEF Scopes
<1>8. ASSUME NEW c \in RowCommands, CommandStep(c) PROVE RowsInd'
  BY <1>8, InsertProjectStep, ListSessionsStep, KillListedStep, DeleteRowsStep,
     DeleteProjectStep,
     CacheScopeStep DEF CommandStep
<1>9. CASE CrashBot
  BY <1>9, CrashBotStep
<1>10. ASSUME NEW loaded \in BOOLEAN, BootBot(loaded) PROVE RowsInd'
  BY <1>10, BootBotStep
<1>11. CASE UNCHANGED rowsVars
  <2>1. RowTypes' /\ RunningHasHandler'
    BY <1>11 DEF rowsVars, sessionVars, RowsInd, RowTypes, RowsTypeOK, MessageTypes,
                 RowCommandTypes, Handling, RunningHasHandler, WritesBack
  <2>2. ThreadsOK'
    BY <1>11 DEF rowsVars, sessionVars, RowsInd, ThreadsOK, ThreadOK, ProcessOK, MessageOK, CommandOK,
                 Unregistering
  <2>3. ScopeOK'
    BY <1>11 DEF rowsVars, RowsInd, ScopeOK, ScopeIsCached
  <2> QED BY <2>1, <2>2, <2>3 DEF RowsInd
<1> QED BY <1>1, <1>2, <1>3, <1>4, <1>5, <1>6, <1>7, <1>8, <1>9, <1>10, <1>11 DEF RowsNext

\* Nothing runs and nothing is written at the start.
LEMMA RowsInitial == RowsInit => RowsInd
<1> SUFFICES ASSUME RowsInit PROVE RowsInd
  OBVIOUS
<1>1. Unread.at = "new" /\ Unread \in [at : MessageSteps, thread : RowThreads \cup {"none"},
                                       path : Directories \cup {"none"}, primary : BOOLEAN]
  BY DEF Unread, MessageSteps
<1>2. Unissued.at = "new" /\ Unissued \in [at : CommandSteps, arg : Directories \cup Scopes \cup {"none"},
                                           list : SUBSET RowThreads]
  BY DEF Unissued, CommandSteps
<1>3. msg = [m \in RowMessages |-> Unread] /\ cmd = [c \in RowCommands |-> Unissued]
  BY DEF RowsInit
<1>4. MessageTypes /\ RowCommandTypes
  BY <1>1, <1>2, <1>3 DEF MessageTypes, RowCommandTypes, Handling
<1>5. RowsTypeOK
  <2>1. project \in {"none", "no channel"} \cup Directories
    <3>1. (CHOOSE d \in Directories : TRUE) \in Directories
      BY RowsAssumption
    <3> QED BY <3>1 DEF RowsInit
  <2>2. 0 \in 0..MaxCrashes
    <3>1. MaxCrashes \in Nat
      BY RowsAssumption
    <3> QED BY <3>1
  <2>3. /\ rows \in [RowThreads -> {"none", "idle", "running"}]
        /\ procs \in [RowThreads -> {"none"} \cup Directories]
        /\ work \in [RowThreads -> {"none", "turn", "bg"}] /\ swept = {} /\ stranded = {}
    BY DEF RowsInit
  <2>4. scope \in [db : {"project", "global"}, cache : {"project", "global"}] /\ crashes = 0
    BY DEF RowsInit
  <2> QED BY <2>1, <2>2, <2>3, <2>4 DEF RowsTypeOK
<1>6. RowTypes
  BY <1>4, <1>5 DEF RowsInit, RowTypes
<1>7. RunningHasHandler
  BY DEF RowsInit, RunningHasHandler
<1>8. ThreadsOK
  BY <1>1, <1>2, <1>3 DEF RowsInit, ThreadsOK, ThreadOK, ProcessOK, MessageOK, CommandOK, Early
<1>9. ScopeOK
  BY <1>2, <1>3 DEF RowsInit, ScopeOK, ScopeIsCached
<1> QED BY <1>6, <1>7, <1>8, <1>9 DEF RowsInd

\* The inductive invariant of the rows.
THEOREM RowsInvariant == RowsSpec => []RowsInd
BY RowsInitial, RowsStep, PTL DEF RowsSpec

\* A running row has a handler, a process its project and the cache the saved scope,
\* however commands, messages, crashes and boots interleave.
THEOREM RowsAgreeWithWhatRuns == RowsSpec => []RowsAgree
<1>1. RowsInd => RowsAgree
  BY DEF RowsInd, RowsAgree, ThreadsOK, ThreadOK, ProcessOK, ProcessHasProject, ScopeOK
<1> QED BY <1>1, RowsInvariant, PTL
=============================================================================
