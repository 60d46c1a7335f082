------------------------------ MODULE TurnOutput ------------------------------
(***************************************************************************)
(* What the turns of one thread show, and the SessionState entry they      *)
(* share: the archived tombstone that silences a turn ended by /clear or   *)
(* by the closing of the thread, the flag by which /kick learns that the   *)
(* turn ended by itself, and the slot of the todo tracker, which a path    *)
(* checks out while it talks to Discord and puts back afterwards.          *)
(*                                                                         *)
(* Every action is one critical section on session_states, one statement   *)
(* on the row of the thread, or one request to Discord.  The worker, the   *)
(* queue and the dispatch lock are those of ThreadTurns: here a turn has a *)
(* sender (sending) that the worker or a kill drops.                       *)
(***************************************************************************)
EXTENDS Integers, FiniteSets

CONSTANTS Turns,       \* handlers of a message or of a /kick, one turn each
          Background,  \* the worker's background turns, a path of its own
          Commands,    \* /clear, /sleep and closed-thread handlers
          MaxTodos,    \* bound: todo messages ever posted
          MaxMishaps   \* bound: failed requests and silent kills

ASSUME OutputAssumption ==
  MaxTodos \in Nat /\ MaxMishaps \in Nat /\ Background \notin Turns

VARIABLES entry,      \* session_states[thread], or NoEntry
          status,     \* the status of the row, "absent" without a row
          live,       \* the session is in the map of the manager
          interrupt,  \* an interrupt is waiting for the worker
          turn,       \* handler -> where it is
          sending,    \* the turns whose event sender the worker holds
          outcome,    \* handler -> how its turn ended; "failed" until the worker says so
          held,       \* path -> the todo tracker it has checked out
          command,    \* command -> its kind, step and the tracker it took
          pinned,     \* the todo messages that exist on Discord
          todos,      \* how many were posted
          mishaps,
          due,        \* turns that a tombstone has still to silence
          marked,     \* turns of which a tombstone was set after they began
          lost,       \* todo messages dropped with their tracker
          stuck,      \* todo messages whose removal failed
          credit      \* kicks registered and neither used nor cancelled

outputVars == <<entry, status, live, interrupt, turn, sending, outcome, held,
                command, pinned, todos, mishaps, due, marked, lost, stuck, credit>>

Paths == Turns \cup {Background}
Empty == [kind |-> "none", msg |-> 0]
Out == [kind |-> "out", msg |-> 0]
Here(m) == [kind |-> "here", msg |-> m]
NoEntry == [there |-> FALSE, archived |-> FALSE, joined |-> FALSE, kick |-> FALSE, slot |-> Empty]
NewEntry == [NoEntry EXCEPT !.there = TRUE]
Entry == IF entry.there THEN entry ELSE NewEntry     \* entry().or_default()
OnEntry(e) == IF entry.there THEN e ELSE entry       \* get_mut
NoCommand == [kind |-> "none", pc |-> "none", msg |-> 0]

OutputInit ==
  /\ entry = NoEntry /\ status = "absent" /\ live = FALSE /\ interrupt = FALSE
  /\ turn = [h \in Turns |-> "new"]
  /\ sending = {}
  /\ outcome = [h \in Turns |-> "failed"]
  /\ held = [p \in Paths |-> Empty]
  /\ command = [c \in Commands |-> NoCommand]
  /\ pinned = {} /\ todos = 0 /\ mishaps = 0
  /\ due = {} /\ marked = {} /\ lost = {} /\ stuck = {} /\ credit = 0

Running == {h \in Turns : turn[h] \in {"send", "run", "stream", "flush", "capture", "kick", "check"}}
At(h, s) == turn[h] = s
To(h, s) == turn' = [turn EXCEPT ![h] = s]

(***************************************************************************)
(* A turn begins: get_or_create and try_acquire_session, begin_turn, send. *)
(***************************************************************************)
\* a plausible bug (#314): the tombstone of the last turn is kept
BeginKeepingTombstone(h) ==
  /\ At(h, "new") /\ status # "running"
  /\ live' = TRUE /\ status' = "running"
  /\ entry' = [Entry EXCEPT !.joined = TRUE]
  /\ due' = {}
  /\ To(h, "send")
  /\ UNCHANGED <<interrupt, sending, outcome, held, command, pinned, todos,
                 mishaps, marked, lost, stuck, credit>>

BeginTurn(h) ==
  /\ At(h, "new") /\ status # "running"
  /\ live' = TRUE /\ status' = "running"
  /\ entry' = [Entry EXCEPT !.archived = FALSE, !.joined = TRUE]
  /\ due' = {}
  /\ To(h, "send")
  /\ UNCHANGED <<interrupt, sending, outcome, held, command, pinned, todos,
                 mishaps, marked, lost, stuck, credit>>

Send(h) ==
  /\ At(h, "send")
  /\ IF live
     THEN sending' = sending \cup {h} /\ To(h, "run") /\ UNCHANGED status
     ELSE /\ To(h, "done") /\ UNCHANGED sending
          /\ status' = IF status = "absent" THEN status ELSE "error"
  /\ UNCHANGED <<entry, live, interrupt, outcome, held, command, pinned, todos,
                 mishaps, due, marked, lost, stuck, credit>>

\* The worker ends the turn: its result, or the end of the process.
WorkerEndsTurn(h, o) ==
  /\ h \in sending
  /\ o = "aborted" => interrupt
  /\ sending' = sending \ {h}
  /\ outcome' = [outcome EXCEPT ![h] = o]
  /\ interrupt' = (interrupt /\ o # "aborted")
  /\ UNCHANGED <<entry, status, live, turn, held, command, pinned, todos, mishaps,
                 due, marked, lost, stuck, credit>>

(***************************************************************************)
(* The todo tracker: try_acquire, update or flush, release.                *)
(***************************************************************************)
MayTake(p) == IF p = Background THEN live ELSE turn[p] \in {"stream", "flush", "fastTodo"}

TakeTodo(p) ==
  /\ MayTake(p) /\ held[p] = Empty
  /\ entry.there /\ entry.slot # Out
  /\ held' = [held EXCEPT ![p] = Here(entry.slot.msg)]
  /\ entry' = [entry EXCEPT !.slot = Out]
  /\ UNCHANGED <<status, live, interrupt, turn, sending, outcome, command, pinned,
                 todos, mishaps, due, marked, lost, stuck, credit>>

\* update: the first list is posted and pinned
PostTodo(p) ==
  /\ held[p] = Here(0) /\ todos < MaxTodos
  /\ todos' = todos + 1
  /\ pinned' = pinned \cup {todos'}
  /\ held' = [held EXCEPT ![p] = Here(todos')]
  /\ UNCHANGED <<entry, status, live, interrupt, turn, sending, outcome, command,
                 mishaps, due, marked, lost, stuck, credit>>

\* cleanup of a tracker: the id is forgotten first, then the message unpinned and
\* deleted; a request that fails is logged, and nobody tries again
Removes(m) ==
  \/ pinned' = pinned \ {m} /\ UNCHANGED <<stuck, mishaps>>
  \/ /\ m \in pinned /\ mishaps < MaxMishaps /\ mishaps' = mishaps + 1
     /\ stuck' = stuck \cup {m}
     /\ UNCHANGED pinned

\* update with an empty list cleans up; an edit answered 404 finds the message gone
TodoGone(p) ==
  /\ held[p].kind = "here" /\ held[p].msg # 0
  /\ Removes(held[p].msg)
  /\ held' = [held EXCEPT ![p] = Here(0)]
  /\ UNCHANGED <<entry, status, live, interrupt, turn, sending, outcome, command,
                 todos, due, marked, lost, credit>>

\* a plausible bug: a tracker whose session is gone is dropped, not cleaned up
ReleaseOrDrop(p) ==
  /\ held[p].kind = "here"
  /\ held' = [held EXCEPT ![p] = Empty]
  /\ entry' = OnEntry([entry EXCEPT !.slot = IF entry.archived THEN Empty ELSE held[p]])
  /\ pinned' = IF entry.archived THEN pinned \ {held[p].msg} ELSE pinned
  /\ lost' = lost \cup ({entry.slot.msg} \ {0})
  /\ UNCHANGED <<status, live, interrupt, turn, sending, outcome, command, todos,
                 mishaps, due, marked, stuck, credit>>

\* put back into a living entry, cleaned up when the entry is archived or gone;
\* either way whatever the slot holds by then is dropped
ReleaseTodo(p) ==
  /\ held[p].kind = "here"
  /\ held' = [held EXCEPT ![p] = Empty]
  /\ lost' = lost \cup ({entry.slot.msg} \ {0})
  /\ IF entry.there /\ ~entry.archived
     THEN /\ entry' = [entry EXCEPT !.slot = held[p]]
          /\ UNCHANGED <<pinned, stuck, mishaps>>
     ELSE /\ entry' = OnEntry([entry EXCEPT !.slot = Empty])
          /\ Removes(held[p].msg)
  /\ UNCHANGED <<status, live, interrupt, turn, sending, outcome, command, todos,
                 due, marked, credit>>

(***************************************************************************)
(* process_turn_events.                                                    *)
(***************************************************************************)
\* 500 ms pass without an end of the turn
Streams(h) ==
  /\ At(h, "run") /\ To(h, "stream")
  /\ UNCHANGED <<entry, status, live, interrupt, sending, outcome, held, command,
                 pinned, todos, mishaps, due, marked, lost, stuck, credit>>

\* last_tool_name is written to entry().or_default(): it may revive an entry
ShowsTool(h) ==
  /\ At(h, "stream") /\ held[h] = Empty /\ ~entry.there
  /\ entry' = NewEntry
  /\ UNCHANGED <<status, live, interrupt, turn, sending, outcome, held, command,
                 pinned, todos, mishaps, due, marked, lost, stuck, credit>>

LastEvent(h) ==
  /\ h \notin sending /\ held[h] = Empty
  /\ \/ At(h, "run") /\ To(h, "capture")
     \/ At(h, "stream") /\ To(h, "flush")
     \/ At(h, "flush") /\ To(h, "capture")
  /\ UNCHANGED <<entry, status, live, interrupt, sending, outcome, held, command,
                 pinned, todos, mishaps, due, marked, lost, stuck, credit>>

\* the skills of the Init event go to entry().or_default() as well
Captures(h) ==
  /\ At(h, "capture")
  /\ entry' \in {entry, Entry}
  /\ To(h, "kick")
  /\ UNCHANGED <<status, live, interrupt, sending, outcome, held, command, pinned,
                 todos, mishaps, due, marked, lost, stuck, credit>>

\* a plausible bug: a turn that ended by itself leaves the flag of /kick set
KeepsKick(h) ==
  /\ At(h, "kick") /\ To(h, "check")
  /\ credit' = IF outcome[h] # "aborted" THEN 0 ELSE credit
  /\ UNCHANGED <<entry, status, live, interrupt, sending, outcome, held, command,
                 pinned, todos, mishaps, due, marked, lost, stuck>>

CancelsKick(h) ==
  /\ At(h, "kick") /\ To(h, "check")
  /\ entry' = OnEntry([entry EXCEPT !.kick = entry.kick /\ outcome[h] = "aborted"])
  /\ credit' = IF outcome[h] # "aborted" THEN 0 ELSE credit
  /\ UNCHANGED <<status, live, interrupt, sending, outcome, held, command, pinned,
                 todos, mishaps, due, marked, lost, stuck>>

\* the tombstone is consumed, and the entry removed with the tracker in its slot
EndsSilently(h) ==
  /\ At(h, "check") /\ entry.archived
  /\ entry' = NoEntry
  /\ lost' = lost \cup ({entry.slot.msg} \ {0})
  /\ due' = {}
  /\ To(h, "silent")
  /\ UNCHANGED <<status, live, interrupt, sending, outcome, held, command, pinned,
                 todos, mishaps, marked, stuck, credit>>

\* the status is written and the summary posted; its buttons are recorded in
\* entry().or_default()
Reports(h) ==
  /\ At(h, "check") /\ ~entry.archived
  /\ status' = CASE status = "absent" -> "absent"
                 [] outcome[h] \in {"ok", "aborted"} -> "idle"
                 [] OTHER -> "error"
  /\ entry' \in {entry, Entry}
  /\ turn' \in {[turn EXCEPT ![h] = s] : s \in {"fastTodo", "done"}}
  /\ outcome' = [outcome EXCEPT ![h] = "failed"]       \* of no use any more
  /\ UNCHANGED <<live, interrupt, sending, held, command, pinned, todos,
                 mishaps, due, marked, lost, stuck, credit>>

\* a plausible bug: the handler returns with the tracker checked out
FastTodoForgets(h) ==
  /\ At(h, "fastTodo") /\ To(h, "done")
  /\ UNCHANGED <<entry, status, live, interrupt, sending, outcome, held, command,
                 pinned, todos, mishaps, due, marked, lost, stuck, credit>>

FastTodoDone(h) ==
  /\ At(h, "fastTodo") /\ held[h] = Empty /\ To(h, "done")
  /\ UNCHANGED <<entry, status, live, interrupt, sending, outcome, held, command,
                 pinned, todos, mishaps, due, marked, lost, stuck, credit>>

(***************************************************************************)
(* /kick: register, interrupt, poll the row, start a turn of its own.      *)
(***************************************************************************)
RegisterKick(h) ==
  /\ At(h, "new") /\ live /\ sending # {}
  /\ entry' = [Entry EXCEPT !.kick = TRUE]
  /\ credit' = credit + 1
  /\ To(h, "interrupt")
  /\ UNCHANGED <<status, live, interrupt, sending, outcome, held, command, pinned,
                 todos, mishaps, due, marked, lost, stuck>>

SendInterrupt(h) ==
  /\ At(h, "interrupt")
  /\ IF live /\ ~interrupt
     THEN interrupt' = TRUE /\ To(h, "cooldown") /\ UNCHANGED entry
     ELSE /\ entry' = OnEntry([entry EXCEPT !.kick = FALSE])
          /\ To(h, "done") /\ UNCHANGED interrupt
  /\ UNCHANGED <<status, live, sending, outcome, held, command, pinned, todos,
                 mishaps, due, marked, lost, stuck, credit>>

\* the cooldown goes to entry().or_default(); a confirmation that cannot be
\* posted ends the command with its flag still set
RecordCooldown(h) ==
  /\ At(h, "cooldown")
  /\ entry' = Entry
  /\ \/ To(h, "poll") /\ UNCHANGED mishaps
     \/ mishaps < MaxMishaps /\ mishaps' = mishaps + 1 /\ To(h, "done")
  /\ UNCHANGED <<status, live, interrupt, sending, outcome, held, command, pinned,
                 todos, due, marked, lost, stuck, credit>>

\* mem::replace of kick_pending, then the error case
TakeKick(h) ==
  /\ At(h, "poll") /\ status \in {"idle", "error"}
  /\ entry' = OnEntry([entry EXCEPT !.kick = FALSE])
  /\ To(h, IF entry.kick /\ status = "idle" THEN "acquire" ELSE "done")
  /\ credit' = IF entry.kick THEN credit - 1 ELSE credit
  /\ UNCHANGED <<status, live, interrupt, sending, outcome, held, command, pinned,
                 todos, mishaps, due, marked, lost, stuck>>

\* the row is gone, or 25 polls found the turn running
StopPolling(h) ==
  /\ At(h, "poll")
  /\ entry' = IF status = "absent" THEN entry ELSE OnEntry([entry EXCEPT !.kick = FALSE])
  /\ To(h, "done")
  /\ UNCHANGED <<status, live, interrupt, sending, outcome, held, command, pinned,
                 todos, mishaps, due, marked, lost, stuck, credit>>

\* no begin_turn here: a tombstone that is set stays for the kick's turn
KickAcquires(h) ==
  /\ At(h, "acquire")
  /\ IF status \in {"running", "absent"}
     THEN To(h, "done") /\ UNCHANGED <<status, entry, marked>>
     ELSE /\ status' = "running" /\ To(h, "send")
          /\ entry' = [Entry EXCEPT !.joined = TRUE]
          /\ marked' = IF entry.archived THEN marked \cup {h} ELSE marked
  /\ UNCHANGED <<live, interrupt, sending, outcome, held, command, pinned, todos,
                 mishaps, due, lost, stuck, credit>>

(***************************************************************************)
(* /clear, /sleep, the closed thread, and a kill without cleanup.          *)
(***************************************************************************)
Mark == due' = Running /\ marked' = marked \cup Running

StartCommand(c, kind) ==
  /\ command[c].pc = "none"
  /\ CASE kind = "clear" -> /\ status # "absent"
                            /\ entry' = [Entry EXCEPT !.archived = TRUE]
                            /\ Mark
       [] kind = "sleep" -> /\ status # "absent" /\ sending = {}
                            /\ UNCHANGED <<entry, due, marked>>
       [] kind = "closed" -> /\ live
                             /\ entry' = [entry EXCEPT !.archived = entry.archived \/ entry.joined]
                             /\ IF entry.joined THEN Mark ELSE UNCHANGED <<due, marked>>
  /\ command' = [command EXCEPT ![c] = [kind |-> kind, pc |-> "kill", msg |-> 0]]
  /\ UNCHANGED <<status, live, interrupt, turn, sending, outcome, held, pinned,
                 todos, mishaps, lost, stuck, credit>>

\* kill_session aborts the worker, wherever it is: a tracker that a background
\* turn had checked out is dropped
Kill ==
  /\ live' = FALSE /\ interrupt' = FALSE /\ sending' = {}
  /\ held' = [held EXCEPT ![Background] = Empty]
  /\ lost' = lost \cup ({held[Background].msg} \ {0})

CommandKills(c) ==
  /\ command[c].pc = "kill"
  /\ Kill
  /\ command' = [command EXCEPT ![c].pc = IF command[c].kind = "clear" THEN "cleanup" ELSE "row"]
  /\ UNCHANGED <<entry, status, turn, outcome, pinned, todos, mishaps, due, marked, stuck,
                 credit>>

CommandWritesRow(c) ==
  /\ command[c].pc = "row"
  /\ status' = CASE status = "absent" \/ command[c].kind = "clear" -> "absent"
                 [] command[c].kind = "sleep" -> "idle"
                 [] OTHER -> "archived"
  /\ command' = [command EXCEPT ![c].pc = IF command[c].kind = "clear" THEN "done" ELSE "cleanup"]
  /\ UNCHANGED <<entry, live, interrupt, turn, sending, outcome, held, pinned, todos,
                 mishaps, due, marked, lost, stuck, credit>>

\* a plausible bug: the cleanup removes the tombstone with the entry
CleanupForgetsTombstone(c) ==
  /\ command[c].pc = "cleanup"
  /\ entry' = NoEntry
  /\ command' = [command EXCEPT ![c].pc = "unpin", ![c].msg = entry.slot.msg]
  /\ UNCHANGED <<status, live, interrupt, turn, sending, outcome, held, pinned, todos,
                 mishaps, due, marked, lost, stuck, credit>>

\* cleanup_session_state: takes a tracker that is present; keeps the tombstone
Cleanup(c) ==
  /\ command[c].pc = "cleanup"
  /\ entry' = IF entry.archived THEN [NewEntry EXCEPT !.archived = TRUE] ELSE NoEntry
  /\ command' = [command EXCEPT ![c].pc = "unpin", ![c].msg = entry.slot.msg]
  /\ UNCHANGED <<status, live, interrupt, turn, sending, outcome, held, pinned, todos,
                 mishaps, due, marked, lost, stuck, credit>>

CleanupUnpins(c) ==
  /\ command[c].pc = "unpin"
  /\ Removes(command[c].msg)
  /\ command' = [command EXCEPT ![c].pc = IF command[c].kind = "clear" THEN "row" ELSE "done",
                                ![c].msg = 0]
  /\ UNCHANGED <<entry, status, live, interrupt, turn, sending, outcome, held, todos,
                 due, marked, lost, credit>>

\* /model and the restart for new settings kill and clean nothing up
KillSilently ==
  /\ live /\ mishaps < MaxMishaps /\ mishaps' = mishaps + 1
  /\ Kill
  /\ UNCHANGED <<entry, status, turn, outcome, command, pinned, todos, due, marked, stuck, credit>>

TurnStep(h) ==
  \/ Send(h) \/ (\E o \in {"ok", "aborted", "failed"} : WorkerEndsTurn(h, o))
  \/ Streams(h) \/ LastEvent(h) \/ Captures(h) \/ CancelsKick(h)
  \/ EndsSilently(h) \/ Reports(h) \/ FastTodoDone(h)
  \/ SendInterrupt(h) \/ RecordCooldown(h) \/ TakeKick(h) \/ StopPolling(h) \/ KickAcquires(h)

OutputNext ==
  \/ \E h \in Turns : BeginTurn(h) \/ TurnStep(h) \/ ShowsTool(h) \/ RegisterKick(h)
  \/ \E p \in Paths : TakeTodo(p) \/ PostTodo(p) \/ TodoGone(p) \/ ReleaseTodo(p)
  \/ \E c \in Commands :
       \/ \E kind \in {"clear", "sleep", "closed"} : StartCommand(c, kind)
       \/ CommandKills(c) \/ CommandWritesRow(c) \/ Cleanup(c) \/ CleanupUnpins(c)
  \/ KillSilently

OutputSpec == OutputInit /\ [][OutputNext]_outputVars

--------------------------------------------------------------------------------
Slots == {Empty, Out} \cup {Here(m) : m \in 0 .. MaxTodos}

\* Type correctness of the state of a thread's output; a handler has the tracker
\* checked out only where it gives it back.
OutputTypeOK ==
  /\ entry \in [there : BOOLEAN, archived : BOOLEAN, joined : BOOLEAN, kick : BOOLEAN, slot : Slots]
  /\ status \in {"absent", "idle", "running", "error", "archived"}
  /\ live \in BOOLEAN /\ interrupt \in BOOLEAN
  /\ turn \in [Turns -> {"new", "send", "run", "stream", "flush", "capture", "kick", "check",
                         "fastTodo", "interrupt", "cooldown", "poll", "acquire", "silent", "done"}]
  /\ sending \subseteq Turns
  /\ outcome \in [Turns -> {"ok", "aborted", "failed"}]
  /\ held \in [Paths -> Slots]
  /\ command \in [Commands -> [kind : {"none", "clear", "sleep", "closed"},
                               pc : {"none", "kill", "row", "cleanup", "unpin", "done"},
                               msg : 0 .. MaxTodos]]
  /\ pinned \subseteq 1 .. MaxTodos /\ todos \in 0 .. MaxTodos
  /\ mishaps \in 0 .. MaxMishaps
  /\ due \subseteq Turns /\ marked \subseteq Turns
  /\ lost \subseteq 1 .. MaxTodos /\ stuck \subseteq 1 .. MaxTodos /\ credit \in Int
  /\ \A h \in Turns : held[h] # Empty => turn[h] \in {"stream", "flush", "fastTodo"}

\* A turn that /clear or the closing of the thread caught says nothing more,
\* whatever cleanups run before its handler notices, unless a new turn of the
\* thread began first or another turn consumed the tombstone.
ClearedTurnsAreSilent ==
  [][\A h \in Turns : turn[h] = "check" /\ turn'[h] \in {"fastTodo", "done"} => h \notin due]_outputVars

\* A turn of a message is never swallowed by the tombstone of an earlier one
\* (#314); a turn of /kick may be, as it does not clear the tombstone.
NewTurnsSpeak == \A h \in Turns : turn[h] = "silent" => h \in marked

\* While the bot runs, every todo message on Discord can still be edited or removed by
\* somebody: it is in the slot, checked out, or taken by a cleanup (todo_tracker.rs,
\* SessionState).  The exceptions: those lost when a kill aborted a background turn,
\* when the tombstone's turn removed the entry, or when a tracker came back to a slot
\* that a second one was in by then; and those whose removal failed (stuck).
TodosHaveOwners ==
  \A m \in pinned \ (lost \cup stuck) :
    \/ entry.slot.msg = m
    \/ \E p \in Paths : held[p].msg = m
    \/ \E c \in Commands : command[c].msg = m

\* A registered kick starts at most one turn, and none once a turn has ended by
\* itself after the registration.
KicksAreSpentOnce == credit >= 0
================================================================================
