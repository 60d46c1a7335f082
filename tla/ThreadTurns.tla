---------------------------- MODULE ThreadTurns ----------------------------
(***************************************************************************)
(* One Discord thread: the handlers of its messages (handle_message and    *)
(* process_turn_events), the session manager's part in a dispatch          *)
(* (send_message, try_recall, interrupt_session, kill_session), /stop,     *)
(* /recall and /sleep, and the session's worker with its Claude process.   *)
(*                                                                         *)
(* A dispatch holds the thread's dispatch lock (DispatchLocks) from Open   *)
(* to the end of send_message: opened, acquired, counting.  sessions.status*)
(* in the database decides between a primary message, whose handler awaits *)
(* the turn on an event channel, and a mid-turn inject.                    *)
(***************************************************************************)
EXTENDS SessionWorker

CONSTANTS MaxSpawns, \* bound: sessions spawned for the thread
          MaxStops,  \* bound: /stop commands that reach the session
          MaxKills,  \* bound: kill_session calls from outside the worker
          MaxReloads \* bound: rules saved by Always Allow

VARIABLES stage,    \* stage[m]: new, opened, reloading, respawning, acquired,
                    \* counting, waiting, done
          primary,  \* messages whose try_acquire_session succeeded
          owed,     \* a killer of the session has yet to write the status
          reload,   \* the thread is in pending_session_restart
          stranded, \* history: a step left the status running with no one to reset it
          spawns, stops, kills, reloads \* counters of the bounds

bounds == <<spawns, stops, kills, reloads>>
handlerVars == <<stage, primary, owed, reload, stranded, bounds>>
vars == <<cliVars, workerVars, handlerVars>>

Init ==
    /\ CliInit
    /\ WorkerInit
    /\ stage = [m \in Msgs |-> "new"]
    /\ primary = {}
    /\ owed = FALSE
    /\ reload = FALSE
    /\ stranded = FALSE
    /\ spawns = 0
    /\ stops = 0
    /\ kills = 0
    /\ reloads = 0

Dispatching ==
    {m \in Msgs : stage[m] \in {"opened", "reloading", "respawning", "acquired", "counting"}}

\* send_message holds the sessions lock across its two steps.
SessionsFree == \A m \in Msgs : stage[m] # "counting"

Move(m, to) == stage' = [stage EXCEPT ![m] = to]
-----------------------------------------------------------------------------
\* Mutation: a dispatch that does not wait for the thread's lock.
OpenUnlocked(m) ==
    /\ stage[m] = "new"
    /\ mode # "none"
    /\ Move(m, "opened")
    /\ UNCHANGED <<cliVars, workerVars, primary, owed, reload, stranded, bounds>>

\* The dispatch lock is taken and get_or_create finds the session ...
OpenExisting(m) ==
    /\ stage[m] = "new" /\ Dispatching = {}
    /\ mode # "none"
    /\ Move(m, "opened")
    /\ UNCHANGED <<cliVars, workerVars, primary, owed, reload, stranded, bounds>>

\* ... or spawns one ...
OpenSpawning(m) ==
    /\ stage[m] = "new" /\ Dispatching = {}
    /\ mode = "none"
    /\ spawns < MaxSpawns
    /\ spawns' = spawns + 1
    /\ mode' = "between"
    /\ CliSpawn
    /\ Move(m, "opened")
    /\ UNCHANGED <<hand, pending, turnOf, nudged, queueVars, interrupt, recallVars,
                   events, db, history, primary, owed, reload, stranded, stops, kills,
                   reloads>>

\* ... or fails, and the user is told.
OpenFails(m) ==
    /\ stage[m] = "new" /\ Dispatching = {}
    /\ mode = "none"
    /\ Move(m, "done")
    /\ UNCHANGED <<cliVars, workerVars, primary, owed, reload, stranded, bounds>>

\* /skill, /agent, a button or the task of /kick takes the lock and dispatches
\* without looking whether the thread has a session.
OpenDirect(m) ==
    /\ stage[m] = "new" /\ Dispatching = {}
    /\ Move(m, "opened")
    /\ UNCHANGED <<cliVars, workerVars, primary, owed, reload, stranded, bounds>>

\* try_acquire_session: the first to turn the status to running is primary.  Of
\* a pending restart nothing follows for an inject, in a direct dispatch, or when
\* the thread has no Claude session to resume (then it is dropped).
Acquire(m) ==
    /\ stage[m] = "opened"
    /\ db' = "running"
    /\ primary' = IF db = "running" THEN primary ELSE primary \cup {m}
    /\ reload' \in IF db = "running" THEN {reload} ELSE {reload, FALSE}
    /\ Move(m, "acquired")
    /\ UNCHANGED <<cliVars, loopVars, queueVars, interrupt, recallVars, events,
                   history, owed, stranded, bounds>>

\* A primary message takes a pending restart on ...
AcquireToReload(m) ==
    /\ stage[m] = "opened"
    /\ db # "running" /\ reload
    /\ db' = "running"
    /\ primary' = primary \cup {m}
    /\ reload' = FALSE
    /\ Move(m, "reloading")
    /\ UNCHANGED <<cliVars, loopVars, queueVars, interrupt, recallVars, events,
                   history, owed, stranded, bounds>>

\* kill_session: without a session it only reports so; the worker is aborted
\* wherever it is.
KillSession ==
    /\ SessionsFree
    /\ EndSession
    /\ recalls' = IF mode = "none" THEN recalls ELSE {}
    /\ UNCHANGED <<cancelled, db, history>>

\* ... kills the session ...
ReloadKill(m) ==
    /\ stage[m] = "reloading"
    /\ KillSession
    /\ Move(m, "respawning")
    /\ UNCHANGED <<primary, owed, reload, stranded, bounds>>

\* ... and spawns it again, with the new settings ...
Respawn(m) ==
    /\ stage[m] = "respawning"
    /\ mode = "none"
    /\ spawns < MaxSpawns
    /\ spawns' = spawns + 1
    /\ mode' = "between"
    /\ CliSpawn
    /\ Move(m, "acquired")
    /\ UNCHANGED <<hand, pending, turnOf, nudged, queueVars, interrupt, recallVars,
                   events, db, history, primary, owed, reload, stranded, stops, kills,
                   reloads>>

\* ... or fails to, and returns without writing the status back.
RespawnFails(m) ==
    /\ stage[m] = "respawning"
    /\ mode = "none"
    /\ stranded' = TRUE
    /\ Move(m, "done")
    /\ UNCHANGED <<cliVars, workerVars, primary, owed, reload, bounds>>

\* The check of send_message.
HasRoom == qsize < QueueCap

\* send_message up to try_send: the recall entry first, then the queue.
Enqueue(m) ==
    /\ stage[m] = "acquired"
    /\ mode # "none" /\ HasRoom /\ ~closed
    /\ recalls' = recalls \cup {m}
    /\ queue' = Append(queue, m)
    /\ events' = IF m \in primary THEN [events EXCEPT ![m] = "open"] ELSE events
    /\ Move(m, "counting")
    /\ UNCHANGED <<cliVars, loopVars, closed, qsize, interrupt, cancelled, db,
                   history, primary, owed, reload, stranded, bounds>>

\* No session, a full queue or a closed one.  A primary message gives the
\* status back as an error.
EnqueueFails(m) ==
    /\ stage[m] = "acquired"
    /\ mode = "none" \/ ~HasRoom \/ closed
    /\ db' = IF m \in primary THEN "idle" ELSE db
    /\ Move(m, "done")
    /\ UNCHANGED <<cliVars, loopVars, queueVars, interrupt, recallVars, events,
                   history, primary, owed, reload, stranded, bounds>>

\* Then queue_size.fetch_add; both locks are released.
Count(m) ==
    /\ stage[m] = "counting"
    /\ qsize' = Up(qsize)
    /\ Move(m, IF m \in primary THEN "waiting" ELSE "done")
    /\ UNCHANGED <<cliVars, loopVars, queue, closed, interrupt, recallVars, events,
                   db, history, primary, owed, reload, stranded, bounds>>

\* Mutation: a handler whose sender was dropped leaves the status alone.
FinishOnResult(m) ==
    /\ stage[m] = "waiting"
    /\ events[m] \in {"result", "closed"}
    /\ db' = IF events[m] = "result" THEN "idle" ELSE db
    /\ Move(m, "done")
    /\ UNCHANGED <<cliVars, loopVars, queueVars, interrupt, recallVars, events,
                   history, primary, owed, reload, stranded, bounds>>

\* process_turn_events ends with a result or a dropped sender and writes the
\* status, idle or error.
Finish(m) ==
    /\ stage[m] = "waiting"
    /\ events[m] \in {"result", "closed"}
    /\ db' = "idle"
    /\ Move(m, "done")
    /\ UNCHANGED <<cliVars, loopVars, queueVars, interrupt, recallVars, events,
                   history, primary, owed, reload, stranded, bounds>>
-----------------------------------------------------------------------------
\* /recall: try_recall removes the entry and sets the flag under one lock.  It
\* looked for the session before, which may be gone by now.
Recall(m) ==
    /\ m \in recalls
    /\ recalls' = recalls \ {m}
    /\ cancelled' = cancelled \cup {m}
    /\ UNCHANGED <<cliVars, loopVars, queueVars, interrupt, events, db, history,
                   handlerVars>>

\* /stop and /kick: interrupt_session, refused when one is already queued.
Stop ==
    /\ mode # "none" /\ SessionsFree
    /\ ~interrupt
    /\ stops < MaxStops
    /\ stops' = stops + 1
    /\ interrupt' = TRUE
    /\ UNCHANGED <<cliVars, loopVars, queueVars, recallVars, events, db, history,
                   stage, primary, owed, reload, stranded, spawns, kills, reloads>>

\* kill_session by /sleep, the idle sweep or an eviction, which write the status
\* afterwards.  /sleep looks for an active turn before and not at the kill, so it
\* may end a turn begun since, and it writes the status even without a session.
Kill ==
    /\ kills < MaxKills
    /\ kills' = kills + 1
    /\ KillSession
    /\ owed' = TRUE
    /\ UNCHANGED <<stage, primary, reload, stranded, spawns, stops, reloads>>

\* kill_session by /model, or an eviction for a session that then fails to spawn:
\* neither writes the status.  Both look only for an active turn.
KillSilently ==
    /\ kills < MaxKills
    /\ kills' = kills + 1
    /\ KillSession
    /\ stranded' = (stranded \/ mode \in {"bg", "bgdone"})
    /\ UNCHANGED <<stage, primary, owed, reload, spawns, stops, reloads>>

\* The killer writes the status after the process is dead.
KillStatus ==
    /\ owed
    /\ owed' = FALSE
    /\ db' = "idle"
    /\ UNCHANGED <<cliVars, loopVars, queueVars, interrupt, recallVars, events,
                   history, stage, primary, reload, stranded, bounds>>

\* A click on Always Allow of some prompt saved a rule.
AllowAlways ==
    /\ asked # {}
    /\ reloads < MaxReloads
    /\ reloads' = reloads + 1
    /\ reload' = TRUE
    /\ UNCHANGED <<cliVars, workerVars, stage, primary, owed, stranded, spawns, stops, kills>>
-----------------------------------------------------------------------------
Handler(m) ==
    \/ OpenExisting(m) \/ OpenSpawning(m) \/ OpenFails(m) \/ OpenDirect(m)
    \/ Acquire(m) \/ AcquireToReload(m) \/ ReloadKill(m) \/ Respawn(m) \/ RespawnFails(m)
    \/ Enqueue(m) \/ EnqueueFails(m) \/ Count(m) \/ Finish(m)

Worker == WorkerStep \/ (SessionsFree /\ WorkerExit)

\* The timeout of a permission prompt; nobody answers a question for the user.
PromptTimeout == \E c \in pending \ Questions : Resolve(c)

Next ==
    \/ \E m \in Msgs : Handler(m) \/ Recall(m)
    \/ Worker /\ UNCHANGED handlerVars
    \/ (\E c \in pending : Resolve(c)) /\ UNCHANGED handlerVars
    \/ CliStep /\ UNCHANGED <<workerVars, handlerVars>>
    \/ Stop \/ Kill \/ KillSilently \/ KillStatus \/ AllowAlways

Spec == Init /\ [][Next]_vars

\* Tasks run on: a handler past Open, the worker, its timeouts and the timeout
\* of a prompt.  Nothing is assumed of the Claude process or of the users.
FairSpec ==
    /\ Spec
    /\ WF_vars(Worker /\ UNCHANGED handlerVars)
    /\ WF_vars(PromptTimeout /\ UNCHANGED handlerVars)
    /\ WF_vars(KillStatus)
    /\ \A m \in Msgs : WF_vars(Enqueue(m) \/ EnqueueFails(m) \/ Count(m) \/ Finish(m))
-----------------------------------------------------------------------------
TypeOK ==
    /\ CliTypeOK
    /\ WorkerTypeOK
    /\ stage \in [Msgs -> {"new", "opened", "reloading", "respawning", "acquired",
                            "counting", "waiting", "done"}]
    /\ primary \subseteq Msgs
    /\ owed \in BOOLEAN
    /\ reload \in BOOLEAN
    /\ stranded \in BOOLEAN

\* The dispatch lock: one message of the thread is being dispatched.
OneDispatch == \A m, n \in Dispatching : m = n

\* A thread without a session has nothing queued and nobody in send_message.
NoSessionIsEmpty ==
    mode = "none" => queue = <<>> /\ hand = NoMsg /\ qsize = 0 /\ SessionsFree

\* What is queued, held by the worker or delivered has passed try_send.
SentBeforeTaken ==
    \A m \in Msgs : m \in Queued \cup {hand} \cup delivered
                     => stage[m] \in {"counting", "waiting", "done"}

Load == Len(queue) + (IF hand = NoMsg THEN 0 ELSE 1)

\* queue_size counts what is queued or in the worker's hand whenever a sender
\* may look at it; it wraps below zero only while send_message is between
\* try_send and fetch_add, and the limit it enforces keeps the channel from
\* ever being full.
QueueAccounting ==
    /\ Load <= QueueCap
    /\ mode # "none" => qsize = IF SessionsFree THEN Load ELSE Down(Load)

\* A message whose recall was confirmed never reaches the process, and one that
\* reached it can no longer be recalled.
RecallIsFinal == cancelled \cap delivered = {} /\ recalls \cap delivered = {}

\* Request c is on its way to the worker, pending there, or answered on stdin.
InSight(c) ==
    \/ c \in pending
    \/ \E i \in 1..Len(stdout) : stdout[i] = Line("request", {c})
    \/ \E i \in 1..Len(inbox) : inbox[i] = Line("answer", {c})

\* A living process never waits for a request the worker forgot: interrupted,
\* broken off and ended waits answer what they leave, and only a request whose
\* line was torn can be missing.
NoOrphanRequest == \A c \in waiting : InSight(c) \/ Line("request", {c}) \in lost

\* Someone will write the status back: the handler of a primary message, a
\* background turn or a killer.
Owner ==
    \/ \E m \in primary :
          stage[m] \in {"reloading", "respawning", "acquired", "counting", "waiting"}
    \/ mode \in {"bg", "bgdone"}
    \/ owed

\* A status of running always has an owner, unless a respawn failed or a silent
\* kill ended a background turn.  Without an owner every later message of the
\* thread is injected and none is answered.
StatusOwned == db = "running" => Owner \/ stranded

\* A restart for new settings is in the hands of a primary message, whose
\* handler owns the status.
ReloadersArePrimary ==
    \A m \in Msgs : stage[m] \in {"reloading", "respawning"} => m \in primary

\* The inductive invariant.
TurnInv ==
    /\ TypeOK /\ OneDispatch /\ NoSessionIsEmpty /\ SentBeforeTaken
    /\ ReloadersArePrimary /\ QueueAccounting /\ RecallIsFinal /\ StatusOwned

\* The line as the authors see it: the message in the worker's hand is its first.
WaitingLine == IF hand = NoMsg THEN queue ELSE <<hand>> \o queue

Promised == INSTANCE ThreadQueue WITH Capacity <- QueueCap, line <- WaitingLine,
                                      withdrawn <- cancelled, answer <- events

\* The handlers, the recalls, the queue with its two counters and the worker are one
\* first-in first-out line (ThreadQueue): a message is delivered at most once, in its
\* turn and never after its recall, and its handler is answered after that or let go
\* in the step that loses it (send_message, try_recall, run).
TurnsAreOneQueue == Promised!Spec

\* The handler of a primary message gets its result or learns that the turn is
\* over, unless a question is waiting for the user.
HandlerReleased ==
    \A m \in Msgs : (stage[m] = "waiting") ~> (stage[m] = "done" \/ pending \cap Questions # {})

\* A message written into an active turn carries no event sender, so that its
\* answer goes to the turn's own handler.
ActiveInjectHasNoSender ==
    [][(mode = "active" /\ hand # NoMsg /\ delivered' # delivered)
       => events[hand] = "none"]_vars

\* A result that answers a message is never drained between turns.
AnswersReachTheThread ==
    [][(mode = "between" /\ stdout # <<>> /\ Head(stdout).kind = "result"
        /\ Head(stdout).of # {} /\ stdout' = Tail(stdout))
       => events' # events]_vars

\* An interrupt consumed in an active turn is written to the process.
StopReachesClaude ==
    [][(mode = "active" /\ alive /\ interrupt /\ ~interrupt')
       => inbox' = Append(inbox, Line("interrupt", {}))]_vars

\* A status of running always has an owner.
RunningHasOwner == db = "running" => Owner

\* Every permission request the process waits for is in sight.
PromptsSurface == \A c \in waiting : InSight(c)
=============================================================================
