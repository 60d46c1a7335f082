--------------------------- MODULE SessionWorker ---------------------------
(***************************************************************************)
(* SessionWorker::run (src/src/subprocess/worker): the task that owns the  *)
(* pipes of one Claude process.  Its loop waits between turns for stdout,  *)
(* an interrupt or a queued message; a message with an event sender starts *)
(* an active turn, an announcement of a background task starts a           *)
(* background turn, and a permission request suspends either of them (or   *)
(* the pause between turns) until every pending request is answered.       *)
(*                                                                         *)
(* A message is taken from the queue in one step and settled in another:   *)
(* between recv() and the recalls lock other tasks run.                    *)
(***************************************************************************)
EXTENDS ClaudeCli

CONSTANTS QueueCap,   \* capacity of the message queue and send_message's limit
          QueueMod,   \* queue_size wraps modulo this (2^64 in the code)
          MaxPending, \* MAX_PENDING_CR
          Questions,  \* the requests of AskUserQuestion, which never time out
          LongLines   \* stdout lines may need more than one read

ASSUME WorkerAssumption ==
    /\ QueueCap \in Nat \ {0}
    /\ QueueMod \in Nat
    /\ QueueMod > QueueCap + 1
    /\ MaxPending \in Nat \ {0}
    /\ Questions \subseteq Requests
    /\ LongLines \in BOOLEAN

VARIABLES mode,      \* none (no session), between, active, bg, bgdone, exiting
          hand,      \* message taken from the queue and not settled
          pending,   \* requests wait_for_permissions waits on; {} outside it
          turnOf,    \* the message whose event sender the active turn holds
          nudged,    \* soft_timeout_fired
          queue,     \* the message channel
          closed,    \* queue_rx.close() was called
          qsize,     \* queue_size
          interrupt, \* the interrupt channel (capacity 1) is full
          recalls,   \* keys of pending_recalls
          cancelled, \* messages whose cancelled flag is set
          events,    \* per message, its handler's event channel
          db,        \* sessions.status; idle stands for every other value
          delivered, \* history: messages written to a stdin
          lost       \* history: stdout lines of which a part was read and dropped

loopVars == <<mode, hand, pending, turnOf, nudged>>
queueVars == <<queue, closed, qsize>>
recallVars == <<recalls, cancelled>>
history == <<delivered, lost>>
workerVars == <<loopVars, queueVars, interrupt, recallVars, events, db, history>>

WorkerInit ==
    /\ mode = "none"
    /\ hand = NoMsg
    /\ pending = {}
    /\ turnOf = NoMsg
    /\ nudged = FALSE
    /\ queue = <<>>
    /\ closed = FALSE
    /\ qsize = 0
    /\ interrupt = FALSE
    /\ recalls = {}
    /\ cancelled = {}
    /\ events = [m \in Msgs |-> "none"]
    /\ db = "idle"
    /\ delivered = {}
    /\ lost = {}

Queued == {queue[i] : i \in 1..Len(queue)}

\* The event senders of the messages in S are dropped.
DropSenders(S) ==
    events' = [m \in Msgs |-> IF m \in S /\ events[m] = "open" THEN "closed" ELSE events[m]]

\* fetch_add and fetch_sub wrap.
Up(n) == IF n = QueueMod - 1 THEN 0 ELSE n + 1
Down(n) == IF n = 0 THEN QueueMod - 1 ELSE n - 1

Write(line) == alive /\ inbox' = Append(inbox, line)

\* What a write leaves alone in the process.
Untouched == UNCHANGED <<alive, stdout, busy, serving, waiting, asked, notices>>

\* read_line is not cancellation safe: when another branch of the select wins, the
\* part of a long line it had read is dropped, and the rest does not parse.
DropRead ==
    \/ UNCHANGED <<stdout, lost>>
    \/ /\ LongLines
       /\ stdout # <<>>
       /\ pending = {} \/ Cardinality(pending) < MaxPending
       /\ stdout' = Tail(stdout)
       /\ lost' = lost \cup {Head(stdout)}

\* The read had to wait: no line is there, or only the front of one.
ReadWaits == alive /\ (stdout = <<>> \/ stdout' # stdout)

\* What dropping a read leaves alone.
SameProcess == UNCHANGED <<alive, busy, serving, waiting, asked, notices, delivered>>

InLoop == mode \in {"between", "active", "bg"} /\ hand = NoMsg
Asking == pending # {}
-----------------------------------------------------------------------------
\* The loops left early: a broken pipe, an interrupted wait, the end of stdout.
\* An active turn drops its sender, a background turn still owes the database
\* its status, and between turns nothing is left.  dropped: a message that goes
\* down with it.
AbandonTurn(dropped) ==
    /\ pending' = {}
    /\ nudged' = FALSE
    /\ mode' = CASE mode = "active" -> "between"
                 [] mode = "bg" -> "bgdone"
                 [] OTHER -> mode
    /\ turnOf' = NoMsg
    /\ DropSenders({turnOf, dropped})
-----------------------------------------------------------------------------
\* queue_rx.recv().  Between turns the select is biased: stdout and interrupts
\* first; in a permission wait an interrupt goes first.
Receive ==
    /\ InLoop
    /\ queue # <<>>
    /\ DropRead /\ SameProcess
    /\ mode = "between" /\ ~Asking => ReadWaits /\ ~interrupt
    /\ Asking => ~interrupt
    /\ hand' = Head(queue)
    /\ queue' = Tail(queue)
    /\ UNCHANGED <<inbox, mode, pending, turnOf, nudged, closed, qsize, interrupt,
                   recallVars, events, db>>

\* Mutation: the entry of pending_recalls outlives the delivery.
UncountOnly ==
    /\ qsize' = Down(qsize)
    /\ hand' = NoMsg
    /\ UNCHANGED recalls

\* queue_size.fetch_sub and pending_recalls.remove.
Uncount ==
    /\ qsize' = Down(qsize)
    /\ recalls' = recalls \ {hand}
    /\ hand' = NoMsg

\* The message was recalled while it was queued.
SkipRecalled ==
    /\ hand # NoMsg
    /\ hand \in cancelled
    /\ Uncount
    /\ DropSenders({hand})
    /\ UNCHANGED <<cliVars, mode, pending, turnOf, nudged, queue, closed,
                   interrupt, cancelled, db, history>>

\* Between turns a message with a sender starts the active turn.
StartTurn ==
    /\ mode = "between" /\ ~Asking
    /\ hand # NoMsg /\ hand \notin cancelled
    /\ events[hand] = "open"
    /\ Uncount
    /\ Write(Line("user", {hand})) /\ Untouched
    /\ delivered' = delivered \cup {hand}
    /\ mode' = "active"
    /\ turnOf' = hand
    /\ UNCHANGED <<pending, nudged, queue, closed, interrupt, cancelled, events, db, lost>>

\* Everywhere else, and without a sender, it is written and nothing more.
Inject ==
    /\ hand # NoMsg /\ hand \notin cancelled
    /\ ~(mode = "between" /\ ~Asking /\ events[hand] = "open")
    /\ Uncount
    /\ Write(Line("user", {hand})) /\ Untouched
    /\ delivered' = delivered \cup {hand}
    /\ DropSenders({hand})
    /\ UNCHANGED <<mode, pending, turnOf, nudged, queue, closed, interrupt,
                   cancelled, db, lost>>

\* The write failed: the process is gone.
SettleBroken ==
    /\ hand # NoMsg /\ hand \notin cancelled
    /\ ~alive
    /\ Uncount
    /\ IF mode = "between" /\ ~Asking
       THEN /\ mode' = "exiting"
            /\ DropSenders({hand})
            /\ UNCHANGED <<pending, turnOf, nudged>>
       ELSE AbandonTurn(hand)
    /\ UNCHANGED <<cliVars, queue, closed, interrupt, cancelled, db, history>>

Settle == SkipRecalled \/ StartTurn \/ Inject \/ SettleBroken
-----------------------------------------------------------------------------
\* An interrupt between turns is stale: it is consumed and dropped.
DropStaleInterrupt ==
    /\ InLoop /\ mode = "between" /\ ~Asking
    /\ interrupt
    /\ DropRead /\ SameProcess /\ ReadWaits
    /\ interrupt' = FALSE
    /\ UNCHANGED <<inbox, loopVars, queueVars, recallVars, events, db>>

\* In a turn it is written to the process; an active turn whose pipe is broken
\* ends, a background turn only logs it.
ForwardInterrupt ==
    /\ InLoop /\ mode # "between" /\ ~Asking
    /\ interrupt
    /\ interrupt' = FALSE
    /\ DropRead /\ SameProcess
    /\ \/ /\ Write(Line("interrupt", {}))
          /\ UNCHANGED <<loopVars, events>>
       \/ /\ ~alive
          /\ UNCHANGED inbox
          /\ IF mode = "active" THEN AbandonTurn(NoMsg) /\ UNCHANGED hand
             ELSE UNCHANGED <<loopVars, events>>
    /\ UNCHANGED <<queueVars, recallVars, db>>

\* Mutation: an interrupted wait leaves without denying what it waited for.
InterruptWithoutDeny ==
    /\ InLoop /\ Asking
    /\ interrupt
    /\ interrupt' = FALSE
    /\ DropRead /\ SameProcess
    /\ UNCHANGED <<inbox, hand, queueVars, recallVars, db>>
    /\ AbandonTurn(NoMsg)

\* In a permission wait it denies every pending request, one line each in the
\* map's arbitrary order, and ends the wait and the turn around it.
InterruptWait ==
    /\ InLoop /\ Asking
    /\ interrupt
    /\ interrupt' = FALSE
    /\ DropRead /\ SameProcess
    /\ IF alive
       THEN \E denial \in [1..Cardinality(pending) -> pending] :
                /\ {denial[i] : i \in DOMAIN denial} = pending
                /\ inbox' = inbox \o [i \in DOMAIN denial |-> Line("answer", {denial[i]})]
       ELSE UNCHANGED inbox
    /\ AbandonTurn(NoMsg)
    /\ UNCHANGED <<hand, queueVars, recallVars, db>>
-----------------------------------------------------------------------------
\* A line is read where the select allows: in a permission wait only when no
\* interrupt and no message is ready and the wait is not full.
Reads(kind) ==
    /\ InLoop
    /\ stdout # <<>> /\ Head(stdout).kind = kind
    /\ Asking => ~interrupt /\ queue = <<>> /\ Cardinality(pending) < MaxPending
    /\ stdout' = Tail(stdout)

\* The result of an active turn goes to the handler and ends the turn.
EndActiveTurn ==
    /\ mode = "active" /\ ~Asking
    /\ Reads("result")
    /\ events' = [events EXCEPT ![turnOf] = "result"]
    /\ mode' = "between"
    /\ turnOf' = NoMsg
    /\ nudged' = FALSE
    /\ UNCHANGED <<alive, inbox, busy, serving, waiting, asked, notices, hand,
                   pending, queueVars, interrupt, recallVars, db, history>>

\* The result of a background turn is posted by the worker itself.
EndBgTurn ==
    /\ mode = "bg" /\ ~Asking
    /\ Reads("result")
    /\ mode' = "bgdone"
    /\ UNCHANGED <<alive, inbox, busy, serving, waiting, asked, notices, hand,
                   pending, turnOf, nudged, queueVars, interrupt, recallVars,
                   events, db, history>>

\* The status follows after the posts to Discord.
BgStatus ==
    /\ mode = "bgdone"
    /\ db' = "idle"
    /\ mode' = "between"
    /\ UNCHANGED <<cliVars, hand, pending, turnOf, nudged, queueVars, interrupt,
                   recallVars, events, history>>

\* Between turns a result is drained.  In a permission wait it is passed on to
\* the turn's handler, or drained without one, and ends nothing.
PassResult ==
    /\ mode = "between" \/ Asking
    /\ Reads("result")
    /\ events' = IF mode = "active" /\ events[turnOf] = "open"
                 THEN [events EXCEPT ![turnOf] = "result"] ELSE events
    /\ UNCHANGED <<alive, inbox, busy, serving, waiting, asked, notices, loopVars,
                   queueVars, interrupt, recallVars, db, history>>

\* A completed background task starts a background turn between turns and is
\* only shown, or ignored, everywhere else.
ReadNotice ==
    /\ Reads("notice")
    /\ IF mode = "between" /\ ~Asking
       THEN mode' = "bg" /\ db' = "running"
       ELSE UNCHANGED <<mode, db>>
    /\ UNCHANGED <<alive, inbox, busy, serving, waiting, asked, notices, hand,
                   pending, turnOf, nudged, queueVars, interrupt, recallVars,
                   events, history>>

\* A request is handed to the permission task, and the wait begins or grows.
Prompt ==
    /\ Reads("request")
    /\ pending' = pending \cup Head(stdout).of
    /\ UNCHANGED <<alive, inbox, busy, serving, waiting, asked, notices, mode, hand,
                   turnOf, nudged, queueVars, interrupt, recallVars, events, db,
                   history>>

\* Or it is answered at once: a tool already allowed, a full permission channel.
AutoAnswer ==
    /\ Reads("request")
    /\ Write(Line("answer", Head(stdout).of))
    /\ UNCHANGED <<alive, busy, serving, waiting, asked, notices, loopVars, queueVars,
                   interrupt, recallVars, events, db, history>>

\* The process exited before the answer was written.
AutoAnswerBroken ==
    /\ Reads("request")
    /\ ~alive
    /\ AbandonTurn(NoMsg)
    /\ UNCHANGED <<alive, inbox, busy, serving, waiting, asked, notices, hand,
                   queueVars, interrupt, recallVars, db, history>>

\* A decision (or the timeout's denial) is written; the last one ends the wait
\* and the turn goes on with a fresh deadline.
Resolve(c) ==
    /\ InLoop
    /\ c \in pending
    /\ ~interrupt /\ queue = <<>>
    /\ DropRead /\ SameProcess
    /\ Cardinality(pending) < MaxPending => ReadWaits
    /\ \/ /\ Write(Line("answer", {c}))
          /\ pending' = pending \ {c}
          /\ UNCHANGED <<mode, turnOf, nudged, events>>
       \/ /\ ~alive
          /\ AbandonTurn(NoMsg)
          /\ UNCHANGED inbox
    /\ UNCHANGED <<hand, queueVars, interrupt, recallVars, db>>
-----------------------------------------------------------------------------
\* The end of stdout.
EndOfOutput ==
    /\ InLoop
    /\ ~alive /\ stdout = <<>>
    /\ Asking => ~interrupt /\ queue = <<>> /\ Cardinality(pending) < MaxPending
    /\ IF Asking \/ mode = "bg"
       THEN /\ AbandonTurn(NoMsg)
            /\ closed' = (closed \/ Asking)
       ELSE /\ mode' = "exiting"
            /\ closed' = (closed \/ mode = "active")
            /\ turnOf' = NoMsg
            /\ nudged' = FALSE
            /\ DropSenders({turnOf})
            /\ UNCHANGED pending
    /\ UNCHANGED <<cliVars, hand, queue, qsize, interrupt, recallVars, db, history>>

\* Silence for timeout_secs: first a nudge is written ...
SoftTimeout ==
    /\ InLoop /\ mode = "active" /\ ~Asking
    /\ ~nudged
    /\ DropRead /\ SameProcess /\ ReadWaits
    /\ Write(Line("user", {}))
    /\ nudged' = TRUE
    /\ UNCHANGED <<mode, hand, pending, turnOf, queueVars, interrupt, recallVars,
                   events, db>>

\* Mutation: the second silence only sets a new deadline.
HardTimeoutRearms ==
    /\ InLoop /\ mode = "active" /\ ~Asking
    /\ nudged
    /\ alive /\ stdout = <<>>
    /\ UNCHANGED <<cliVars, workerVars>>

\* ... then the session is given up.
HardTimeout ==
    /\ InLoop /\ mode = "active" /\ ~Asking
    /\ nudged
    /\ DropRead /\ SameProcess /\ ReadWaits
    /\ closed' = TRUE
    /\ mode' = "exiting"
    /\ turnOf' = NoMsg
    /\ nudged' = FALSE
    /\ DropSenders({turnOf})
    /\ UNCHANGED <<inbox, hand, pending, queue, qsize, interrupt, recallVars, db>>

\* The queue, the pipes and every event sender go with the session.
EndSession ==
    /\ mode' = "none"
    /\ hand' = NoMsg
    /\ pending' = {}
    /\ turnOf' = NoMsg
    /\ nudged' = FALSE
    /\ queue' = <<>>
    /\ closed' = FALSE
    /\ qsize' = 0
    /\ interrupt' = FALSE
    /\ DropSenders(Queued \cup {hand, turnOf})
    /\ CliKill

\* The tail of run(): the session leaves the manager's map, its recalls stay.
WorkerExit ==
    /\ mode = "exiting"
    /\ EndSession
    /\ UNCHANGED <<recallVars, db, history>>

\* What the worker does by itself while it owns a session.
WorkerStep ==
    \/ Receive \/ Settle
    \/ DropStaleInterrupt \/ ForwardInterrupt \/ InterruptWait
    \/ EndActiveTurn \/ EndBgTurn \/ BgStatus \/ PassResult
    \/ ReadNotice \/ Prompt \/ AutoAnswer \/ AutoAnswerBroken
    \/ EndOfOutput \/ SoftTimeout \/ HardTimeout

WorkerTypeOK ==
    /\ mode \in {"none", "between", "active", "bg", "bgdone", "exiting"}
    /\ hand \in Msgs \cup {NoMsg}
    /\ pending \subseteq Requests
    /\ turnOf \in Msgs \cup {NoMsg}
    /\ (turnOf # NoMsg) <=> (mode = "active")
    /\ nudged \in BOOLEAN
    /\ queue \in Seq(Msgs)
    /\ closed \in BOOLEAN
    /\ qsize \in 0..(QueueMod - 1)
    /\ interrupt \in BOOLEAN
    /\ recalls \subseteq Msgs
    /\ cancelled \subseteq Msgs
    /\ events \in [Msgs -> {"none", "open", "result", "closed"}]
    /\ db \in {"idle", "running"}
    /\ delivered \subseteq Msgs
    /\ lost \subseteq Lines
=============================================================================
