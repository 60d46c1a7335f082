----------------------------- MODULE ClaudeCli -----------------------------
(***************************************************************************)
(* The Claude Code process at the other end of a session's pipes: code     *)
(* outside the repository, modelled from what the worker writes to its     *)
(* stdin and reads from its stdout (src/src/subprocess/worker).  It is     *)
(* deliberately loose, so that what holds with it holds with the real one: *)
(*   - it takes stdin lines in order, whenever it likes, or never;         *)
(*   - a user line read during a turn joins that turn, one read between    *)
(*     turns starts a turn;                                                *)
(*   - it asks for permissions only in a turn, and a turn ends with one    *)
(*     result once nothing it asked is unanswered;                         *)
(*   - an interrupt aborts the turn with a result and forgets its requests;*)
(*   - a background task that completes is announced, and between turns    *)
(*     the announcement starts a turn that answers no message;             *)
(*   - it may exit at any moment.                                          *)
(***************************************************************************)
EXTENDS Naturals, Sequences, FiniteSets

CONSTANTS Msgs,       \* the messages users send to the thread
          Requests,   \* identities of permission requests (control_request)
          MaxOut,     \* bound: unread stdout lines
          MaxNotices, \* bound: announcements of completed background tasks
          NoMsg       \* the absence of a message

ASSUME CliAssumption ==
    /\ IsFiniteSet(Requests)
    /\ NoMsg \notin Msgs
    /\ MaxOut \in Nat
    /\ MaxNotices \in Nat

VARIABLES alive,   \* the process runs
          inbox,   \* lines on its stdin
          stdout,  \* lines the worker has not read
          busy,    \* a turn is running
          serving, \* the messages the running turn answers
          waiting, \* requests it asked and waits for
          asked,   \* requests it ever asked
          notices  \* announcements so far

cliVars == <<alive, inbox, stdout, busy, serving, waiting, asked, notices>>

\* A line: its kind and the messages or the request it is about.
Line(kind, of) == [kind |-> kind, of |-> of]

Lines ==
    [kind : {"result"}, of : SUBSET Msgs] \cup [kind : {"request", "notice"}, of : SUBSET Requests]

Inputs ==
    [kind : {"user"}, of : SUBSET Msgs] \cup [kind : {"interrupt", "answer"}, of : SUBSET Requests]

CliInit ==
    /\ alive = FALSE
    /\ inbox = <<>>
    /\ stdout = <<>>
    /\ busy = FALSE
    /\ serving = {}
    /\ waiting = {}
    /\ asked = {}
    /\ notices = 0

\* A new process with empty pipes; request identities stay unique.
CliSpawn ==
    /\ alive' = TRUE
    /\ inbox' = <<>>
    /\ stdout' = <<>>
    /\ busy' = FALSE
    /\ serving' = {}
    /\ waiting' = {}
    /\ UNCHANGED <<asked, notices>>

\* kill(): the pipes go with the session that owned them.
CliKill ==
    /\ alive' = FALSE
    /\ inbox' = <<>>
    /\ stdout' = <<>>
    /\ busy' = FALSE
    /\ serving' = {}
    /\ waiting' = {}
    /\ UNCHANGED <<asked, notices>>

CanPrint == alive /\ Len(stdout) < MaxOut

ReadUser ==
    /\ alive /\ inbox # <<>> /\ Head(inbox).kind = "user"
    /\ inbox' = Tail(inbox)
    /\ busy' = TRUE
    /\ serving' = serving \cup Head(inbox).of
    /\ UNCHANGED <<alive, stdout, waiting, asked, notices>>

ReadAnswer ==
    /\ alive /\ inbox # <<>> /\ Head(inbox).kind = "answer"
    /\ inbox' = Tail(inbox)
    /\ waiting' = waiting \ Head(inbox).of
    /\ UNCHANGED <<alive, stdout, busy, serving, asked, notices>>

ReadInterrupt ==
    /\ CanPrint /\ inbox # <<>> /\ Head(inbox).kind = "interrupt"
    /\ inbox' = Tail(inbox)
    /\ stdout' = IF busy THEN Append(stdout, Line("result", serving)) ELSE stdout
    /\ busy' = FALSE
    /\ serving' = {}
    /\ waiting' = {}
    /\ UNCHANGED <<alive, asked, notices>>

Ask(c) ==
    /\ CanPrint /\ busy
    /\ c \notin asked
    /\ asked' = asked \cup {c}
    /\ waiting' = waiting \cup {c}
    /\ stdout' = Append(stdout, Line("request", {c}))
    /\ UNCHANGED <<alive, inbox, busy, serving, notices>>

FinishTurn ==
    /\ CanPrint /\ busy
    /\ waiting = {}
    /\ stdout' = Append(stdout, Line("result", serving))
    /\ busy' = FALSE
    /\ serving' = {}
    /\ UNCHANGED <<alive, inbox, waiting, asked, notices>>

Announce ==
    /\ CanPrint
    /\ notices < MaxNotices
    /\ notices' = notices + 1
    /\ stdout' = Append(stdout, Line("notice", {}))
    /\ busy' = TRUE
    /\ UNCHANGED <<alive, inbox, serving, waiting, asked>>

\* What it printed before it exits can still be read.
Exit ==
    /\ alive
    /\ alive' = FALSE
    /\ busy' = FALSE
    /\ serving' = {}
    /\ waiting' = {}
    /\ inbox' = <<>>
    /\ UNCHANGED <<stdout, asked, notices>>

CliStep ==
    \/ ReadUser \/ ReadAnswer \/ ReadInterrupt
    \/ FinishTurn \/ Announce \/ Exit
    \/ \E c \in Requests : Ask(c)

CliTypeOK ==
    /\ alive \in BOOLEAN
    /\ inbox \in Seq(Inputs)
    /\ stdout \in Seq(Lines)
    /\ busy \in BOOLEAN
    /\ serving \subseteq Msgs
    /\ asked \subseteq Requests
    /\ waiting \subseteq asked
    /\ notices \in Nat
=============================================================================
