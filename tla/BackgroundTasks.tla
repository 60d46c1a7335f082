---------------------------- MODULE BackgroundTasks ----------------------------
(***************************************************************************)
(* The background tasks of one session: which ones Claude runs, what its   *)
(* lines about them do to the worker's tracker and to has_bg_tasks, and    *)
(* the session manager, which takes a session without an active turn for   *)
(* idle unless that flag is set.                                           *)
(*                                                                         *)
(* Each select loop reads the lines in its own way: between turns and in   *)
(* an active turn they are counted, a background turn tracks a start       *)
(* without storing the flag and drops an end, and a permission wait hands  *)
(* both on, uncounted, to a turn that only shows them.                     *)
(***************************************************************************)
EXTENDS Naturals, Sequences

CONSTANTS TaskIds,  \* task_id, a new one for each task
          MaxTurns  \* bound: turns and permission waits

ASSUME TasksAssumption == MaxTurns \in Nat

VARIABLES loop,     \* the worker's loop: "between", "active", "background", "gone"
          asking,   \* wait_for_permissions runs inside that loop
          running,  \* the tasks Claude runs
          started,  \* the tasks it ever started
          output,   \* its lines about tasks, not yet read
          tracked,  \* the keys of BackgroundTaskTracker
          flag,     \* has_bg_tasks
          chosen,   \* an eviction or the sweep found the session idle
          missed,   \* history: tasks with a line that was not counted, or too late
          turns     \* how many turns and waits began

tasksVars == <<loop, asking, running, started, output, tracked, flag, chosen, missed, turns>>

TasksInit ==
  /\ loop = "between" /\ asking = FALSE
  /\ running = {} /\ started = {} /\ output = <<>>
  /\ tracked = {} /\ flag = FALSE
  /\ chosen = FALSE /\ missed = {} /\ turns = 0
-----------------------------------------------------------------------------
(* Claude. *)

TaskStarts(id) ==
  /\ loop # "gone" /\ id \notin started
  /\ started' = started \cup {id} /\ running' = running \cup {id}
  /\ output' = Append(output, [kind |-> "started", id |-> id])
  /\ UNCHANGED <<loop, asking, tracked, flag, chosen, missed, turns>>

TaskEnds(id) ==
  /\ loop # "gone" /\ id \in running
  /\ running' = running \ {id}
  /\ output' = Append(output, [kind |-> "notification", id |-> id])
  /\ UNCHANGED <<loop, asking, started, tracked, flag, chosen, missed, turns>>
-----------------------------------------------------------------------------
(* The worker. *)

Line1 == Head(output)
Reads1(kind) ==
  /\ loop # "gone" /\ output # <<>> /\ Line1.kind = kind
  /\ output' = Tail(output)

Counts == ~asking /\ loop \in {"between", "active"}
Misses(id) == missed' = missed \cup {id}

\* has_bg_tasks.store(tracker.has_active_tasks())
Track(ids) == tracked' = ids /\ flag' = (ids # {})

\* The session may be chosen already: what is counted now comes too late.
ReadStarted ==
  /\ Counts /\ Reads1("started")
  /\ Track(tracked \cup {Line1.id})
  /\ missed' = IF chosen THEN missed \cup {Line1.id} ELSE missed
  /\ UNCHANGED <<loop, asking, running, started, chosen, turns>>

\* A plausible bug: the end of a task in a turn is tracked, the flag is not stored.
ReadEndedKeepingFlag ==
  /\ Counts /\ Reads1("notification")
  /\ tracked' = tracked \ {Line1.id}
  /\ flag' = IF loop = "between" THEN tracked' # {} ELSE flag
  /\ loop' = IF loop = "between" THEN "background" ELSE loop
  /\ UNCHANGED <<asking, running, started, chosen, missed, turns>>

\* Between turns the end of a task also begins a background turn.
ReadEnded ==
  /\ Counts /\ Reads1("notification")
  /\ Track(tracked \ {Line1.id})
  /\ loop' = IF loop = "between" THEN "background" ELSE loop
  /\ UNCHANGED <<asking, running, started, chosen, missed, turns>>

\* A background turn tracks a start, the flag follows with the next line that is
\* counted; an end is none of the events it knows.
ReadInBackground ==
  /\ loop = "background" /\ ~asking
  /\ \/ Reads1("started") /\ tracked' = tracked \cup {Line1.id}
     \/ Reads1("notification") /\ UNCHANGED tracked
  /\ Misses(Line1.id)
  /\ UNCHANGED <<loop, asking, running, started, flag, chosen, turns>>

\* A permission wait passes the line on, or drains it where no turn listens.
ReadWhileAsking ==
  /\ asking
  /\ Reads1("started") \/ Reads1("notification")
  /\ Misses(Line1.id)
  /\ UNCHANGED <<loop, asking, running, started, tracked, flag, chosen, turns>>

\* Another branch of the select wins while a line is half read.
LoseLine ==
  /\ Reads1("started") \/ Reads1("notification")
  /\ Misses(Line1.id)
  /\ UNCHANGED <<loop, asking, running, started, tracked, flag, chosen, turns>>

\* A message with a sender.
BeginActiveTurn ==
  /\ loop = "between" /\ ~asking /\ turns < MaxTurns
  /\ loop' = "active" /\ turns' = turns + 1
  /\ UNCHANGED <<asking, running, started, output, tracked, flag, chosen, missed>>

\* A result, a timeout, an interrupt: tasks go on across the ends of turns.
EndTurnOf ==
  /\ loop \in {"active", "background"} /\ ~asking
  /\ loop' = "between"
  /\ UNCHANGED <<asking, running, started, output, tracked, flag, chosen, missed, turns>>

BeginAsking ==
  /\ loop # "gone" /\ ~asking /\ turns < MaxTurns
  /\ asking' = TRUE /\ turns' = turns + 1
  /\ UNCHANGED <<loop, running, started, output, tracked, flag, chosen, missed>>

\* All requests are answered, or an interrupt ends the wait with the turn around it.
EndAsking ==
  /\ asking /\ asking' = FALSE
  /\ loop' \in {loop, "between"}
  /\ UNCHANGED <<running, started, output, tracked, flag, chosen, missed, turns>>
-----------------------------------------------------------------------------
(* The session manager: find_evict_target and sweep_idle_sessions. *)

LooksIdle == loop # "active" /\ ~flag

\* Two relaxed loads, and the worker goes on until it is aborted.
ChooseSession ==
  /\ loop # "gone" /\ ~chosen /\ LooksIdle
  /\ chosen' = TRUE
  /\ UNCHANGED <<loop, asking, running, started, output, tracked, flag, missed, turns>>

\* abort and kill: the tasks die with their process.
EndChosen ==
  /\ chosen /\ loop # "gone"
  /\ loop' = "gone" /\ asking' = FALSE
  /\ UNCHANGED <<running, started, output, tracked, flag, chosen, missed, turns>>

TasksNext ==
  \/ \E id \in TaskIds : TaskStarts(id) \/ TaskEnds(id)
  \/ ReadStarted \/ ReadEnded \/ ReadInBackground \/ ReadWhileAsking \/ LoseLine
  \/ BeginActiveTurn \/ EndTurnOf \/ BeginAsking \/ EndAsking
  \/ ChooseSession \/ EndChosen
-----------------------------------------------------------------------------
TaskLines == [kind : {"started", "notification"}, id : TaskIds]

TasksTypeOK ==
  /\ loop \in {"between", "active", "background", "gone"}
  /\ asking \in BOOLEAN /\ flag \in BOOLEAN /\ chosen \in BOOLEAN
  /\ started \subseteq TaskIds /\ running \subseteq started
  /\ tracked \subseteq started /\ missed \subseteq started
  /\ output \in Seq(TaskLines) /\ turns \in Nat

Unread(id) == \E i \in DOMAIN output : output[i].id = id

\* Before and between the lines that were missed, the tracker is right; the flag is
\* set only for a task that is tracked, and clear only if every tracked task was
\* started in a background turn.  So no session is given up under a task of which
\* each line was counted: only under one whose start is unread, missed or too late.
TasksKeepSessions ==
  /\ \A id \in TaskIds : id \notin missed /\ ~Unread(id) => (id \in tracked <=> id \in running)
  /\ flag => tracked # {}
  /\ ~flag => tracked \subseteq missed
  /\ loop = "gone" => \A id \in running : id \in missed \/ Unread(id)
=============================================================================
