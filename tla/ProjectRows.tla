----------------------------- MODULE ProjectRows -----------------------------
(***************************************************************************)
(* The database of one channel across commands, messages and restarts      *)
(* (db/repository.rs): the project row of /register, /unregister and       *)
(* /new_project (commands/register.rs), the session row and the process of *)
(* each of its threads, with its background turns and whoever ends it, and *)
(* the default scope of Always Allow (commands/permissions.rs), which is   *)
(* cached in memory.                                                       *)
(*                                                                         *)
(* A statement is one step; the keys of both tables are enforced by it.    *)
(* Statements succeed, but for the load of the scope at boot.  Every       *)
(* status but running is idle here: only running is asked for.             *)
(***************************************************************************)
EXTENDS Naturals, FiniteSets

CONSTANTS RowThreads,   \* threads of the channel
          RowMessages,  \* messages of users
          RowCommands,  \* slash commands
          Directories,  \* project directories
          MaxCrashes    \* bound: crashes of the bot

ASSUME RowsAssumption ==
  /\ MaxCrashes \in Nat /\ Directories # {} /\ {"none", "no channel"} \cap Directories = {}

VARIABLES project,   \* the channel's directory, "none", or "no channel"
          rows,      \* status of each thread's session row, or "none"
          procs,     \* directory of each thread's live process, or "none"
          work,      \* what its worker does: a "turn" (is_turn_active), "bg", or "none"
          swept,     \* threads whose session somebody ended who writes the status next
          msg,       \* each message: [at, thread, path, primary]
          cmd,       \* each command: [at, arg, list]
          scope,     \* default scope: [db, cache]
          up, crashes

\* History: threads whose message was handled while an /unregister was under way,
\* threads whose running status a step left to nobody, and whether the cache of the
\* scope may have missed a write.
VARIABLES late, stranded, missed

sessionVars == <<procs, work, swept, stranded>>
rowsVars == <<project, rows, sessionVars, msg, cmd, scope, up, crashes, late, missed>>

Registered == project \in Directories
Handling(m) == msg[m].at \notin {"new", "done"}
\* A message that may yet insert a row or spawn a process.
Coming(m) == msg[m].at \in {"row", "insert", "open", "acquire", "reload", "respawn"}
Unregistering == \E c \in RowCommands : cmd[c].at \in {"kill", "rows", "project"}

Unread == [at |-> "new", thread |-> "none", path |-> "none", primary |-> FALSE]
Unissued == [at |-> "new", arg |-> "none", list |-> {}]

RowsInit ==
  /\ project \in {"no channel", "none", CHOOSE d \in Directories : TRUE}
  /\ rows = [t \in RowThreads |-> "none"]
  /\ procs = [t \in RowThreads |-> "none"] /\ work = [t \in RowThreads |-> "none"]
  /\ swept = {} /\ stranded = {}
  /\ msg = [m \in RowMessages |-> Unread]
  /\ cmd = [c \in RowCommands |-> Unissued]
  /\ scope = [db |-> "project", cache |-> "project"]
  /\ up = TRUE /\ crashes = 0 /\ late = {} /\ missed = FALSE

\* What a handler or a command that is over knew does not matter any more.
MessageTo(m, step) ==
  msg' = [msg EXCEPT ![m] = IF step = "done" THEN [Unread EXCEPT !.at = "done"]
                            ELSE [@ EXCEPT !.at = step]]
CommandTo(c, step) ==
  cmd' = [cmd EXCEPT ![c] = IF step = "done" THEN [Unissued EXCEPT !.at = "done"]
                            ELSE [@ EXCEPT !.at = step]]

\* update_session_status: a row that is gone takes no status.
SetStatus(t, s) ==
  /\ rows' = IF rows[t] # "none" THEN [rows EXCEPT ![t] = s] ELSE rows
  /\ stranded' = stranded \ {t}

\* The session leaves the map with its process, and its worker is aborted.
EndProcess(t) ==
  /\ procs' = [procs EXCEPT ![t] = "none"]
  /\ work' = [work EXCEPT ![t] = "none"]

\* The running status of a background turn that ends with its process has no owner.
Orphaned(t) == IF work[t] = "bg" /\ rows[t] = "running" THEN {t} ELSE {}
-----------------------------------------------------------------------------
(* handle_message *)

\* A message in a thread of the channel; without a project it is ignored.
ReadProject(m, t) ==
  /\ up /\ msg[m].at = "new" /\ Registered
  /\ msg' = [msg EXCEPT ![m] = [at |-> "row", thread |-> t, path |-> project, primary |-> FALSE]]
  /\ late' = IF Unregistering THEN late \cup {t} ELSE late
  /\ UNCHANGED <<project, rows, sessionVars, cmd, scope, up, crashes, missed>>

ReadRow(m) ==
  /\ msg[m].at = "row"
  /\ MessageTo(m, IF rows[msg[m].thread] = "none" THEN "insert" ELSE "open")
  /\ UNCHANGED <<project, rows, sessionVars, cmd, scope, up, crashes, late, missed>>

\* create_session fails on a row of another message or without a project.
InsertRow(m) ==
  LET t == msg[m].thread
  IN /\ msg[m].at = "insert"
     /\ IF rows[t] = "none" /\ Registered
        THEN rows' = [rows EXCEPT ![t] = "idle"] /\ MessageTo(m, "open")
        ELSE UNCHANGED rows /\ MessageTo(m, "done")
     /\ UNCHANGED <<project, sessionVars, cmd, scope, up, crashes, late, missed>>

\* get_or_create: a process that is there, or a new one in the directory that was
\* read; or none, and the message is given up.
GetOrCreate(m, spawned, step) ==
  LET t == msg[m].thread
  IN IF procs[t] # "none" \/ spawned
     THEN /\ procs' = [procs EXCEPT ![t] = IF @ = "none" THEN msg[m].path ELSE @]
          /\ MessageTo(m, step)
     ELSE UNCHANGED procs /\ MessageTo(m, "done")

\* The dispatch lock, held until the message is sent.
Open(m, spawned) ==
  /\ msg[m].at = "open"
  /\ \A n \in RowMessages : msg[n].thread = msg[m].thread =>
       msg[n].at \notin {"acquire", "reload", "respawn", "send"}
  /\ GetOrCreate(m, spawned, "acquire")
  /\ UNCHANGED <<project, rows, work, swept, stranded, cmd, scope, up, crashes, late, missed>>

\* try_acquire_session changes a row that is there and not running.  A primary message
\* restarts its session when an Always Allow asked for it.
TryAcquire(m, step) ==
  LET t == msg[m].thread  acquired == rows[t] = "idle"
  IN /\ msg[m].at = "acquire" /\ (step = "reload" => acquired)
     /\ msg' = [msg EXCEPT ![m].at = step, ![m].primary = acquired]
     /\ rows' = IF acquired THEN [rows EXCEPT ![t] = "running"] ELSE rows
     /\ UNCHANGED <<project, sessionVars, cmd, scope, up, crashes, late, missed>>

\* restart_for_settings_reload, whose failure to find a session is ignored.
Reload(m) ==
  /\ msg[m].at = "reload" /\ MessageTo(m, "respawn")
  /\ EndProcess(msg[m].thread)
  /\ UNCHANGED <<project, rows, swept, stranded, cmd, scope, up, crashes, late, missed>>

\* A respawn that fails leaves the status as it is.
Respawn(m, spawned) ==
  LET t == msg[m].thread
  IN /\ msg[m].at = "respawn"
     /\ GetOrCreate(m, spawned, "send")
     /\ stranded' = IF procs'[t] = "none" /\ rows[t] = "running" THEN stranded \cup {t} ELSE stranded
     /\ UNCHANGED <<project, rows, work, swept, cmd, scope, up, crashes, late, missed>>

\* Without a process the message fails, and a primary one gives its status back.
SendMessage(m) ==
  LET t == msg[m].thread  sent == procs[t] # "none"
  IN /\ msg[m].at = "send"
     /\ MessageTo(m, IF sent /\ msg[m].primary THEN "turn" ELSE "done")
     /\ IF ~sent /\ msg[m].primary THEN SetStatus(t, "idle") ELSE UNCHANGED <<rows, stranded>>
     /\ UNCHANGED <<project, procs, work, swept, cmd, scope, up, crashes, late, missed>>

\* The handler's events are over: by a result, with its process, or because its
\* message was injected into another turn.
FinishTurn(m) ==
  /\ msg[m].at = "turn"
  /\ MessageTo(m, "done") /\ SetStatus(msg[m].thread, "idle")
  /\ UNCHANGED <<project, procs, work, swept, cmd, scope, up, crashes, late, missed>>
-----------------------------------------------------------------------------
(* Workers, and those who end their sessions. *)

\* The worker takes a message that was sent, and ends its turn on its own.
WorkerTurn(t) ==
  /\ procs[t] # "none" /\ work[t] = "none"
  /\ \E m \in RowMessages : msg[m].thread = t /\ msg[m].at = "turn"
  /\ work' = [work EXCEPT ![t] = "turn"]
  /\ UNCHANGED <<project, rows, procs, swept, stranded, msg, cmd, scope, up, crashes, late, missed>>
WorkerRests(t) ==
  /\ work[t] = "turn" /\ work' = [work EXCEPT ![t] = "none"]
  /\ UNCHANGED <<project, rows, procs, swept, stranded, msg, cmd, scope, up, crashes, late, missed>>

\* A task's notice begins a background turn, which writes its status itself.
StartBgTurn(t) ==
  /\ procs[t] # "none" /\ work[t] = "none"
  /\ work' = [work EXCEPT ![t] = "bg"] /\ SetStatus(t, "running")
  /\ UNCHANGED <<project, procs, swept, msg, cmd, scope, up, crashes, late, missed>>
EndBgTurn(t) ==
  /\ work[t] = "bg"
  /\ work' = [work EXCEPT ![t] = "none"] /\ SetStatus(t, "idle")
  /\ UNCHANGED <<project, procs, swept, msg, cmd, scope, up, crashes, late, missed>>

\* A session that exits between its turns.
ExitProcess(t) ==
  /\ procs[t] # "none" /\ work[t] # "bg" /\ EndProcess(t)
  /\ UNCHANGED <<project, rows, swept, stranded, msg, cmd, scope, up, crashes, late, missed>>

\* The sweep, an eviction and /sleep end a session without an active turn, the
\* supervisor one that panicked.  Bound: one of them at a time is at a thread.
EndSession(t, panicked) ==
  /\ up /\ procs[t] # "none" /\ (panicked \/ work[t] # "turn") /\ t \notin swept
  /\ EndProcess(t) /\ swept' = swept \cup {t}
  /\ UNCHANGED <<project, rows, stranded, msg, cmd, scope, up, crashes, late, missed>>

\* They write the status afterwards, whoever acquired it meanwhile.
WriteStatus(t) ==
  /\ t \in swept /\ swept' = swept \ {t} /\ SetStatus(t, "idle")
  /\ UNCHANGED <<project, procs, work, msg, cmd, scope, up, crashes, late, missed>>

\* /model, and an eviction whose own spawn fails, write none.
EndSilently(t) ==
  /\ procs[t] # "none" /\ work[t] # "turn" /\ EndProcess(t)
  /\ stranded' = stranded \cup Orphaned(t)
  /\ UNCHANGED <<project, rows, swept, msg, cmd, scope, up, crashes, late, missed>>
-----------------------------------------------------------------------------
(* Commands. *)

Begin(c, arg, step) ==
  /\ up /\ cmd[c].at = "new"
  /\ cmd' = [cmd EXCEPT ![c] = [at |-> step, list |-> {},
                                arg |-> IF step = "done" THEN "none" ELSE arg]]

\* /register answers when a project is there, /unregister when none is.
Register(c, d) ==
  /\ project # "no channel"
  /\ Begin(c, d, IF Registered THEN "done" ELSE "insert")
  /\ UNCHANGED <<project, rows, sessionVars, msg, scope, up, crashes, late, missed>>
Unregister(c) ==
  /\ project # "no channel"
  /\ Begin(c, "none", IF Registered THEN "list" ELSE "done")
  /\ UNCHANGED <<project, rows, sessionVars, msg, scope, up, crashes, late, missed>>

\* /new_project makes the channel and inserts its project without looking.
NewProject(c, d) ==
  /\ project = "no channel" /\ project' = "none"
  /\ Begin(c, d, "insert")
  /\ UNCHANGED <<rows, sessionVars, msg, scope, up, crashes, late, missed>>

\* register_project fails when another command was faster; /new_project then says so
\* and leaves the channel.
InsertProject(c) ==
  /\ cmd[c].at = "insert"
  /\ project' = IF Registered THEN project ELSE cmd[c].arg
  /\ CommandTo(c, "done")
  /\ UNCHANGED <<rows, sessionVars, msg, scope, up, crashes, late, missed>>

\* /unregister lists the sessions once ...
ListSessions(c) ==
  /\ cmd[c].at = "list"
  /\ cmd' = [cmd EXCEPT ![c].at = "kill", ![c].list = {t \in RowThreads : rows[t] # "none"}]
  /\ late' = late \cup {msg[m].thread : m \in {n \in RowMessages : Coming(n)}}
  /\ UNCHANGED <<project, rows, sessionVars, msg, scope, up, crashes, missed>>

\* ... kills each of them ...
KillListed(c, t) ==
  /\ cmd[c].at = "kill" /\ t \in cmd[c].list
  /\ EndProcess(t) /\ stranded' = stranded \cup Orphaned(t)
  /\ cmd' = [cmd EXCEPT ![c].list = @ \ {t}]
  /\ UNCHANGED <<project, rows, swept, msg, scope, up, crashes, late, missed>>

\* ... deletes the rows of the channel, those that came meanwhile too ...
DeleteRows(c) ==
  /\ cmd[c].at = "kill" /\ cmd[c].list = {}
  /\ rows' = [t \in RowThreads |-> "none"] /\ stranded' = {}
  /\ CommandTo(c, "project")
  /\ UNCHANGED <<project, procs, work, swept, msg, scope, up, crashes, late, missed>>

\* ... and the project, unless a session refers to it again.
DeleteProject(c) ==
  /\ cmd[c].at = "project"
  /\ project' = IF Registered /\ \A t \in RowThreads : rows[t] = "none" THEN "none" ELSE project
  /\ CommandTo(c, "done")
  /\ UNCHANGED <<rows, sessionVars, msg, scope, up, crashes, late, missed>>

\* config default-scope: the database first ...
UpsertScope(c, s) ==
  /\ Begin(c, s, "cache")
  /\ scope' = [scope EXCEPT !.db = s]
  /\ missed' = (missed \/ \E other \in RowCommands : cmd[other].at = "cache")
  /\ UNCHANGED <<project, rows, sessionVars, msg, up, crashes, late>>

\* ... then the cache.
CacheScope(c) ==
  /\ cmd[c].at = "cache"
  /\ scope' = [scope EXCEPT !.cache = cmd[c].arg]
  /\ CommandTo(c, "done")
  /\ UNCHANGED <<project, rows, sessionVars, msg, up, crashes, late, missed>>
-----------------------------------------------------------------------------
\* The bot dies with its processes, its handlers and its cache.
CrashBot ==
  /\ up /\ crashes < MaxCrashes
  /\ up' = FALSE /\ crashes' = crashes + 1
  /\ procs' = [t \in RowThreads |-> "none"] /\ work' = [t \in RowThreads |-> "none"]
  /\ swept' = {} /\ stranded' = {}
  /\ msg' = [m \in RowMessages |-> IF Handling(m) THEN [Unread EXCEPT !.at = "done"] ELSE msg[m]]
  /\ cmd' = [c \in RowCommands |-> IF cmd[c].at = "new" THEN cmd[c]
                                   ELSE [Unissued EXCEPT !.at = "done"]]
  /\ scope' = [scope EXCEPT !.cache = "project"]
  /\ UNCHANGED <<project, rows, late, missed>>

LoadScope(loaded) ==
  /\ scope' = IF loaded THEN [scope EXCEPT !.cache = scope.db] ELSE scope
  /\ missed' = ~loaded

\* A plausible bug: the rows a crash left running stay so.
BootKeepingRows(loaded) ==
  /\ ~up /\ up' = TRUE
  /\ UNCHANGED rows
  /\ LoadScope(loaded)
  /\ UNCHANGED <<project, sessionVars, msg, cmd, crashes, late>>

\* Before any event is handled: reset_running_sessions, then the default scope,
\* whose failure is only logged.
BootBot(loaded) ==
  /\ ~up /\ up' = TRUE
  /\ rows' = [t \in RowThreads |-> IF rows[t] = "running" THEN "idle" ELSE rows[t]]
  /\ LoadScope(loaded)
  /\ UNCHANGED <<project, sessionVars, msg, cmd, crashes, late>>

MessageStep(m) ==
  \/ ReadRow(m) \/ InsertRow(m) \/ (\E spawned \in BOOLEAN : Open(m, spawned))
  \/ TryAcquire(m, "send") \/ TryAcquire(m, "reload")
  \/ Reload(m) \/ (\E spawned \in BOOLEAN : Respawn(m, spawned))
  \/ SendMessage(m) \/ FinishTurn(m)

SessionStep(t) ==
  \/ WorkerTurn(t) \/ WorkerRests(t) \/ StartBgTurn(t) \/ EndBgTurn(t) \/ ExitProcess(t)
  \/ (\E panicked \in BOOLEAN : EndSession(t, panicked)) \/ WriteStatus(t) \/ EndSilently(t)

CommandStep(c) ==
  \/ InsertProject(c) \/ ListSessions(c) \/ (\E t \in RowThreads : KillListed(c, t))
  \/ DeleteRows(c) \/ DeleteProject(c) \/ CacheScope(c)

RowsNext ==
  \/ \E m \in RowMessages, t \in RowThreads : ReadProject(m, t)
  \/ \E m \in RowMessages : MessageStep(m)
  \/ \E t \in RowThreads : SessionStep(t)
  \/ \E c \in RowCommands, d \in Directories : Register(c, d) \/ NewProject(c, d)
  \/ \E c \in RowCommands : Unregister(c)
  \/ \E c \in RowCommands, s \in {"project", "global"} : UpsertScope(c, s)
  \/ \E c \in RowCommands : CommandStep(c)
  \/ CrashBot
  \/ \E loaded \in BOOLEAN : BootBot(loaded)

RowsSpec == RowsInit /\ [][RowsNext]_rowsVars
-----------------------------------------------------------------------------
RowsTypeOK ==
  /\ project \in {"none", "no channel"} \cup Directories
  /\ rows \in [RowThreads -> {"none", "idle", "running"}]
  /\ procs \in [RowThreads -> {"none"} \cup Directories]
  /\ work \in [RowThreads -> {"none", "turn", "bg"}]
  /\ swept \subseteq RowThreads /\ stranded \subseteq RowThreads
  /\ scope \in [db : {"project", "global"}, cache : {"project", "global"}]
  /\ crashes \in 0..MaxCrashes

\* A running row has somebody who will write its status back, whatever was
\* unregistered, restarted or ended before: a message that acquired it, a background
\* turn, or whoever ended the session.  Two steps leave it to nobody: a respawn that
\* fails, and a silent end of a background turn.
WritesBack(m, t) ==
  msg[m].thread = t /\ msg[m].primary /\ msg[m].at \in {"reload", "respawn", "send", "turn"}
RunningHasHandler ==
  up => \A t \in RowThreads : rows[t] = "running" =>
          \/ \E m \in RowMessages : WritesBack(m, t)
          \/ work[t] = "bg" \/ t \in swept \/ t \in stranded

\* A process runs in the directory its channel is registered with: it outlives an
\* /unregister only when a message of its thread was on its way meanwhile.
ProcessHasProject ==
  \A t \in RowThreads \ late : procs[t] # "none" => procs[t] = project

\* The scope an Always Allow starts with is the one that was saved, but while a
\* command writes it, after two commands overlapped, and after a failed load.
ScopeIsCached ==
  up /\ ~missed /\ (\A c \in RowCommands : cmd[c].at # "cache") => scope.cache = scope.db

\* The database of a channel agrees with what runs, across commands, messages and
\* restarts.
RowsAgree == RunningHasHandler /\ ProcessHasProject /\ ScopeIsCached
=============================================================================
