---------------------------- MODULE SessionRegistry ----------------------------
(***************************************************************************)
(* The sessions of every thread: the map thread -> SessionInner of the     *)
(* session manager, the child process and the supervised task of each      *)
(* session, the lock of the map, and the number of sessions announced to   *)
(* the presence monitor.  get_or_create evicts the least recently used     *)
(* idle session when the map is full and holds the lock from its first     *)
(* test to the insertion; /sleep, /clear, /model and the settings reload   *)
(* kill one session; the sweep kills idle ones; a worker removes its own   *)
(* session when it ends; a supervisor removes one whose task panicked.     *)
(*                                                                         *)
(* A generation names one SessionInner with its child and its tasks.       *)
(* last_activity is abstracted: any idle session may be the oldest one,    *)
(* any idle sessions may be past the timeout.                              *)
(***************************************************************************)
EXTENDS Naturals, FiniteSets

CONSTANTS SessionThreads, \* the Discord threads
          Callers,      \* the tasks that run a message or a command
          MaxSessions,  \* claude.max_sessions
          MaxSpawns,    \* bound: sessions ever spawned
          MaxCalls,     \* bound: calls of the session manager
          NoCaller      \* the lock is free

ASSUME RegistryAssumption ==
  /\ MaxSessions \in Nat \ {0} /\ MaxSpawns \in Nat /\ MaxCalls \in Nat
  /\ IsFiniteSet(SessionThreads)
  /\ NoCaller \notin Callers \cup Nat /\ \A c \in Callers : c \notin Nat

Gens == 1 .. MaxSpawns
NoGen == 0

VARIABLES sessions,    \* thread -> its session's generation, NoGen when absent
          alive,       \* the generations whose child process runs
          busy,        \* the generations with is_turn_active or has_active_bg_tasks
          task,        \* generation -> what its worker and supervisor are doing
          left,        \* generation -> the count a panic's cleanup has still to send
          holder,      \* who holds the lock of the map across an await
          call,        \* caller -> what it is doing
          sweep,       \* the generations the sweep took out and has still to kill
          announced,   \* session_count
          spawned,     \* how many generations exist
          calls,       \* how many calls were made
          drifted      \* a session ended by itself: its removal is not announced in order

registryVars == <<sessions, alive, busy, task, left, holder, call, sweep,
                  announced, spawned, calls, drifted>>

NoCall == [pc |-> "none", gen |-> NoGen, thread |-> NoGen]

RegistryInit ==
  /\ sessions = [t \in SessionThreads |-> NoGen]
  /\ alive = {} /\ busy = {}
  /\ task = [g \in Gens |-> "none"]
  /\ left = [g \in Gens |-> 0]
  /\ holder = NoCaller
  /\ call = [c \in Callers |-> NoCall]
  /\ sweep = {} /\ announced = 0 /\ spawned = 0 /\ calls = 0
  /\ drifted = FALSE

Entries(map) == {t \in SessionThreads : map[t] # NoGen}
Size(map) == Cardinality(Entries(map))
Without(gone) == [t \in SessionThreads |-> IF sessions[t] \in gone THEN NoGen ELSE sessions[t]]
Idle == {t \in Entries(sessions) : sessions[t] \notin busy}
LockFree == holder = NoCaller

\* JoinHandle::abort: the supervisor is dropped with its two tasks, unless the
\* panic's cleanup is already past its last await.
Abort(gone) ==
  task' = [g \in Gens |->
             IF g \in gone /\ task[g] \in {"watching", "panicked", "exiting"}
             THEN "ended" ELSE task[g]]

Announce(map) == announced' = Size(map)

(***************************************************************************)
(* get_or_create.                                                          *)
(***************************************************************************)
\* a plausible bug: the limit tested after the insertion it should prevent
FullPastLimit == Size(sessions) > MaxSessions
Full == Size(sessions) >= MaxSessions

Start(c) == call[c].pc = "none" /\ LockFree /\ calls < MaxCalls /\ calls' = calls + 1

FindExisting(c, t) ==
  /\ Start(c) /\ sessions[t] # NoGen
  /\ UNCHANGED <<sessions, alive, busy, task, left, holder, call, sweep,
                 announced, spawned, drifted>>

AllBusy(c, t) ==
  /\ Start(c) /\ sessions[t] = NoGen /\ Full /\ Idle = {}
  /\ UNCHANGED <<sessions, alive, busy, task, left, holder, call, sweep,
                 announced, spawned, drifted>>

\* a plausible bug: the child of the evicted session is dropped, not killed
EvictWithoutKill(c, t) ==
  /\ Start(c) /\ sessions[t] = NoGen /\ Full
  /\ \E v \in Idle :
       /\ sessions' = Without({sessions[v]})
       /\ Abort({sessions[v]}) /\ Announce(sessions')
       /\ busy' = busy \ {sessions[v]}
       /\ holder' = c
       /\ call' = [call EXCEPT ![c] = [pc |-> "spawn", gen |-> NoGen, thread |-> t]]
  /\ UNCHANGED <<alive, left, sweep, spawned, drifted>>

Evict(c, t) ==
  /\ Start(c) /\ sessions[t] = NoGen /\ Full
  /\ \E v \in Idle :
       /\ sessions' = Without({sessions[v]})
       /\ Abort({sessions[v]}) /\ Announce(sessions')
       /\ busy' = busy \ {sessions[v]}
       /\ holder' = c
       /\ call' = [call EXCEPT ![c] = [pc |-> "evict", gen |-> sessions[v], thread |-> t]]
  /\ UNCHANGED <<alive, left, sweep, spawned, drifted>>

HasSlot(c, t) ==
  /\ Start(c) /\ sessions[t] = NoGen /\ ~Full
  /\ holder' = c
  /\ call' = [call EXCEPT ![c] = [pc |-> "spawn", gen |-> NoGen, thread |-> t]]
  /\ UNCHANGED <<sessions, alive, busy, task, left, sweep, announced, spawned, drifted>>

\* kill_with_timeout inside get_or_create, with the lock held
EvictedDies(c) ==
  /\ call[c].pc = "evict"
  /\ alive' = alive \ {call[c].gen}
  /\ call' = [call EXCEPT ![c].pc = "spawn"]
  /\ UNCHANGED <<sessions, busy, task, left, holder, sweep, announced, spawned,
                 calls, drifted>>

Spawn(c) ==
  /\ call[c].pc = "spawn" /\ spawned < MaxSpawns
  /\ spawned' = spawned + 1
  /\ alive' = alive \cup {spawned'}
  /\ sessions' = [sessions EXCEPT ![call[c].thread] = spawned']
  /\ task' = [task EXCEPT ![spawned'] = "watching"]
  /\ Announce(sessions')
  /\ holder' = NoCaller
  /\ call' = [call EXCEPT ![c] = NoCall]
  /\ UNCHANGED <<busy, left, sweep, calls, drifted>>

\* cmd.spawn fails: the error hides that a session was evicted
SpawnFails(c) ==
  /\ call[c].pc = "spawn"
  /\ holder' = NoCaller
  /\ call' = [call EXCEPT ![c] = NoCall]
  /\ UNCHANGED <<sessions, alive, busy, task, left, sweep, announced, spawned,
                 calls, drifted>>

(***************************************************************************)
(* kill_session and the sweep: both release the lock before they kill.     *)
(***************************************************************************)
\* a plausible bug: the count is sent before the session is removed
KillAnnouncesFirst(c, t) ==
  /\ Start(c) /\ sessions[t] # NoGen
  /\ Announce(sessions)
  /\ sessions' = [sessions EXCEPT ![t] = NoGen]
  /\ Abort({sessions[t]})
  /\ busy' = busy \ {sessions[t]}
  /\ call' = [call EXCEPT ![c] = [pc |-> "kill", gen |-> sessions[t], thread |-> t]]
  /\ UNCHANGED <<alive, left, holder, sweep, spawned, drifted>>

KillSession(c, t) ==
  /\ Start(c) /\ sessions[t] # NoGen
  /\ sessions' = [sessions EXCEPT ![t] = NoGen]
  /\ Abort({sessions[t]})
  /\ busy' = busy \ {sessions[t]}
  /\ Announce(sessions')
  /\ call' = [call EXCEPT ![c] = [pc |-> "kill", gen |-> sessions[t], thread |-> t]]
  /\ UNCHANGED <<alive, left, holder, sweep, spawned, drifted>>

KilledDies(c) ==
  /\ call[c].pc = "kill"
  /\ alive' = alive \ {call[c].gen}
  /\ call' = [call EXCEPT ![c] = NoCall]
  /\ UNCHANGED <<sessions, busy, task, left, holder, sweep, announced, spawned,
                 calls, drifted>>

SweepIdle ==
  /\ LockFree /\ sweep = {} /\ calls < MaxCalls
  /\ \E gone \in SUBSET {sessions[t] : t \in Idle} :
       /\ gone # {}
       /\ sessions' = Without(gone)
       /\ Abort(gone)
       /\ sweep' = gone
  /\ Announce(sessions')
  /\ calls' = calls + 1
  /\ UNCHANGED <<alive, busy, left, holder, call, spawned, drifted>>

SweptDies(g) ==
  /\ g \in sweep
  /\ alive' = alive \ {g} /\ sweep' = sweep \ {g}
  /\ UNCHANGED <<sessions, busy, task, left, holder, call, announced, spawned,
                 calls, drifted>>

(***************************************************************************)
(* The worker and its supervisor.                                          *)
(***************************************************************************)
BeginWork(g) ==
  /\ task[g] = "watching" /\ g \notin busy
  /\ busy' = busy \cup {g}
  /\ UNCHANGED <<sessions, alive, task, left, holder, call, sweep, announced,
                 spawned, calls, drifted>>

EndWork(g) ==
  /\ task[g] = "watching" /\ g \in busy
  /\ busy' = busy \ {g}
  /\ UNCHANGED <<sessions, alive, task, left, holder, call, sweep, announced,
                 spawned, calls, drifted>>

\* Claude closes its output, or a write to it fails: the worker leaves its loop
WorkerEnds(g) ==
  /\ task[g] = "watching"
  /\ task' = [task EXCEPT ![g] = "exiting"]
  /\ busy' = busy \ {g}
  /\ UNCHANGED <<sessions, alive, left, holder, call, sweep, announced, spawned,
                 calls, drifted>>

\* sessions.lock().await.remove: by thread, and the guard lives to the end of
\* the if, so the lock is held while the child is killed.
ExitRemoves(g, t) ==
  /\ task[g] = "exiting" /\ LockFree /\ sessions[t] = g
  /\ sessions' = [sessions EXCEPT ![t] = NoGen]
  /\ holder' = g
  /\ task' = [task EXCEPT ![g] = "killing"]
  /\ drifted' = TRUE
  /\ UNCHANGED <<alive, busy, left, call, sweep, announced, spawned, calls>>

ExitKills(g) ==
  /\ task[g] = "killing" /\ holder = g
  /\ alive' = alive \ {g}
  /\ holder' = NoCaller
  /\ task' = [task EXCEPT ![g] = "ended"]
  /\ UNCHANGED <<sessions, busy, left, call, sweep, announced, spawned, calls, drifted>>

Panic(g) ==
  /\ task[g] \in {"watching", "exiting"}
  /\ task' = [task EXCEPT ![g] = "panicked"]
  /\ UNCHANGED <<sessions, alive, busy, left, holder, call, sweep, announced,
                 spawned, calls, drifted>>

\* a plausible bug: a panic ends the supervisor like a normal end of the task
PanicIgnored(g) ==
  /\ task[g] = "panicked" /\ LockFree
  /\ task' = [task EXCEPT ![g] = "ended"]
  /\ busy' = busy \ {g}
  /\ UNCHANGED <<sessions, alive, left, holder, call, sweep, announced, spawned,
                 calls, drifted>>

\* trigger_cleanup_core: the count is computed under the lock and sent after it.
\* An aborted supervisor never comes here: its session was removed before.
CleanupCore(g) ==
  /\ task[g] = "panicked" /\ LockFree
  /\ sessions' = Without({g})
  /\ left' = [left EXCEPT ![g] = Size(sessions')]
  /\ task' = [task EXCEPT ![g] = "cleaning"]
  /\ busy' = busy \ {g}
  /\ drifted' = TRUE
  /\ UNCHANGED <<alive, holder, call, sweep, announced, spawned, calls>>

CleanupAnnounces(g) ==
  /\ task[g] = "cleaning"
  /\ announced' = left[g]
  /\ left' = [left EXCEPT ![g] = 0]
  /\ task' = [task EXCEPT ![g] = "reaping"]
  /\ UNCHANGED <<sessions, alive, busy, holder, call, sweep, spawned, calls, drifted>>

CleanupKills(g) ==
  /\ task[g] = "reaping"
  /\ alive' = alive \ {g}
  /\ task' = [task EXCEPT ![g] = "ended"]
  /\ UNCHANGED <<sessions, busy, left, holder, call, sweep, announced, spawned,
                 calls, drifted>>

CallerStep(c) == EvictedDies(c) \/ Spawn(c) \/ SpawnFails(c) \/ KilledDies(c)

SupervisorStep(g) ==
  \/ \E t \in SessionThreads : ExitRemoves(g, t)
  \/ ExitKills(g)
  \/ CleanupCore(g) \/ CleanupAnnounces(g) \/ CleanupKills(g)

RegistryNext ==
  \/ \E c \in Callers, t \in SessionThreads :
       \/ FindExisting(c, t) \/ AllBusy(c, t) \/ Evict(c, t) \/ HasSlot(c, t)
       \/ KillSession(c, t)
  \/ \E c \in Callers : CallerStep(c)
  \/ SweepIdle
  \/ \E g \in Gens : SweptDies(g) \/ BeginWork(g) \/ EndWork(g) \/ WorkerEnds(g) \/ Panic(g)
  \/ \E g \in Gens : SupervisorStep(g)

RegistrySpec == RegistryInit /\ [][RegistryNext]_registryVars

--------------------------------------------------------------------------------
\* Type correctness of the registry.
RegistryTypeOK ==
  /\ sessions \in [SessionThreads -> Gens \cup {NoGen}]
  /\ alive \subseteq Gens /\ busy \subseteq Gens /\ sweep \subseteq Gens
  /\ task \in [Gens -> {"none", "watching", "exiting", "killing", "panicked",
                        "cleaning", "reaping", "ended"}]
  /\ left \in [Gens -> Nat]
  /\ holder \in Callers \cup Gens \cup {NoCaller}
  /\ call \in [Callers -> [pc : {"none", "evict", "spawn", "kill"},
                           gen : Gens \cup {NoGen}, thread : SessionThreads \cup {NoGen}]]
  /\ announced \in Nat /\ spawned \in 0 .. MaxSpawns /\ calls \in 0 .. MaxCalls
  /\ drifted \in BOOLEAN

\* The map never holds more than max_sessions entries: the test, the eviction
\* and the insertion of get_or_create are one critical section, although the
\* child is killed and the new one spawned in between.
NeverOverLimit == Size(sessions) <= MaxSessions

\* No Claude process is forgotten: each one that runs belongs to a session of
\* the map or to somebody who has taken it out and is about to kill it.
NoStrayProcess ==
  \A g \in alive :
    \/ \E t \in SessionThreads : sessions[t] = g
    \/ \E c \in Callers : call[c].pc \in {"evict", "kill"} /\ call[c].gen = g
    \/ g \in sweep
    \/ task[g] \in {"killing", "cleaning", "reaping"}

\* Whenever the lock is free, the announced number is the size of the map, as
\* long as no session ended by itself (neither the exit of a worker nor the
\* cleanup of a panic announces the removal in order).
PresenceCounts == LockFree /\ ~drifted => announced = Size(sessions)

\* A session whose worker ended or panicked leaves the map, whoever removes it:
\* again and again every session of the map has a worker that runs.
DeadSessionsLeave ==
  []<>(\A t \in Entries(sessions) : task[sessions[t]] = "watching")
================================================================================
