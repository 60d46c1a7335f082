--------------------------- MODULE UpdateRecovery ---------------------------
(***************************************************************************)
(* The self-update (commands/update.rs, update/) and the boot that follows  *)
(* it (main.rs, update/marker.rs): one systemd service with one worktree.   *)
(* An /update backs up, builds in place, leaves the marker .update-pending  *)
(* and schedules a restart; a boot that finds the marker restores the       *)
(* backup and restarts again.  The process may die between any two steps.   *)
(*                                                                         *)
(* A version is a number, the binary and its backup are versions, the dump  *)
(* of the database is whole or torn.  Reading the tag, the disk space, git  *)
(* fetch and the sync of skills only pass or fail, so they are one step     *)
(* with their neighbour; systemd and its delayed-restart unit are modelled  *)
(* from systemd/*.service.                                                  *)
(***************************************************************************)
EXTENDS Naturals

CONSTANTS Updaters,     \* invocations of /update
          Versions,     \* release tags, ordered as their numbers
          Broken,       \* the versions that never become ready
          MaxMarkers,   \* bound: markers made in a behaviour
          MaxFaults,    \* bound: failed steps and deaths of the process
          None,         \* no file
          Corrupt       \* a marker that does not parse

LockText == {"empty", "live", "dead"}     \* nothing yet, our PID, an earlier one
LockRecord == [by : Updaters \cup {None}, text : LockText]

ASSUME UpdateAssumption ==
  /\ Versions \subseteq Nat
  /\ Broken \subseteq Versions
  /\ 1 \in Versions \ Broken
  /\ MaxMarkers \in Nat /\ MaxFaults \in Nat
  /\ None # Corrupt /\ None \notin Versions \cup Updaters \cup LockRecord

VARIABLES bin,          \* target/release/pidory
          backup,       \* target/release/pidory.backup
          dump,         \* pidory-backup.sql
          tree,         \* the tag the worktree is reset to
          marker,       \* target/release/.update-pending
          notice,       \* target/release/.update-rolled-back
          lockFile,     \* target/release/.update.lock: its creator (None: left
                        \* behind, nobody will remove it) and its text
          stolen,       \* history: a lock was removed that was not the dead one read
          service,      \* the process: its version and where its main() is
          armed,      \* had_pending_marker: the watchdog is armed
          delayed,      \* pidory-delayed-restart.service is sleeping
          stage,        \* where each /update is
          unready,      \* a boot failed since the last marker was made
          markers, faults

updateVars == <<bin, backup, dump, tree, marker, notice, lockFile, stolen, service, armed,
                delayed, stage, unready, markers, faults>>
files == <<bin, backup, dump, tree, notice>>

Stages == {"none", "stale", "creating", "locked", "fetched", "backed", "dumping", "dumped",
           "built", "marked"}
BootSteps == {"starting", "rolling", "restored"}
Locking(u) == stage[u] \notin {"none", "stale"}
Holding(u) == stage[u] \notin {"none", "stale", "creating"}
MarkerFile == [from : Versions, to : Versions, attempts : 0..2]

UpdateTypeOK ==
  /\ bin \in Versions /\ tree \in Versions
  /\ backup \in Versions \cup {None}
  /\ dump \in {None, "torn", "whole"}
  /\ marker \in MarkerFile \cup {None, Corrupt}
  /\ notice \in [restoreFailed : BOOLEAN] \cup {None}
  /\ lockFile \in LockRecord \cup {None}
  /\ service \in [version : Versions,
                  at : BootSteps \cup {"waiting", "up", "failed", "exited"}]
  /\ armed \in BOOLEAN /\ delayed \in BOOLEAN /\ unready \in BOOLEAN /\ stolen \in BOOLEAN
  /\ stage \in [Updaters -> Stages]
  /\ markers \in 0..MaxMarkers /\ faults \in 0..MaxFaults

UpdateInit ==
  /\ bin = 1 /\ tree = 1 /\ backup = None /\ dump = None
  /\ marker = None /\ notice = None /\ lockFile = None
  /\ service = [version |-> 1, at |-> "up"]
  /\ armed = FALSE /\ delayed = FALSE /\ unready = FALSE /\ stolen = FALSE
  /\ stage = [u \in Updaters |-> "none"]
  /\ markers = 0 /\ faults = 0

MarkerPending == marker \notin {None, Corrupt}
\* A plausible bug: a third rollback.
MustRollBackThrice == IF MarkerPending THEN marker.attempts <= 2 ELSE FALSE
MustRollBack == IF MarkerPending THEN marker.attempts < 2 ELSE FALSE
Fault == faults < MaxFaults /\ faults' = faults + 1

-----------------------------------------------------------------------------
(* The lock: create_new, write the PID, read it back.  All the callers are   *)
(* threads of one process and write the same PID.  An empty file is being    *)
(* written by somebody else: the caller backs off; a live PID turns it away. *)

CreateLock(u) ==
  /\ service.at = "up" /\ stage[u] = "none" /\ lockFile = None /\ markers < MaxMarkers
  /\ lockFile' = [by |-> u, text |-> "empty"]
  /\ stage' = [stage EXCEPT ![u] = "creating"]
  /\ UNCHANGED <<files, marker, stolen, service, armed, delayed, unready, markers, faults>>

\* The PID goes to the file u created, whatever the path names by then; the
\* read-back of the path succeeds on any file that holds this PID.
WriteLock(u) ==
  /\ stage[u] = "creating"
  /\ lockFile' = IF lockFile # None /\ lockFile.by = u
                 THEN [lockFile EXCEPT !.text = "live"] ELSE lockFile
  /\ stage' = [stage EXCEPT ![u] = IF lockFile' # None /\ lockFile'.text = "live"
                                   THEN "locked" ELSE "none"]
  /\ UNCHANGED <<files, marker, stolen, service, armed, delayed, unready, markers, faults>>

\* A failing write_all leaves the file empty, a failing sync_all with its PID:
\* there is no guard yet that would remove it.
WriteLockFails(u) ==
  /\ stage[u] = "creating" /\ Fault
  /\ IF lockFile # None /\ lockFile.by = u
     THEN \E text \in {"empty", "live"} : lockFile' = [by |-> None, text |-> text]
     ELSE UNCHANGED lockFile
  /\ stage' = [stage EXCEPT ![u] = "none"]
  /\ UNCHANGED <<files, marker, stolen, service, armed, delayed, unready, markers>>

\* A plausible bug: an empty lock file is taken for garbage and removed.
RemoveUnlessLive(u) ==
  /\ service.at = "up" /\ stage[u] = "none" /\ lockFile # None /\ lockFile.text # "live"
  /\ lockFile' = None
  /\ UNCHANGED <<files, marker, stolen, service, armed, delayed, stage, unready, markers, faults>>

\* The PID of an earlier process is read and its process is not alive.
FindDead(u) ==
  /\ service.at = "up" /\ stage[u] = "none" /\ lockFile # None /\ lockFile.text = "dead"
  /\ stage' = [stage EXCEPT ![u] = "stale"]
  /\ UNCHANGED <<files, marker, lockFile, stolen, service, armed, delayed, unready, markers,
                 faults>>

\* What is removed is what the path names now; the creation is then tried again.
RemoveStale(u) ==
  /\ stage[u] = "stale"
  /\ lockFile' = None
  /\ stolen' = (stolen \/ (lockFile # None /\ lockFile.text # "dead"))
  /\ stage' = [stage EXCEPT ![u] = "none"]
  /\ UNCHANGED <<files, marker, service, armed, delayed, unready, markers, faults>>

\* The drop of the LockGuard: only a file with our PID goes, and a removal that
\* fails is ignored.
Unlocked == IF lockFile # None /\ lockFile.text = "live" THEN None ELSE lockFile
StillLocked == IF lockFile # None /\ lockFile.text = "live"
               THEN [by |-> None, text |-> "live"] ELSE lockFile

-----------------------------------------------------------------------------
(* The steps of /update.  Each may fail, and so may the status edit that     *)
(* follows it: the command returns and drops the lock.                       *)

Advance(u, from, to) ==
  /\ stage[u] = from
  /\ stage' = [stage EXCEPT ![u] = to]
  /\ UNCHANGED <<notice, stolen, service, armed, unready>>

\* Steps 5 to 11: a clean tree, a newer tag or force, room, fetch, reset --hard.
Checkout(u) ==
  /\ \E tag \in Versions, force \in BOOLEAN :
       (force \/ tag > service.version) /\ tree' = tag
  /\ Advance(u, "locked", "fetched")
  /\ UNCHANGED <<bin, backup, dump, marker, lockFile, delayed, markers, faults>>

\* backup_binary: a copy of what is installed, renamed into place.
BackupBinary(u) ==
  /\ backup' = bin
  /\ Advance(u, "fetched", "backed")
  /\ UNCHANGED <<bin, dump, tree, marker, lockFile, delayed, markers, faults>>

\* pg_dump writes the file in place; its first line is verified at the end.
BeginDump(u) ==
  /\ dump' = "torn"
  /\ Advance(u, "backed", "dumping")
  /\ UNCHANGED <<bin, backup, tree, marker, lockFile, delayed, markers, faults>>

EndDump(u) ==
  /\ dump' = "whole"
  /\ Advance(u, "dumping", "dumped")
  /\ UNCHANGED <<bin, backup, tree, marker, lockFile, delayed, markers, faults>>

\* cargo build --release replaces the installed binary.
Build(u) ==
  /\ bin' = tree
  /\ Advance(u, "dumped", "built")
  /\ UNCHANGED <<backup, dump, tree, marker, lockFile, delayed, markers, faults>>

\* create_marker is written and synced before the restart is scheduled.
CreateMarker(u) ==
  /\ stage[u] = "built" /\ markers < MaxMarkers
  /\ marker' = [from |-> service.version, to |-> tree, attempts |-> 0]
  /\ markers' = markers + 1
  /\ unready' = FALSE
  /\ stage' = [stage EXCEPT ![u] = "marked"]
  /\ UNCHANGED <<files, lockFile, stolen, service, armed, delayed, faults>>

\* The command returns with the restart 30 seconds away and the lock released.
ScheduleRestart(u) ==
  /\ delayed' = TRUE
  /\ \/ lockFile' = Unlocked /\ UNCHANGED faults
     \/ lockFile' = StillLocked /\ Fault
  /\ Advance(u, "marked", "none")
  /\ UNCHANGED <<bin, backup, dump, tree, marker, markers>>

ScheduleFails(u) ==
  /\ stage[u] = "marked" /\ Fault
  /\ marker' = None
  /\ lockFile' \in {Unlocked, StillLocked}
  /\ stage' = [stage EXCEPT ![u] = "none"]
  /\ delayed' \in {delayed, FALSE}       \* its systemctl stop may have been done
  /\ UNCHANGED <<files, stolen, service, armed, unready, markers>>

StepFails(u) ==
  /\ Holding(u) /\ stage[u] # "marked" /\ Fault
  /\ lockFile' \in {Unlocked, StillLocked}
  /\ stage' = [stage EXCEPT ![u] = "none"]
  /\ UNCHANGED <<files, marker, stolen, service, armed, delayed, unready, markers>>

-----------------------------------------------------------------------------
(* The process and systemd.                                                  *)

\* Every way the process ends: its commands and its PID end with it, and a
\* boot that had not become ready has failed.
CommandsEnd ==
  /\ stage' = [u \in Updaters |-> "none"]
  /\ stolen' = FALSE
  /\ lockFile' = IF lockFile # None /\ lockFile.text = "live"
                 THEN [lockFile EXCEPT !.text = "dead"] ELSE lockFile

Ends(how) ==
  /\ service' = [service EXCEPT !.at = how]
  /\ CommandsEnd

Dies ==
  /\ service.at \notin {"failed", "exited"} /\ Fault
  /\ Ends("failed")
  /\ unready' = (unready \/ service.at \in {"starting", "waiting"})
  /\ UNCHANGED <<files, marker, armed, delayed, markers>>

\* Restart=on-failure starts what is installed by then.
RestartOnFailure ==
  /\ service.at = "failed"
  /\ service' = [version |-> bin, at |-> "starting"]
  /\ UNCHANGED <<files, marker, lockFile, stolen, armed, delayed, stage, unready, markers, faults>>

\* systemctl restart stops the process, whatever it does, and starts another.
DelayedRestart ==
  /\ delayed /\ delayed' = FALSE
  /\ service' = [version |-> bin, at |-> "starting"]
  /\ CommandsEnd
  /\ UNCHANGED <<files, marker, armed, unready, markers, faults>>

\* A plausible bug: cleanup_stale takes an empty file for one that is being written.
OnlyDeadIsStale == IF lockFile # None /\ lockFile.text = "dead" THEN None ELSE lockFile

\* cleanup_stale removes a dead PID and what does not parse.  The file may stay, when
\* its PID is in use again for now or the removal fails: main() only logs that.
CleanupStale == IF lockFile # None /\ lockFile.text # "live" THEN None ELSE lockFile

Boots(marker_, to, version) ==
  /\ service.at = "starting"
  /\ armed' = (marker # None)
  /\ \/ lockFile' = CleanupStale /\ UNCHANGED faults
     \/ lockFile # None /\ lockFile' = [lockFile EXCEPT !.by = None] /\ Fault
  /\ marker' = marker_
  /\ service' = [version |-> version, at |-> to]
  /\ UNCHANGED <<files, stolen, delayed, stage, unready, markers>>

\* check_and_recover: no marker, a corrupt one, or one already tried twice.
BootsNormally ==
  /\ ~MustRollBack
  /\ Boots(None, "waiting", service.version)

\* A plausible bug: the attempt is not counted before the rollback.
RollsUncounted ==
  /\ MustRollBack
  /\ Boots(marker, "rolling", service.version)

\* check_and_recover counts the attempt, and the boot rolls back.
BootsRolling ==
  /\ MustRollBack
  /\ Boots([marker EXCEPT !.attempts = @ + 1], "rolling", service.version)

\* The count is written in place: a death in the write leaves a torn marker.
DiesCounting ==
  /\ service.at = "starting" /\ MustRollBack /\ Fault
  /\ marker' = Corrupt
  /\ lockFile' = CleanupStale
  /\ armed' = TRUE /\ unready' = TRUE
  /\ service' = [service EXCEPT !.at = "failed"]
  /\ UNCHANGED <<files, stolen, delayed, stage, markers>>

\* restore_binary renames the backup over the binary, and with it the backup is
\* spent; without one, or when the rename fails, the boot goes on to the dump.
RestoreBinary ==
  /\ service.at = "rolling"
  /\ \/ /\ backup # None
        /\ bin' = backup /\ backup' = None
        /\ notice' = [restoreFailed |-> FALSE]
        /\ UNCHANGED faults
     \/ /\ \/ backup = None /\ UNCHANGED faults
           \/ backup # None /\ Fault
        /\ notice' = [restoreFailed |-> TRUE]
        /\ UNCHANGED <<bin, backup>>
  /\ service' = [service EXCEPT !.at = "restored"]
  /\ UNCHANGED <<dump, tree, marker, lockFile, stolen, armed, delayed, stage, unready, markers>>

\* restore_db, the notice, and the end of this boot: exit 1 for systemd to try
\* again if something was not restored or not scheduled, else exit 0.
RestoreDatabase ==
  /\ service.at = "restored"
  /\ \E psql, scheduled \in BOOLEAN :
       LET restored == ~notice.restoreFailed /\ dump = "whole" /\ psql IN
       /\ IF (dump = "whole" => psql) /\ (restored => scheduled)
          THEN UNCHANGED faults ELSE Fault
       /\ notice' = [restoreFailed |-> ~restored]
       /\ delayed' = (delayed \/ (restored /\ scheduled))
       /\ Ends(IF restored /\ scheduled THEN "exited" ELSE "failed")
  /\ UNCHANGED <<bin, backup, dump, tree, marker, armed, unready, markers>>

\* The gateway connects: the watchdog confirms, the owner reads the notice.
BecomesReady ==
  /\ service.at = "waiting" /\ service.version \notin Broken
  /\ service' = [service EXCEPT !.at = "up"]
  /\ marker' = IF armed THEN None ELSE marker
  /\ armed' = FALSE
  /\ notice' = None
  /\ UNCHANGED <<bin, backup, dump, tree, lockFile, stolen, delayed, stage, unready, markers,
                 faults>>

\* ready_watchdog: 60 seconds without a ready signal end the process.
WatchdogFires ==
  /\ service.at = "waiting" /\ armed
  /\ IF service.version \in Broken THEN UNCHANGED faults ELSE Fault
  /\ Ends("failed")
  /\ unready' = TRUE
  /\ UNCHANGED <<files, marker, armed, delayed, markers>>

-----------------------------------------------------------------------------
UpdateStep(u) ==
  \/ RemoveStale(u) \/ WriteLock(u) \/ Checkout(u) \/ BackupBinary(u) \/ BeginDump(u) \/ EndDump(u)
  \/ Build(u) \/ CreateMarker(u) \/ ScheduleRestart(u)
Boot ==
  \/ RestartOnFailure \/ DelayedRestart \/ BootsNormally \/ BootsRolling
  \/ RestoreBinary \/ RestoreDatabase \/ BecomesReady

UpdateNext ==
  \/ \E u \in Updaters :
       \/ CreateLock(u) \/ FindDead(u) \/ UpdateStep(u)
       \/ WriteLockFails(u) \/ ScheduleFails(u) \/ StepFails(u)
  \/ Boot \/ Dies \/ DiesCounting \/ WatchdogFires

UpdateSpec == UpdateInit /\ [][UpdateNext]_updateVars

-----------------------------------------------------------------------------
\* A lock is the lock of one update that runs: two commands are never past it at
\* once, however their create_new, writes and read-backs interleave
\* (update/lock.rs:87-89), and a lock file belongs to a command that is creating or
\* holding it, whatever died before.  The exceptions are a dead lock that another
\* caller removed and replaced between the read and the removal (lock.rs:98-115),
\* and a file that a failed write, drop or clean-up left behind.
LockIsOneUpdate ==
  /\ \A u, v \in Updaters : Holding(u) /\ Holding(v) => u = v \/ stolen
  /\ service.at = "up" /\ lockFile # None =>
       \/ lockFile.by = None
       \/ Locking(lockFile.by) /\ (Holding(lockFile.by) <=> lockFile.text = "live")

\* While a marker waits for its first boot there is a binary to roll back to: the
\* attempt is counted on disk before the rename that spends the backup.
RollbackHasABinary ==
  MarkerPending => marker.attempts > 0 \/ backup # None

\* A marker does not keep the service rolling back for ever: whatever fails on
\* the way, some boot settles it (update/marker.rs:89-97).
MarkersSettle == (marker # None) ~> (marker = None)

\* The notice of main.rs:236-239 and the watchdog promise that an update is rolled
\* back because a boot of it failed to become ready.
RollsBackFailedBoots == notice # None => unready
=============================================================================
