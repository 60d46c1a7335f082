---------------------------- MODULE BranchThread ----------------------------
(***************************************************************************)
(* /branch (commands/branch.rs): a summary turn in the source thread, a new *)
(* thread with a session of its own, and a first turn that hands the        *)
(* summary over; a failure after the thread exists takes it down again.     *)
(* Beside the command, users run turns in both threads and /clear the       *)
(* source.  Validation and texts only pass or fail; titles, chunks of the   *)
(* header message and warnings are left out, and so are messages that join  *)
(* a running turn.  Of the threads made, the last one is followed.          *)
(***************************************************************************)
EXTENDS Naturals

CONSTANTS Unowned,
          MaxBranches,  \* bound: /branch commands
          MaxPosts      \* bound: messages posted in the new thread

ASSUME BranchAssumption ==
    MaxBranches \in Nat /\ MaxPosts \in Nat /\ Unowned \notin {"branch", "user"}

VARIABLES step,      \* where the command is
          srcRow,    \* the status of the source's row
          srcBy,     \* who set it running
          srcTurn,   \* whose turn the source's worker runs
          srcLock,   \* the holder of the source's dispatch lock
          thread,    \* the new Discord thread
          newRow,    \* the status of its row
          process,   \* its session is in the registry
          newTurn,   \* whose turn its worker runs
          newLock,   \* the holder of its dispatch lock
          poster,    \* a user's handle_message in it
          undrained, \* history: the command left its first turn to nobody
          branches, posts

branchVars == <<step, srcRow, srcBy, srcTurn, srcLock, thread, newRow, process, newTurn,
                newLock, poster, undrained, branches, posts>>
sourceVars == <<srcRow, srcBy, srcTurn, srcLock>>
targetVars == <<thread, newRow, process, newTurn, newLock, poster, undrained, posts>>

CleanupSteps == {"kill", "forget", "delete", "archive"}
BranchSteps == {"asked", "locked", "acquired", "spawned", "collecting", "summary",
                "parsed", "created", "headed", "rowed", "ready", "holding", "taken",
                "sent", "draining"} \cup CleanupSteps
Parties == {Unowned, "branch", "user"}

BranchTypeOK ==
  /\ step \in BranchSteps \cup {"over"}
  /\ srcRow \in {"none", "idle", "running"}
  /\ srcBy \in Parties /\ srcTurn \in Parties /\ srcLock \in Parties
  /\ thread \in {"none", "open", "archived"}
  /\ newRow \in {"none", "idle", "running", "error"}
  /\ process \in BOOLEAN /\ newTurn \in Parties /\ newLock \in Parties
  /\ poster \in {"none", "waiting", "holding"}
  /\ undrained \in BOOLEAN
  /\ branches \in 0..MaxBranches /\ posts \in 0..MaxPosts

BranchInit ==
  /\ step = "over"
  /\ srcRow = "idle" /\ srcBy = Unowned /\ srcTurn = Unowned /\ srcLock = Unowned
  /\ thread = "none" /\ newRow = "none" /\ process = FALSE
  /\ newTurn = Unowned /\ newLock = Unowned /\ poster = "none"
  /\ undrained = FALSE /\ branches = 0 /\ posts = 0

Goes(from, to) == step = from /\ step' = to /\ UNCHANGED branches

-----------------------------------------------------------------------------
(* Phase A: the summary turn in the source thread.                           *)

\* In a thread of a registered project, with a row and a slot left.
AskBranch ==
  /\ step = "over" /\ srcRow # "none" /\ branches < MaxBranches
  /\ step' = "asked" /\ branches' = branches + 1
  /\ thread' = "none" /\ newRow' = "none" /\ process' = FALSE
  /\ newTurn' = Unowned /\ newLock' = Unowned /\ poster' = "none" /\ posts' = 0
  /\ undrained' = FALSE
  /\ UNCHANGED sourceVars

LockSource ==
  /\ srcLock = Unowned /\ srcLock' = "branch"
  /\ Goes("asked", "locked")
  /\ UNCHANGED <<srcRow, srcBy, srcTurn, targetVars>>

TryAcquireSource ==
  \/ /\ srcRow = "idle" /\ srcRow' = "running" /\ srcBy' = "branch"
     /\ Goes("locked", "acquired")
     /\ UNCHANGED <<srcTurn, srcLock, targetVars>>
  \/ /\ srcRow # "idle" /\ srcLock' = Unowned
     /\ Goes("locked", "over")
     /\ UNCHANGED <<srcRow, srcBy, srcTurn, targetVars>>

\* update_session_status(idle): whoever is running, if the row is still there.
SourceIdle ==
  /\ srcRow' = IF srcRow = "none" THEN "none" ELSE "idle"
  /\ srcBy' = Unowned

\* get_or_create, then send_message: the lock goes with the enqueued summary.
SpawnSource ==
  \/ Goes("acquired", "spawned") /\ UNCHANGED <<sourceVars, targetVars>>
  \/ /\ SourceIdle /\ srcLock' = Unowned
     /\ Goes("acquired", "over") /\ UNCHANGED <<srcTurn, targetVars>>

\* A plausible bug: a summary that cannot be sent leaves the row running.
SendSummaryOrLeave ==
  \/ /\ srcTurn' = "branch" /\ srcLock' = Unowned
     /\ Goes("spawned", "collecting") /\ UNCHANGED <<srcRow, srcBy, targetVars>>
  \/ /\ srcLock' = Unowned
     /\ Goes("spawned", "over") /\ UNCHANGED <<srcRow, srcBy, srcTurn, targetVars>>

SendSummary ==
  \/ /\ srcTurn' = "branch" /\ srcLock' = Unowned
     /\ Goes("spawned", "collecting") /\ UNCHANGED <<srcRow, srcBy, targetVars>>
  \/ /\ SourceIdle /\ srcLock' = Unowned
     /\ Goes("spawned", "over") /\ UNCHANGED <<srcTurn, targetVars>>

\* A plausible bug: the summary is awaited without a deadline.
CollectForEver ==
  /\ srcTurn # "branch"
  /\ SourceIdle
  /\ Goes("collecting", "summary") \/ Goes("collecting", "over")
  /\ UNCHANGED <<srcTurn, srcLock, targetVars>>

\* collect_summary_response ends with the turn, with the channel, or at the
\* deadline, which interrupts the turn; without a text the command is over.
CollectSummary ==
  \/ /\ srcTurn # "branch" /\ SourceIdle
     /\ Goes("collecting", "summary") \/ Goes("collecting", "over")
     /\ UNCHANGED <<srcTurn, srcLock, targetVars>>
  \/ /\ srcTurn = "branch" /\ SourceIdle /\ srcTurn' = Unowned
     /\ Goes("collecting", "over")
     /\ UNCHANGED <<srcLock, targetVars>>

\* The worker's side: the summary turn ends, by its Result or its process.
SummaryEnds ==
  /\ srcTurn = "branch" /\ srcTurn' = Unowned
  /\ UNCHANGED <<step, srcRow, srcBy, srcLock, branches, targetVars>>

ParseSummary ==
  /\ Goes("summary", "parsed") \/ Goes("summary", "over")
  /\ UNCHANGED <<sourceVars, targetVars>>

-----------------------------------------------------------------------------
(* Phase B: the new thread.                                                  *)

CreateThread ==
  \/ /\ thread' = "open" /\ Goes("parsed", "created")
     /\ UNCHANGED <<sourceVars, newRow, process, newTurn, newLock, poster, undrained, posts>>
  \/ Goes("parsed", "over") /\ UNCHANGED <<sourceVars, targetVars>>

SayHeader ==
  /\ Goes("created", "headed") \/ Goes("created", "kill")
  /\ UNCHANGED <<sourceVars, targetVars>>

\* The row's key is the thread: a user's message may have made it first.
CreateRow ==
  \/ /\ newRow = "none" /\ newRow' = "idle" /\ Goes("headed", "rowed")
     /\ UNCHANGED <<sourceVars, thread, process, newTurn, newLock, poster, undrained, posts>>
  \/ Goes("headed", "kill") /\ UNCHANGED <<sourceVars, targetVars>>

SpawnNew ==
  \/ /\ process' = TRUE /\ Goes("rowed", "ready")
     /\ UNCHANGED <<sourceVars, thread, newRow, newTurn, newLock, poster, undrained, posts>>
  \/ Goes("rowed", "kill") /\ UNCHANGED <<sourceVars, targetVars>>

LockNew ==
  /\ newLock = Unowned /\ newLock' = "branch" /\ Goes("ready", "holding")
  /\ UNCHANGED <<sourceVars, thread, newRow, process, newTurn, poster, undrained, posts>>

\* A row that a user's message has set running sends the command to its cleanup,
\* with the dispatch lock held until the command returns.
TryAcquireNew ==
  \/ /\ newRow \in {"idle", "error"} /\ newRow' = "running" /\ Goes("holding", "taken")
     /\ UNCHANGED <<sourceVars, thread, process, newTurn, newLock, poster, undrained, posts>>
  \/ /\ newRow \notin {"idle", "error"} /\ Goes("holding", "kill")
     /\ UNCHANGED <<sourceVars, targetVars>>

SendFirst ==
  \/ /\ process /\ newTurn' = "branch" /\ newLock' = Unowned /\ Goes("taken", "sent")
     /\ UNCHANGED <<sourceVars, thread, newRow, process, poster, undrained, posts>>
  \/ Goes("taken", "kill") /\ UNCHANGED <<sourceVars, targetVars>>

-----------------------------------------------------------------------------
(* Phase C: the reply, and the first turn drained.                           *)

\* The reply's error returns from the command: nobody drains the turn.
Confirm ==
  \/ Goes("sent", "draining") /\ UNCHANGED <<sourceVars, targetVars>>
  \/ /\ undrained' = TRUE /\ Goes("sent", "over")
     /\ UNCHANGED <<sourceVars, thread, newRow, process, newTurn, newLock, poster, posts>>

\* The turn of the new worker ends; a user's turn resets its own row.
NewTurnEnds ==
  /\ newTurn # Unowned /\ newTurn' = Unowned
  /\ newRow' = IF newTurn = "user" /\ newRow # "none" THEN "idle" ELSE newRow
  /\ UNCHANGED <<step, thread, process, newLock, poster, undrained, branches, posts, sourceVars>>

\* drain_initial_turn: a good result leaves the row idle; an error, a closed
\* channel or the deadline leave it in error and take the thread down.
DrainFirst ==
  LET sets(status) == newRow' = IF newRow = "none" THEN "none" ELSE status IN
  \/ /\ newTurn # "branch" /\ sets("idle") /\ Goes("draining", "over")
     /\ UNCHANGED <<sourceVars, thread, process, newTurn, newLock, poster, undrained, posts>>
  \/ /\ sets("error") /\ Goes("draining", "kill")
     /\ UNCHANGED <<sourceVars, thread, process, newTurn, newLock, poster, undrained, posts>>

\* cleanup_orphaned_thread: kill, forget the state, delete the row, archive and lock
\* the thread.  A dispatch lock that the command holds stays in the map (it is still
\* referred to), and is released when the command returns.
KillOrphan ==
  /\ process' = FALSE /\ newTurn' = Unowned /\ Goes("kill", "forget")
  /\ UNCHANGED <<sourceVars, thread, newRow, newLock, poster, undrained, posts>>

ForgetOrphan ==
  /\ Goes("forget", "delete")
  /\ UNCHANGED <<sourceVars, targetVars>>

DeleteOrphan ==
  /\ newRow' = "none" /\ Goes("delete", "archive")
  /\ UNCHANGED <<sourceVars, thread, process, newTurn, newLock, poster, undrained, posts>>

ArchiveOrphan ==
  /\ thread' \in {"archived", thread} /\ Goes("archive", "over")
  /\ newLock' = IF newLock = "branch" THEN Unowned ELSE newLock
  /\ UNCHANGED <<sourceVars, newRow, process, newTurn, poster, undrained, posts>>

-----------------------------------------------------------------------------
(* The users.                                                                *)

UserTurn ==
  /\ srcLock = Unowned /\ srcRow # "running"
  /\ srcRow' = "running" /\ srcBy' = "user" /\ srcTurn' = "user"
  /\ srcTurn = Unowned
  /\ UNCHANGED <<step, srcLock, branches, targetVars>>

UserTurnEnds ==
  /\ srcTurn = "user" /\ srcTurn' = Unowned /\ SourceIdle
  /\ UNCHANGED <<step, srcLock, branches, targetVars>>

\* /clear kills the session and deletes the row without the dispatch lock.
ClearSource ==
  /\ srcRow' = "none" /\ srcBy' = Unowned /\ srcTurn' = Unowned
  /\ UNCHANGED <<step, srcLock, branches, targetVars>>

\* A message in the new thread: the row if there is none, then the lock.
Post ==
  /\ thread = "open" /\ poster = "none" /\ posts < MaxPosts
  /\ poster' = "waiting" /\ posts' = posts + 1
  /\ newRow' = IF newRow = "none" THEN "idle" ELSE newRow
  /\ UNCHANGED <<step, thread, process, newTurn, newLock, undrained, branches, sourceVars>>

PosterLocks ==
  /\ poster = "waiting" /\ newLock = Unowned
  /\ poster' = "holding" /\ newLock' = "user" /\ process' = TRUE
  /\ UNCHANGED <<step, thread, newRow, newTurn, undrained, branches, posts, sourceVars>>

\* Idle: the message is a turn of its own.  Running: it joins the turn there is.
PosterSends ==
  /\ poster = "holding" /\ poster' = "none"
  /\ newLock' = IF newLock = "user" THEN Unowned ELSE newLock
  /\ IF newRow \in {"idle", "error"}
     THEN /\ newRow' = IF process THEN "running" ELSE "error"
          /\ newTurn' = IF process THEN "user" ELSE newTurn
     ELSE UNCHANGED <<newRow, newTurn>>
  /\ UNCHANGED <<step, thread, process, undrained, branches, posts, sourceVars>>

-----------------------------------------------------------------------------
BranchStep ==
  \/ LockSource \/ TryAcquireSource \/ SpawnSource \/ SendSummary \/ CollectSummary
  \/ ParseSummary \/ CreateThread \/ SayHeader \/ CreateRow \/ SpawnNew \/ LockNew
  \/ TryAcquireNew \/ SendFirst \/ Confirm \/ DrainFirst
  \/ KillOrphan \/ ForgetOrphan \/ DeleteOrphan \/ ArchiveOrphan
PosterStep == PosterLocks \/ PosterSends

BranchNext ==
  \/ AskBranch \/ BranchStep \/ SummaryEnds \/ NewTurnEnds
  \/ UserTurn \/ UserTurnEnds \/ ClearSource \/ Post \/ PosterStep

BranchSpec == BranchInit /\ [][BranchNext]_branchVars

-----------------------------------------------------------------------------
\* The source's row runs for the command's summary turn or for a user's turn.
SourceRowOwned ==
  srcRow = "running" =>
    \/ srcBy = "branch" /\ step \in {"acquired", "spawned", "collecting"}
    \/ srcBy = "user" /\ srcTurn = "user"

\* The new row runs for the first turn, for a user's turn, or until the cleanup
\* deletes it; a command that has it has it running, and no user's turn in it.
NewRowOwned ==
  /\ newRow = "running" =>
       \/ step \in {"taken", "sent", "draining", "kill", "forget", "delete"}
       \/ newTurn = "user" \/ undrained
  /\ step \in {"taken", "sent", "draining"} => newRow = "running" /\ newTurn # "user"

\* Whoever holds a dispatch lock is where it gives it back.
LocksHeld ==
  /\ srcLock = "branch" <=> step \in {"locked", "acquired", "spawned"}
  /\ newLock = "branch" => step \in {"holding", "taken"} \cup CleanupSteps
  /\ newLock = "user" => poster = "holding"

\* However users post in the new thread and /clear the source, no row is left running
\* without a turn that resets it or a cleanup that deletes it, but for a command that
\* could not confirm and left its first turn to nobody; the first turn shares its row
\* with no turn of a user, and no lock is held by a command that is past it (run and
\* cleanup_orphaned_thread, branch.rs:116-470).
BranchRowsOwned == SourceRowOwned /\ NewRowOwned /\ LocksHeld

\* The command ends, as the summary and the first turn have deadlines and no lock
\* it waits for is held by somebody who waits for it; and whichever of its failures
\* ends it, whatever users did meanwhile, the source's row is not left running in
\* the command's name (branch.rs:116-224).
BranchEnds == (step # "over") ~> (step = "over" /\ srcBy # "branch")
=============================================================================
