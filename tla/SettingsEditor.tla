--------------------------- MODULE SettingsEditor ---------------------------
(***************************************************************************)
(* The atomic editor of a Claude settings file                             *)
(* (src/src/claude_settings/editor.rs, lock.rs, integrity.rs, dedup.rs).   *)
(* A call of add_permissions takes the path's mutex of its process (L1),   *)
(* opens the file, waits for its flock, checks that the path still names   *)
(* the inode it locked, reads, merges, compares fingerprints and renames a *)
(* new file over the path.  Two bot processes share the file, and somebody *)
(* else, who takes no lock, writes it in place or renames over it.         *)
(*                                                                         *)
(* Steps 5 to 14 of the code run without an await, but other processes run *)
(* between any two of them, so each read or write of the file is an action *)
(* of its own.  A file is the set of rules in permissions.allow; its other *)
(* fields, the size limit and the text of JSON are left out.               *)
(***************************************************************************)
EXTENDS Naturals, Sequences, FiniteSets

CONSTANTS Bots,      \* bot processes
          Calls,     \* calls of add_permissions
          BotOf,     \* BotOf[k]: the process call k runs in
          Want,      \* Want[k]: the normalized rules call k adds
          Rules,     \* permission rules, those of outside edits included
          Foreign,   \* the rules outside edits add
          Inodes,    \* inode numbers, reused when nothing refers to them
          NoInode,   \* the path does not exist
          MaxTries,  \* MAX_RETRIES of the caller
          MaxEdits,  \* bound: outside edits
          MaxMishaps \* bound: processes that die and system calls that fail

ASSUME EditorAssumption ==
    /\ BotOf \in [Calls -> Bots]
    /\ Want \in [Calls -> SUBSET Rules]
    /\ Foreign \subseteq Rules
    /\ NoInode \notin Inodes /\ IsFiniteSet(Calls)
    /\ IsFiniteSet(Inodes) => Cardinality(Inodes) > Cardinality(Calls) + 2
    /\ MaxEdits \in Nat /\ MaxMishaps \in Nat /\ MaxTries \in Nat \ {0}

VARIABLES path,    \* the inode the path names, or NoInode
          data,    \* data[i]: the content of inode i
          flock,   \* flock[i]: the calls that hold the flock of i (at most one)
          l1,      \* l1[b]: the calls of process b queued for the path's mutex
          at,      \* at[k]: where call k is
          fd,      \* fd[k]: the inode call k has open, or NoInode
          tries,   \* tries[k]: opens whose inode check failed
          print,   \* print[k]: fingerprint_old, the content it hashes
          value,   \* value[k]: the rules call k is about to write
          result,  \* result[k]: the outcome call k computed or returned
          again,   \* again[k]: how often the caller repeated k
          late,    \* late[k]: an outside edit crossed k that k cannot notice
          outside, \* the other writer: idle, or what it read, or a torn inode
          edits, mishaps,
          saved    \* rules a call wrote and no outside edit undid

editorVars == <<path, data, flock, l1, at, fd, tries, print, value, result,
                again, late, outside, edits, mishaps, saved>>

Json(S) == [kind |-> "json", rules |-> S]
Blank(k) == [kind |-> k, rules |-> {}]
Contents == [kind : {"empty", "torn", "odd", "json"}, rules : SUBSET Rules]
Quiet == [do |-> "idle", inode |-> NoInode, saw |-> {}]

Success == {"Added", "AlreadyPresent", "ConflictResolved"}
Failure == {"LockConflict", "Io", "InvalidShape", "JsonCorrupted",
            "MtimeChanged", "died"}

\* The call owns the flock and has verified the inode.
Verified == {"fingerprint", "read", "backup", "recheck", "reread",
             "write"}

EditorInit ==
    /\ \E first \in {NoInode, CHOOSE i \in Inodes : TRUE},
          c \in {Json({}), Blank("torn")} :
          /\ path = first
          /\ data = [i \in Inodes |-> IF i = first THEN c ELSE Blank("empty")]
    /\ flock = [i \in Inodes |-> {}]
    /\ l1 = [b \in Bots |-> <<>>]
    /\ at = [k \in Calls |-> "idle"]
    /\ fd = [k \in Calls |-> NoInode]
    /\ tries = [k \in Calls |-> 0]
    /\ print = [k \in Calls |-> Blank("empty")]
    /\ value = [k \in Calls |-> {}]
    /\ result = [k \in Calls |-> "none"]
    /\ again = [k \in Calls |-> 0]
    /\ late = [k \in Calls |-> FALSE]
    /\ outside = Quiet
    /\ edits = 0 /\ mishaps = 0
    /\ saved = {}

\* An inode nothing refers to, which open or rename may get from the kernel.
FreeInode(i) == i # path /\ i # outside.inode /\ \A k \in Calls : fd[k] # i

\* Which one does not matter, only that nobody else refers to it.
NewInode == CHOOSE i \in Inodes : FreeInode(i)

\* What a reader of the path finds.
Current == IF path = NoInode THEN Blank("none") ELSE data[path]

Goto(k, p) == at' = [at EXCEPT ![k] = p]
-----------------------------------------------------------------------------
(* The locks. *)

\* acquire_path_lock: the call queues for the process's mutex of the path.
Ask(k) ==
    /\ at[k] = "idle"
    /\ l1' = [l1 EXCEPT ![BotOf[k]] = Append(@, k)]
    /\ Goto(k, "open")
    /\ UNCHANGED <<path, data, flock, fd, tries, print, value, result, late,
                   outside, edits, mishaps, saved, again>>

HoldsL1(k) == l1[BotOf[k]] # <<>> /\ Head(l1[BotOf[k]]) = k

MayOpen(k) == at[k] = "open" /\ HoldsL1(k)

\* open(O_RDWR|O_CREAT): the file the path names, or a new empty one.
Open(k) ==
    /\ MayOpen(k)
    /\ \/ /\ path # NoInode
          /\ fd' = [fd EXCEPT ![k] = path]
          /\ UNCHANGED <<path, data>>
       \/ /\ path = NoInode
          /\ path' = NewInode
          /\ data' = [data EXCEPT ![NewInode] = Blank("empty")]
          /\ fd' = [fd EXCEPT ![k] = NewInode]
    /\ Goto(k, "flock")
    /\ UNCHANGED <<flock, l1, tries, print, value, result, late, outside,
                   edits, mishaps, saved, again>>

\* Call k leaves the cycle; if an outside edit crossed it and it replaced the
\* path, the calls that locked the path's inode meanwhile are crossed as well.
Spread(k, replaced) == [j \in Calls |->
    j # k /\ (late[j] \/ (late[k] /\ replaced /\ at[j] \in Verified))]

\* Mutation: an early return that forgets the mutex of the process.
ReturnKeepingL1(k, r) ==
    /\ Goto(k, "done")
    /\ result' = [result EXCEPT ![k] = r]
    /\ flock' = [i \in Inodes |-> flock[i] \ {k}]
    /\ fd' = [fd EXCEPT ![k] = NoInode]
    /\ print' = [print EXCEPT ![k] = Blank("empty")]
    /\ value' = [value EXCEPT ![k] = {}]
    /\ late' = Spread(k, at[k] = "backup" /\ path' = NoInode)
    /\ tries' = [tries EXCEPT ![k] = 0]
    /\ again' = IF r = "LockConflict" THEN again ELSE [again EXCEPT ![k] = 0]
    /\ UNCHANGED l1

\* The call returns r: its file is closed, which frees the flock, then L1.
Return(k, r) ==
    /\ Goto(k, "done")
    /\ result' = [result EXCEPT ![k] = r]
    /\ flock' = [i \in Inodes |-> flock[i] \ {k}]
    /\ fd' = [fd EXCEPT ![k] = NoInode]
    /\ l1' = [l1 EXCEPT ![BotOf[k]] = Tail(@)]
    /\ print' = [print EXCEPT ![k] = Blank("empty")]
    /\ value' = [value EXCEPT ![k] = {}]
    /\ late' = Spread(k, at[k] = "backup" /\ path' = NoInode)
    /\ tries' = [tries EXCEPT ![k] = 0]
    /\ again' = IF r = "LockConflict" THEN again ELSE [again EXCEPT ![k] = 0]

\* Mutation: a shared lock.
ShareFlock(k) ==
    /\ at[k] = "flock"
    /\ flock' = [flock EXCEPT ![fd[k]] = @ \cup {k}]
    /\ Goto(k, "verify")
    /\ UNCHANGED <<path, data, l1, fd, tries, print, value, result, late,
                   outside, edits, mishaps, saved, again>>

\* try_lock succeeds within one of the two attempts.
TakeFlock(k) ==
    /\ at[k] = "flock"
    /\ flock[fd[k]] = {}
    /\ flock' = [flock EXCEPT ![fd[k]] = {k}]
    /\ Goto(k, "verify")
    /\ UNCHANGED <<path, data, l1, fd, tries, print, value, result, late,
                   outside, edits, mishaps, saved, again>>

\* Both attempts of flock_with_timeout ran out while another call held it.
FlockTimeout(k) ==
    /\ at[k] = "flock"
    /\ flock[fd[k]] # {}
    /\ Return(k, "LockConflict")
    /\ UNCHANGED <<path, data, outside, edits, mishaps, saved>>

\* The path names the inode whose flock the call holds.
SameInode(k) ==
    /\ at[k] = "verify"
    /\ fd[k] = path
    /\ Goto(k, "fingerprint")
    /\ UNCHANGED <<path, data, flock, l1, fd, tries, print, value, result,
                   late, outside, edits, mishaps, saved, again>>

\* The path was renamed over or removed: drop the file, open it again, at
\* most three times in all.
StaleInode(k) ==
    /\ at[k] = "verify"
    /\ fd[k] # path
    /\ \/ /\ tries[k] + 1 < 3
          /\ tries' = [tries EXCEPT ![k] = @ + 1]
          /\ flock' = [flock EXCEPT ![fd[k]] = @ \ {k}]
          /\ fd' = [fd EXCEPT ![k] = NoInode]
          /\ Goto(k, "open")
          /\ UNCHANGED <<again, l1, print, value, result, late>>
       \/ /\ tries[k] + 1 >= 3
          /\ Return(k, "LockConflict")
    /\ UNCHANGED <<path, data, outside, edits, mishaps, saved>>

\* Mutation: the flock is trusted whatever inode the path names by now.
SkipVerify(k) ==
    /\ at[k] = "verify"
    /\ Goto(k, "fingerprint")
    /\ UNCHANGED <<path, data, flock, l1, fd, tries, print, value, result,
                   late, outside, edits, mishaps, saved, again>>

Verify(k) == SameInode(k) \/ StaleInode(k)
-----------------------------------------------------------------------------
(* The read-modify-write cycle. *)

\* Steps 5 to 7: an empty file gets "{}" through the open file, and the first
\* fingerprint is taken.
Fingerprint(k) ==
    /\ at[k] = "fingerprint"
    /\ LET now == IF data[fd[k]].kind = "empty" THEN Json({}) ELSE data[fd[k]] IN
       /\ data' = [data EXCEPT ![fd[k]] = now]
       /\ print' = [print EXCEPT ![k] = now]
    /\ Goto(k, "read")
    /\ UNCHANGED <<path, flock, l1, fd, tries, value, result, late, outside,
                   edits, mishaps, saved, again>>

\* Steps 8 and 9: parse what the file holds now and merge the rules into it.
Read(k) ==
    /\ at[k] = "read"
    /\ LET seen == data[fd[k]] IN
       \/ /\ seen.kind = "json"
          /\ value' = [value EXCEPT ![k] = seen.rules \cup Want[k]]
          /\ result' = [result EXCEPT ![k] =
                IF Want[k] \subseteq seen.rules THEN "AlreadyPresent"
                ELSE "Added"]
          /\ Goto(k, "recheck")
          /\ UNCHANGED <<again, flock, l1, fd, tries, print, late>>
       \/ /\ seen.kind \in {"torn", "empty"}
          /\ Goto(k, "backup")
          /\ UNCHANGED <<again, flock, l1, fd, tries, print, value, result, late>>
       \/ /\ seen.kind = "odd"
          /\ Return(k, "InvalidShape")
    /\ UNCHANGED <<path, data, outside, edits, mishaps, saved>>

\* Unparsable JSON: whatever the path names by now is renamed to the backup.
SetAside(k) ==
    /\ at[k] = "backup"
    /\ path' = NoInode
    /\ Return(k, "JsonCorrupted")
    /\ saved' = IF late[k] THEN {} ELSE saved
    /\ UNCHANGED <<data, outside, edits, mishaps>>

\* Mutation: the second fingerprint is not compared.
TrustOldRead(k) ==
    /\ at[k] = "recheck"
    /\ Goto(k, "write")
    /\ UNCHANGED <<path, data, flock, l1, fd, tries, print, value, result,
                   late, outside, edits, mishaps, saved, again>>

\* Step 10: compare the fingerprint with the file as it is now.
Recheck(k) ==
    /\ at[k] = "recheck"
    /\ Goto(k, IF data[fd[k]] = print[k] THEN "write" ELSE "reread")
    /\ UNCHANGED <<path, data, flock, l1, fd, tries, print, value, result,
                   late, outside, edits, mishaps, saved, again>>

\* The file changed: read it again and merge into that, once.
Reread(k) ==
    /\ at[k] = "reread"
    /\ LET seen == data[fd[k]] IN
       \/ /\ seen.kind = "json"
          /\ value' = [value EXCEPT ![k] = seen.rules \cup Want[k]]
          /\ result' = [result EXCEPT ![k] = "ConflictResolved"]
          /\ Goto(k, "write")
          /\ UNCHANGED <<again, flock, l1, fd, tries, print, late>>
       \/ /\ seen.kind \in {"torn", "empty"}
          /\ Return(k, "MtimeChanged")
       \/ /\ seen.kind = "odd"
          /\ Return(k, "InvalidShape")
    /\ UNCHANGED <<path, data, outside, edits, mishaps, saved>>

\* Steps 11 to 13: the temporary file replaces the path in one rename.
Rename(k) ==
    /\ at[k] = "write"
    /\ path' = NewInode
    /\ data' = [data EXCEPT ![NewInode] = Json(value[k])]
    /\ saved' = Want[k] \cup (IF late[k] THEN saved \cap value[k] ELSE saved)
    /\ late' = Spread(k, TRUE)
    /\ Goto(k, "sync")
    /\ UNCHANGED <<flock, l1, fd, tries, print, value, result, outside,
                   edits, mishaps, again>>

\* Steps 14 to 16: the directory is flushed, the locks are released.
Finish(k) ==
    /\ at[k] = "sync"
    /\ Return(k, result[k])
    /\ UNCHANGED <<path, data, outside, edits, mishaps, saved>>

\* A system call of the cycle fails and the error is returned: an open, a
\* read, the size guard, the temporary file, its rename, the directory's fsync.
\* A rename to the backup that fails is ignored: the file stays as it is, and the
\* call returns the same error.
IoError(k) ==
    /\ mishaps < MaxMishaps
    /\ MayOpen(k) \/ at[k] \in Verified \cup {"verify", "sync"}
    /\ at[k] = "backup" => path # NoInode
    /\ mishaps' = mishaps + 1
    /\ UNCHANGED <<path, data, outside, edits, saved>>
    /\ Return(k, IF at[k] = "backup" THEN "JsonCorrupted" ELSE "Io")

\* The caller repeats a call whose lock was busy, MAX_RETRIES times in all.
Retry(k) ==
    /\ at[k] = "done" /\ result[k] = "LockConflict"
    /\ again[k] + 1 < MaxTries
    /\ again' = [again EXCEPT ![k] = @ + 1]
    /\ Goto(k, "idle")
    /\ result' = [result EXCEPT ![k] = "none"]
    /\ UNCHANGED <<path, data, flock, l1, fd, tries, print, value, late,
                   outside, edits, mishaps, saved>>

\* A bot process dies: the kernel closes its files, which frees its flocks,
\* and no caller of it repeats anything.
Crash(b) ==
    LET gone == {k \in Calls : BotOf[k] = b /\
                (at[k] \notin {"idle", "done"} \/ result[k] = "LockConflict")} IN
    /\ mishaps < MaxMishaps
    /\ gone # {}
    /\ mishaps' = mishaps + 1
    /\ at' = [k \in Calls |-> IF k \in gone THEN "done" ELSE at[k]]
    /\ result' = [k \in Calls |-> IF k \in gone THEN "died" ELSE result[k]]
    /\ flock' = [i \in Inodes |-> flock[i] \ gone]
    /\ fd' = [k \in Calls |-> IF k \in gone THEN NoInode ELSE fd[k]]
    /\ l1' = [l1 EXCEPT ![b] = <<>>]
    /\ print' = [k \in Calls |-> IF k \in gone THEN Blank("empty") ELSE print[k]]
    /\ value' = [k \in Calls |-> IF k \in gone THEN {} ELSE value[k]]
    /\ late' = [k \in Calls |-> late[k] /\ k \notin gone]
    /\ tries' = [k \in Calls |-> IF k \in gone THEN 0 ELSE tries[k]]
    /\ again' = [k \in Calls |-> IF k \in gone THEN 0 ELSE again[k]]
    /\ UNCHANGED <<path, data, outside, edits, saved>>
-----------------------------------------------------------------------------
(* The other writer (external): the Claude CLI or a user's editor. *)

\* No fingerprint of an open file shows that the path was renamed over.
Renamed == [k \in Calls |-> late[k] \/ at[k] \in Verified]

\* An edit in place that makes c of the file changes its hash, if the second
\* one is yet to come and c is not what the first one was taken of.
Overwritten(c) == [k \in Calls |->
    \/ late[k] \/ at[k] \in {"write", "backup"}
    \/ at[k] = "recheck" /\ c = print[k] /\ value[k] # c.rules \cup Want[k]]

OutsideRead ==
    /\ outside = Quiet
    /\ edits < MaxEdits
    /\ path # NoInode
    /\ data[path].kind = "json"
    /\ outside' = [do |-> "edit", inode |-> NoInode, saw |-> data[path].rules]
    /\ edits' = edits + 1
    /\ UNCHANGED <<path, data, flock, l1, at, fd, tries, print, value, result,
                   late, mishaps, saved, again>>

\* It renames its version over the path, as vim does.
OutsideRename ==
    /\ outside.do = "edit"
    /\ path' = NewInode
    /\ \E c \in {Json(outside.saw \cup Foreign), Blank("odd")} :
          /\ data' = [data EXCEPT ![NewInode] = c]
          /\ saved' = saved \cap c.rules
    /\ late' = Renamed
    /\ outside' = Quiet
    /\ UNCHANGED <<flock, l1, at, fd, tries, print, value, result, edits, mishaps, again>>

\* It truncates the file in place, and writes it in a second step.
OutsideTruncate ==
    /\ outside.do = "edit"
    /\ path # NoInode
    /\ \E t \in {"empty", "torn"} :
          /\ data' = [data EXCEPT ![path] = Blank(t)]
          /\ late' = Overwritten(Blank(t))
    /\ outside' = [outside EXCEPT !.do = "write", !.inode = path]
    /\ saved' = {}
    /\ UNCHANGED <<path, flock, l1, at, fd, tries, print, value, result, edits, mishaps, again>>

OutsideWrite ==
    /\ outside.do = "write"
    /\ data' = [data EXCEPT ![outside.inode] = Json(outside.saw \cup Foreign)]
    /\ outside' = Quiet
    /\ late' = IF outside.inode = path THEN Overwritten(data'[path]) ELSE late
    /\ saved' = IF outside.inode = path
                THEN saved \cap (outside.saw \cup Foreign) ELSE saved
    /\ UNCHANGED <<path, flock, l1, at, fd, tries, print, value, result, edits, mishaps, again>>

OutsideStep == OutsideRead \/ OutsideRename \/ OutsideTruncate \/ OutsideWrite
-----------------------------------------------------------------------------
CallStep(k) ==
    \/ Open(k) \/ TakeFlock(k) \/ FlockTimeout(k) \/ Verify(k)
    \/ Fingerprint(k) \/ Read(k) \/ SetAside(k)
    \/ Recheck(k) \/ Reread(k) \/ Rename(k) \/ Finish(k)

EditorNext ==
    \/ \E k \in Calls : Ask(k) \/ CallStep(k) \/ Retry(k) \/ IoError(k)
    \/ \E b \in Bots : Crash(b)
    \/ OutsideStep

EditorSpec == EditorInit /\ [][EditorNext]_editorVars
-----------------------------------------------------------------------------
EditorTypeOK ==
    /\ path \in Inodes \cup {NoInode}
    /\ data \in [Inodes -> Contents]
    /\ flock \in [Inodes -> SUBSET Calls]
    /\ l1 \in [Bots -> Seq(Calls)]
    /\ at \in [Calls -> Verified \cup {"idle", "open", "flock", "verify",
                                       "sync", "done"}]
    /\ fd \in [Calls -> Inodes \cup {NoInode}]
    /\ tries \in [Calls -> 0..2]
    /\ print \in [Calls -> Contents]
    /\ value \in [Calls -> SUBSET Rules]
    /\ result \in [Calls -> Success \cup Failure \cup {"none"}]
    /\ again \in [Calls -> 0..(MaxTries - 1)]
    /\ late \in [Calls -> BOOLEAN]
    /\ outside \in [do : {"idle", "edit", "write"},
                    inode : Inodes \cup {NoInode}, saw : SUBSET Rules]
    /\ edits \in Nat /\ mishaps \in Nat
    /\ saved \in SUBSET Rules

\* A rule that "Always Allow" wrote stays in the settings file until an outside
\* edit removes it, or a call that an outside edit crossed unnoticed overwrites
\* it: no call of either bot ever undoes another's.
SavedRulesStay == saved \subseteq Current.rules

\* What a call has open while it edits is what the path names, unless somebody
\* outside the locks renamed over it: the flock then guards the wrong file.
EditsTheCurrentFile ==
    \A k \in Calls : at[k] \in Verified /\ ~late[k] => fd[k] = path

\* Where a call is between the inode check and the rename, as SettingsFile sees it.
callState == [k \in Calls |->
    IF at[k] \in Verified THEN "in"
    ELSE IF at[k] = "sync" \/ (at[k] = "done" /\ result[k] \in Success)
         THEN "added" ELSE "out"]

File == INSTANCE SettingsFile WITH
            Callers <- Calls, file <- Current, call <- callState,
            crossed <- [k \in Calls |-> late[k] /\ callState[k] = "in"]

\* Locks, inode check, fingerprints and rename add up to one atomic addition.
EditorRefinesFile == File!Spec

\* Every call that started returns, so that again and again none is under way
\* (a call is repeated MaxTries times at most): no wait of the editor is endless.
EveryCallReturns == []<>(\A k \in Calls : at[k] \in {"idle", "done"})
=============================================================================
