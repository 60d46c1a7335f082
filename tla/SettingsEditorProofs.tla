------------------------ MODULE SettingsEditorProofs ------------------------
(***************************************************************************)
(* The editor implements SettingsFile for any number of calls, processes,  *)
(* outside edits and failures: between its inode check and its rename a    *)
(* call is alone with the file, or has been crossed by an outside edit.    *)
(*                                                                         *)
(* CallInd says what a call may rely on at each of its steps.  What carries *)
(* it is that two calls that edit the file the path names would both hold  *)
(* the flock of one inode; a call that was crossed may hold another one.   *)
(***************************************************************************)
EXTENDS SettingsEditor, FiniteSetTheorems, FunctionTheorems, TLAPS

Places == Verified \cup {"idle", "open", "flock", "verify", "sync", "done"}
Outcomes == Success \cup Failure \cup {"none"}

EditorTypes ==
  /\ path \in Inodes \cup {NoInode}
  /\ data \in [Inodes -> Contents]
  /\ flock \in [Inodes -> SUBSET Calls]
  /\ l1 \in [Bots -> Seq(Calls)]
  /\ at \in [Calls -> Places]
  /\ fd \in [Calls -> Inodes \cup {NoInode}]
  /\ print \in [Calls -> Contents]
  /\ value \in [Calls -> SUBSET Rules]
  /\ result \in [Calls -> Outcomes]
  /\ late \in [Calls -> BOOLEAN]
  /\ outside \in [do : {"idle", "edit", "write"},
                  inode : Inodes \cup {NoInode}, saw : SUBSET Rules]
  /\ outside.do = "write" => outside.inode \in Inodes

OneHolder == \A i \in Inodes : \A j, k \in flock[i] : j = k

\* What call k may rely on.
CallInd(k) ==
  /\ at[k] \in Verified \cup {"flock", "verify", "sync"} =>
       fd[k] \in Inodes /\ l1[BotOf[k]] # <<>> /\ Head(l1[BotOf[k]]) = k
  /\ at[k] \in Verified \cup {"verify"} => k \in flock[fd[k]]
  /\ late[k] => at[k] \in Verified
  /\ at[k] \in Verified /\ ~late[k] => fd[k] = path
  /\ at[k] = "backup" /\ ~late[k] => data[fd[k]].kind \in {"torn", "empty"}
  /\ at[k] \in {"recheck", "write"} => Want[k] \subseteq value[k]
  /\ at[k] \in {"recheck", "write", "sync"} => result[k] \in Success
  /\ at[k] = "recheck" /\ ~late[k] /\ data[fd[k]] = print[k] =>
       value[k] = data[fd[k]].rules \cup Want[k]
  /\ at[k] = "write" /\ ~late[k] => value[k] = data[fd[k]].rules \cup Want[k]

EditorInd == EditorTypes /\ OneHolder /\ \A k \in Calls : CallInd(k)

Crossed == [k \in Calls |-> late[k] /\ callState[k] = "in"]
-----------------------------------------------------------------------------
\* A set grows by one element at most.
LEMMA OneMore ==
  ASSUME NEW S, NEW x, IsFiniteSet(S)
  PROVE  IsFiniteSet(S \cup {x}) /\ Cardinality(S \cup {x}) <= Cardinality(S) + 1
<1>1. Cardinality(S) \in Nat  BY FS_CardinalityType
<1>. QED  BY <1>1, FS_AddElement

\* The kernel always has an inode to give.
LEMMA InodeIsFree ==
  ASSUME EditorTypes
  PROVE  NewInode \in Inodes /\ FreeInode(NewInode)
<1>. DEFINE used == {path, outside.inode} \cup {fd[k] : k \in Calls}
<1>1. \E i \in Inodes : FreeInode(i)
  <2>1. SUFFICES ASSUME \A i \in Inodes : ~FreeInode(i) PROVE FALSE
    OBVIOUS
  <2>2. Inodes \in SUBSET used
    BY <2>1 DEF FreeInode
  <2>. DEFINE fds == {fd[k] : k \in Calls}
  <2>3. IsFiniteSet(fds) /\ Cardinality(fds) <= Cardinality(Calls)
    <3>1. fd \in Surjection(Calls, fds)
      BY Fun_IsSurj DEF EditorTypes
    <3>. QED  BY <3>1, FS_Surjection, EditorAssumption
  <2>. HIDE DEF fds
  <2>4. IsFiniteSet(fds \cup {path}) /\ Cardinality(fds \cup {path}) <= Cardinality(fds) + 1
    BY <2>3, OneMore
  <2>5. /\ IsFiniteSet((fds \cup {path}) \cup {outside.inode})
        /\ Cardinality((fds \cup {path}) \cup {outside.inode}) <= Cardinality(fds \cup {path}) + 1
    BY <2>4, OneMore
  <2>6. used = (fds \cup {path}) \cup {outside.inode}
    BY DEF fds
  <2>. HIDE DEF used
  <2>7. IsFiniteSet(Inodes) /\ Cardinality(Inodes) <= Cardinality(used)
    BY <2>2, <2>5, <2>6, FS_Subset
  <2>8. /\ Cardinality(used) \in Nat /\ Cardinality(fds) \in Nat /\ Cardinality(Calls) \in Nat
        /\ Cardinality(fds \cup {path}) \in Nat /\ Cardinality(Inodes) \in Nat
    BY <2>3, <2>4, <2>5, <2>6, <2>7, FS_CardinalityType, EditorAssumption
  <2>9. Cardinality(Inodes) > Cardinality(Calls) + 2
    BY <2>7, EditorAssumption
  <2>. QED  BY <2>3, <2>4, <2>5, <2>6, <2>7, <2>8, <2>9
<1>. QED  BY <1>1 DEF NewInode

\* At first the file is there or not, and nobody works on it.
LEMMA EditorInitial == EditorInit => EditorInd /\ File!Init
<1>. SUFFICES ASSUME EditorInit PROVE EditorInd /\ File!Init  OBVIOUS
<1>. USE DEF EditorInit
<1>1. PICK first \in {NoInode, CHOOSE i \in Inodes : TRUE}, c \in {Json({}), Blank("torn")} :
        path = first /\ data = [i \in Inodes |-> IF i = first THEN c ELSE Blank("empty")]
  OBVIOUS
<1>2. Blank("empty") \in Contents /\ c \in Contents /\ c.kind \in {"json", "torn"} /\ c.rules = {}
  BY DEF Contents, Blank, Json
<1>3. path \in Inodes \cup {NoInode}
  <2>1. Inodes # {}
    <3>1. SUFFICES ASSUME Inodes = {} PROVE FALSE  OBVIOUS
    <3>. QED  BY <3>1, FS_EmptySet, FS_CardinalityType, EditorAssumption
  <2>. QED  BY <1>1, <2>1
<1>4. EditorTypes
  <2>1. outside \in [do : {"idle", "edit", "write"}, inode : Inodes \cup {NoInode}, saw : SUBSET Rules]
        /\ outside.do = "idle"
    BY DEF Quiet
  <2>2. l1 \in [Bots -> Seq(Calls)]  OBVIOUS
  <2>3. late \in [Calls -> BOOLEAN]  OBVIOUS
  <2>4. data \in [Inodes -> Contents]  BY <1>1, <1>2
  <2>. QED  BY <1>2, <1>3, <2>1, <2>2, <2>3, <2>4 DEF EditorTypes, Places, Outcomes
<1>5. OneHolder /\ \A k \in Calls : CallInd(k)
  BY DEF OneHolder, CallInd, Verified
<1>6. File!Init
  <2>1. Current \in File!Files
    BY <1>1, <1>2, <1>3 DEF Current, File!Files, Contents, Blank
  <2>2. callState = [k \in Calls |-> "out"]
    BY DEF callState, Verified
  <2>3. Crossed = [k \in Calls |-> FALSE]
    BY DEF Crossed
  <2>. QED  BY <2>1, <2>2, <2>3 DEF File!Init, Crossed
<1>. QED  BY <1>4, <1>5, <1>6 DEF EditorInd
-----------------------------------------------------------------------------
InCycle == Verified \cup {"flock", "verify", "sync"}
fileVars == <<Current, callState, Crossed>>

\* A step leaves what call j has to itself alone.
Same(j) ==
  /\ at'[j] = at[j] /\ fd'[j] = fd[j] /\ print'[j] = print[j]
  /\ value'[j] = value[j] /\ result'[j] = result[j]

\* Two calls with the flock of one inode are one call.
LEMMA HolderAlone ==
  ASSUME EditorInd, NEW j \in Calls, NEW k \in Calls,
         at[j] \in Verified \cup {"verify"}, at[k] \in Verified \cup {"verify"}, fd[j] = fd[k]
  PROVE  j = k
<1>1. CallInd(j) /\ CallInd(k) /\ OneHolder  BY DEF EditorInd
<1>2. fd[j] \in Inodes /\ j \in flock[fd[j]] /\ k \in flock[fd[j]]  BY <1>1 DEF CallInd
<1>. QED  BY <1>1, <1>2 DEF OneHolder

\* One call of a process at a time is past the mutex of the path.
LEMMA OnePerBot ==
  ASSUME EditorInd, NEW j \in Calls, NEW k \in Calls,
         at[j] \in InCycle, at[k] \in InCycle \/ HoldsL1(k), BotOf[j] = BotOf[k]
  PROVE  j = k
<1>1. CallInd(j) /\ CallInd(k)  BY DEF EditorInd
<1>. QED  BY <1>1 DEF CallInd, InCycle, HoldsL1

\* A call that only sees another one's step: the file it edits is left alone, or it is
\* crossed.
LEMMA Bystander ==
  ASSUME NEW j \in Calls, CallInd(j), Same(j),
         at[j] \in InCycle => l1'[BotOf[j]] # <<>> /\ Head(l1'[BotOf[j]]) = j,
         at[j] \in Verified \cup {"verify"} => j \in flock'[fd[j]],
         late[j] => late'[j], late'[j] => at[j] \in Verified,
         at[j] \in Verified /\ ~late'[j] => path' = path /\ data'[fd[j]] = data[fd[j]]
  PROVE  CallInd(j)'
<1>1. /\ at[j] \in InCycle => fd[j] \in Inodes
      /\ at[j] \in Verified /\ ~late[j] => fd[j] = path
      /\ at[j] = "backup" /\ ~late[j] => data[fd[j]].kind \in {"torn", "empty"}
      /\ at[j] \in {"recheck", "write"} => Want[j] \subseteq value[j]
      /\ at[j] \in {"recheck", "write", "sync"} => result[j] \in Success
      /\ at[j] = "recheck" /\ ~late[j] /\ data[fd[j]] = print[j] =>
           value[j] = data[fd[j]].rules \cup Want[j]
      /\ at[j] = "write" /\ ~late[j] => value[j] = data[fd[j]].rules \cup Want[j]
  BY DEF CallInd, InCycle
<1>2. {"backup", "recheck", "write"} \subseteq Verified  BY DEF Verified
<1>. QED  BY <1>1, <1>2 DEF CallInd, Same, InCycle

\* Outside edits that cross a call are those SettingsFile knows.
LEMMA LateIsCrossed == EditorInd => Crossed = late
<1>. SUFFICES ASSUME EditorInd PROVE Crossed = late  OBVIOUS
<1>1. \A k \in Calls : late[k] => callState[k] = "in"
  BY DEF EditorInd, CallInd, callState
<1>. QED  BY <1>1 DEF EditorInd, EditorTypes, Crossed

\* So it is after a step that kept the invariant.
LEMMA LateIsCrossedNext == ASSUME EditorInd' PROVE Crossed' = late'
<1>1. \A k \in Calls : late'[k] => callState'[k] = "in"
  BY DEF EditorInd, CallInd, callState
<1>. QED  BY <1>1 DEF EditorInd, EditorTypes, Crossed

\* What SettingsFile sees of a call depends on its place and result only.
LEMMA SeenOf ==
  ASSUME NEW j \in Calls
  PROVE  /\ callState[j] = IF at[j] \in Verified THEN "in"
                           ELSE IF at[j] = "sync" \/ (at[j] = "done" /\ result[j] \in Success)
                                THEN "added" ELSE "out"
         /\ callState'[j] = IF at'[j] \in Verified THEN "in"
                            ELSE IF at'[j] = "sync" \/ (at'[j] = "done" /\ result'[j] \in Success)
                                 THEN "added" ELSE "out"
BY DEF callState

\* A step that changes none of the three is a stutter of SettingsFile.
LEMMA Stutter ==
  ASSUME EditorInd, EditorInd', Current' = Current,
         \A j \in Calls : callState'[j] = callState[j] /\ late'[j] = late[j]
  PROVE  UNCHANGED fileVars
<1>1. late' = late
  BY DEF EditorInd, EditorTypes
<1>2. callState' = callState
  BY DEF callState
<1>. QED  BY <1>1, <1>2, LateIsCrossed, LateIsCrossedNext DEF fileVars
-----------------------------------------------------------------------------
(* What a return, a move and a rename change. *)

\* The call that returns has renamed the unreadable file away.
Replaces(k) == at[k] = "backup" /\ path' = NoInode

\* A call that returns leaves the locks to the others, and hands on that it was crossed
\* only when it replaced the path.
LEMMA ReturnEffect ==
  ASSUME EditorInd, NEW k \in Calls, NEW r \in Outcomes, Return(k, r), HoldsL1(k)
  PROVE  /\ flock' \in [Inodes -> SUBSET Calls] /\ l1' \in [Bots -> Seq(Calls)]
         /\ at' \in [Calls -> Places] /\ fd' \in [Calls -> Inodes \cup {NoInode}]
         /\ print' \in [Calls -> Contents] /\ value' \in [Calls -> SUBSET Rules]
         /\ result' \in [Calls -> Outcomes] /\ late' \in [Calls -> BOOLEAN]
         /\ OneHolder' /\ CallInd(k)'
         /\ at'[k] = "done" /\ result'[k] = r /\ ~late'[k]
         /\ \A j \in Calls \ {k} :
              /\ Same(j)
              /\ late'[j] = (late[j] \/ (late[k] /\ Replaces(k) /\ at[j] \in Verified))
              /\ at[j] \in InCycle => l1'[BotOf[j]] # <<>> /\ Head(l1'[BotOf[j]]) = j
              /\ \A i \in Inodes : j \in flock[i] => j \in flock'[i]
<1>. USE DEF Return
<1>1. EditorTypes /\ OneHolder  BY DEF EditorInd
<1>2. flock' \in [Inodes -> SUBSET Calls]
      /\ \A i \in Inodes : flock'[i] = flock[i] \ {k}
  BY <1>1 DEF EditorTypes
<1>3. at' \in [Calls -> Places] /\ fd' \in [Calls -> Inodes \cup {NoInode}]
      /\ print' \in [Calls -> Contents] /\ value' \in [Calls -> SUBSET Rules]
      /\ result' \in [Calls -> Outcomes]
  BY <1>1 DEF EditorTypes, Goto, Places, Contents, Blank
<1>4. late' = Spread(k, Replaces(k))  BY DEF Replaces
<1>5. /\ late' \in [Calls -> BOOLEAN] /\ ~late'[k]
      /\ \A j \in Calls \ {k} :
           late'[j] = (late[j] \/ (late[k] /\ Replaces(k) /\ at[j] \in Verified))
  BY <1>1, <1>4 DEF EditorTypes, Spread
<1>6. at'[k] = "done" /\ result'[k] = r
  BY <1>1 DEF EditorTypes, Goto
<1>7. \A j \in Calls \ {k} : Same(j)
  BY <1>1 DEF EditorTypes, Goto, Same
<1>8. /\ l1' \in [Bots -> Seq(Calls)] /\ \A b \in Bots : b # BotOf[k] => l1'[b] = l1[b]
  <2>1. l1[BotOf[k]] \in Seq(Calls) /\ l1[BotOf[k]] # <<>>
    BY <1>1, EditorAssumption DEF EditorTypes, HoldsL1
  <2>2. Tail(l1[BotOf[k]]) \in Seq(Calls)  BY <2>1
  <2>3. l1' = [l1 EXCEPT ![BotOf[k]] = Tail(l1[BotOf[k]])]  OBVIOUS
  <2>. QED  BY <1>1, <2>2, <2>3 DEF EditorTypes
<1>9. ASSUME NEW j \in Calls \ {k}, at[j] \in InCycle
      PROVE  l1'[BotOf[j]] # <<>> /\ Head(l1'[BotOf[j]]) = j
  <2>1. BotOf[j] # BotOf[k] /\ BotOf[j] \in Bots
    BY <1>9, OnePerBot, EditorAssumption
  <2>2. CallInd(j)  BY DEF EditorInd
  <2>. QED  BY <1>8, <1>9, <2>1, <2>2 DEF CallInd, InCycle
<1>10. OneHolder'  BY <1>1, <1>2 DEF OneHolder
<1>11. CallInd(k)'  BY <1>5, <1>6 DEF CallInd, Verified
<1>. QED  BY <1>2, <1>3, <1>5, <1>6, <1>7, <1>8, <1>9, <1>10, <1>11

\* A return that touches no file: the invariant holds after it.
LEMMA ReturnKeeps ==
  ASSUME EditorInd, NEW k \in Calls, NEW r \in Outcomes, Return(k, r), HoldsL1(k),
         ~Replaces(k), UNCHANGED <<path, data, outside>>
  PROVE  EditorInd' /\ Current' = Current
<1>1. EditorTypes /\ \A j \in Calls : CallInd(j)  BY DEF EditorInd
<1>2. EditorTypes'
  BY <1>1, ReturnEffect DEF EditorTypes
<1>3. ASSUME NEW j \in Calls \ {k} PROVE CallInd(j)'
  <2>1. /\ Same(j) /\ late'[j] = late[j]
        /\ at[j] \in InCycle => l1'[BotOf[j]] # <<>> /\ Head(l1'[BotOf[j]]) = j
        /\ \A i \in Inodes : j \in flock[i] => j \in flock'[i]
    BY <1>1, ReturnEffect DEF EditorTypes
  <2>2. at[j] \in Verified \cup {"verify"} => j \in flock'[fd[j]]
    BY <1>1, <2>1 DEF CallInd
  <2>3. late[j] => at[j] \in Verified  BY <1>1 DEF CallInd
  <2>. QED  BY <1>1, <2>1, <2>2, <2>3, Bystander
<1>. QED  BY <1>2, <1>3, ReturnEffect DEF EditorInd, Current

\* One call changes its place and the others keep theirs.
LEMMA CallMoves ==
  ASSUME NEW k \in Calls, NEW c, callState'[k] = c,
         \A j \in Calls \ {k} : callState'[j] = callState[j]
  PROVE  callState' = [callState EXCEPT ![k] = c]
BY DEF callState

\* A return without a success is a call of SettingsFile that gives up, or one that
\* never got to the file; after a rename it is an addition that is not confirmed.
LEMMA ReturnRefines ==
  ASSUME EditorInd, NEW k \in Calls, NEW r \in Outcomes, Return(k, r), HoldsL1(k),
         ~Replaces(k), UNCHANGED <<path, data, outside>>,
         at[k] \notin {"idle", "done"}, at[k] = "sync" \/ r \notin Success
  PROVE  EditorInd' /\ [File!Next]_fileVars
<1>1. EditorInd' /\ Current' = Current  BY ReturnKeeps
<1>2. at'[k] = "done" /\ result'[k] = r /\ ~late'[k]
      /\ \A j \in Calls \ {k} : Same(j) /\ late'[j] = late[j]
  BY ReturnEffect DEF EditorInd, EditorTypes
<1>3. /\ callState'[k] = IF r \in Success THEN "added" ELSE "out"
      /\ \A j \in Calls \ {k} : callState'[j] = callState[j]
  BY <1>2, SeenOf DEF Same, Verified
<1>4. Crossed = late /\ Crossed' = late'
  BY <1>1, LateIsCrossed, LateIsCrossedNext
<1>5. /\ late \in [Calls -> BOOLEAN] /\ late' \in [Calls -> BOOLEAN] /\ CallInd(k)
  BY <1>1 DEF EditorInd, EditorTypes
<1>6. CASE at[k] \in Verified
  <2>1. callState[k] = "in" /\ callState'[k] = "out"
    BY <1>3, <1>6, SeenOf DEF Verified
  <2>2. callState' = [callState EXCEPT ![k] = "out"]
    BY <1>3, <2>1, CallMoves
  <2>3. late' = [j \in Calls |-> j # k /\ (late[j] \/ (late[k] /\ FALSE /\ callState[j] = "in"))]
    BY <1>2, <1>5
  <2>4. File!Leave(k, "out", FALSE)
    BY <1>4, <2>2, <2>3 DEF File!Leave, Crossed
  <2>5. File!GiveUp(k)
    BY <1>1, <2>1, <2>4 DEF File!GiveUp
  <2>. QED  BY <1>1, <2>5 DEF File!Next
<1>7. CASE at[k] = "sync" /\ r \notin Success
  <2>1. callState[k] = "added" /\ callState'[k] = "out"
    BY <1>3, <1>7, SeenOf DEF Verified
  <2>2. callState' = [callState EXCEPT ![k] = "out"]
    BY <1>3, <2>1, CallMoves
  <2>3. ~late[k]  BY <1>5, <1>7 DEF CallInd, Verified
  <2>4. late' = late  BY <1>2, <1>5, <2>3
  <2>5. File!Unconfirmed(k)
    BY <1>1, <1>4, <2>1, <2>2, <2>4 DEF File!Unconfirmed, Crossed
  <2>. QED  BY <1>1, <2>5 DEF File!Next
<1>8. CASE at[k] \notin Verified /\ (at[k] = "sync" => r \in Success)
  <2>1. ~late[k]  BY <1>5, <1>8 DEF CallInd
  <2>2. callState'[k] = callState[k]
    <3>1. at[k] \in Places  BY DEF EditorInd, EditorTypes
    <3>. QED  BY <1>3, <1>8, <3>1, SeenOf DEF Places
  <2>3. \A j \in Calls : callState'[j] = callState[j] /\ late'[j] = late[j]
    BY <1>2, <1>3, <1>5, <2>1, <2>2
  <2>4. UNCHANGED fileVars  BY <1>1, <2>3, Stutter
  <2>. QED  BY <1>1, <2>4
<1>. QED  BY <1>6, <1>7, <1>8
-----------------------------------------------------------------------------
(* The way to the file. *)

\* Steps of call k that leave the locks and the files of the others alone.
LEMMA OthersKeep ==
  ASSUME EditorInd, NEW k \in Calls, EditorTypes', OneHolder', CallInd(k)',
         \A j \in Calls \ {k} :
           /\ Same(j) /\ late'[j] = late[j]
           /\ at[j] \in InCycle => l1'[BotOf[j]] # <<>> /\ Head(l1'[BotOf[j]]) = j
           /\ \A i \in Inodes : j \in flock[i] => j \in flock'[i]
           /\ at[j] \in Verified /\ ~late[j] => path' = path /\ data'[fd[j]] = data[fd[j]]
  PROVE  EditorInd'
<1>1. ASSUME NEW j \in Calls \ {k} PROVE CallInd(j)'
  <2>1. CallInd(j)  BY DEF EditorInd
  <2>2. at[j] \in Verified \cup {"verify"} => j \in flock'[fd[j]]
    BY <2>1 DEF CallInd
  <2>3. late[j] => at[j] \in Verified  BY <2>1 DEF CallInd
  <2>. QED  BY <2>1, <2>2, <2>3, Bystander
<1>. QED  BY <1>1 DEF EditorInd

\* A call asks for the mutex: it goes to the end of the line.
LEMMA AskRefines ==
  ASSUME EditorInd, NEW k \in Calls, Ask(k)
  PROVE  EditorInd' /\ [File!Next]_fileVars
<1>. USE DEF Ask, Goto
<1>1. EditorTypes /\ OneHolder /\ CallInd(k)  BY DEF EditorInd
<1>2. \A s \in Seq(Calls) : /\ Append(s, k) \in Seq(Calls) /\ Append(s, k) # <<>>
                            /\ s # <<>> => Head(Append(s, k)) = Head(s)
  OBVIOUS
<1>3. l1' \in [Bots -> Seq(Calls)]
      /\ \A b \in Bots : l1[b] # <<>> => l1'[b] # <<>> /\ Head(l1'[b]) = Head(l1[b])
  <2>1. l1' = [l1 EXCEPT ![BotOf[k]] = Append(l1[BotOf[k]], k)]  OBVIOUS
  <2>2. BotOf[k] \in Bots /\ l1[BotOf[k]] \in Seq(Calls)
    BY <1>1, EditorAssumption DEF EditorTypes
  <2>3. l1' \in [Bots -> Seq(Calls)]  BY <1>1, <1>2, <2>1, <2>2 DEF EditorTypes
  <2>4. ASSUME NEW b \in Bots, l1[b] # <<>> PROVE l1'[b] # <<>> /\ Head(l1'[b]) = Head(l1[b])
    <3>1. l1'[b] = IF b = BotOf[k] THEN Append(l1[b], k) ELSE l1[b]
      BY <1>1, <2>1 DEF EditorTypes
    <3>. QED  BY <1>2, <2>2, <2>4, <3>1
  <2>. QED  BY <2>3, <2>4
<1>4. at' \in [Calls -> Places] /\ at'[k] = "open"
      /\ \A j \in Calls \ {k} : Same(j)
  BY <1>1 DEF EditorTypes, Places, Same
<1>5. EditorTypes' /\ OneHolder' /\ CallInd(k)'
  <2>1. EditorTypes'  BY <1>1, <1>3, <1>4 DEF EditorTypes
  <2>2. OneHolder'  BY <1>1 DEF OneHolder
  <2>3. ~late[k]  BY <1>1 DEF CallInd, Verified
  <2>4. CallInd(k)'  BY <1>4, <2>3 DEF CallInd, Verified
  <2>. QED  BY <2>1, <2>2, <2>4
<1>6. ASSUME NEW j \in Calls \ {k}, at[j] \in InCycle
      PROVE  l1'[BotOf[j]] # <<>> /\ Head(l1'[BotOf[j]]) = j
  BY <1>3, <1>6, EditorAssumption DEF EditorInd, CallInd, InCycle
<1>7. EditorInd'
  <2>1. UNCHANGED <<path, data, flock, late>>  OBVIOUS
  <2>. QED  BY <1>4, <1>5, <1>6, <2>1, OthersKeep
<1>8. \A j \in Calls : callState'[j] = callState[j] /\ late'[j] = late[j]
  BY <1>4, SeenOf DEF Same, Verified
<1>9. Current' = Current  BY DEF Current
<1>10. UNCHANGED fileVars  BY <1>7, <1>8, <1>9, Stutter
<1>. QED  BY <1>7, <1>10

\* The open that finds no file makes one: the Create of SettingsFile.
LEMMA OpenRefines ==
  ASSUME EditorInd, NEW k \in Calls, Open(k)
  PROVE  EditorInd' /\ [File!Next]_fileVars
<1>. USE DEF Open, Goto
<1>1. EditorTypes /\ OneHolder /\ CallInd(k)  BY DEF EditorInd
<1>2. at' \in [Calls -> Places] /\ at'[k] = "flock" /\ at[k] = "open"
      /\ \A j \in Calls \ {k} : at'[j] = at[j]
  BY <1>1 DEF EditorTypes, Places, MayOpen
<1>3. NewInode \in Inodes /\ FreeInode(NewInode)  BY <1>1, InodeIsFree
<1>4. \E i \in Inodes :
        /\ fd' = [fd EXCEPT ![k] = i] /\ path' = i
        /\ \/ path = i /\ data' = data
           \/ path = NoInode /\ FreeInode(i) /\ data' = [data EXCEPT ![i] = Blank("empty")]
  BY <1>1, <1>3 DEF EditorTypes
<1>5. PICK i \in Inodes :
        /\ fd' = [fd EXCEPT ![k] = i] /\ path' = i
        /\ \/ path = i /\ data' = data
           \/ path = NoInode /\ FreeInode(i) /\ data' = [data EXCEPT ![i] = Blank("empty")]
  BY <1>4
<1>6. fd' \in [Calls -> Inodes \cup {NoInode}] /\ fd'[k] = i
      /\ \A j \in Calls \ {k} : fd'[j] = fd[j]
  BY <1>1, <1>5 DEF EditorTypes
<1>7. /\ UNCHANGED <<flock, l1, print, value, result, late, outside>> /\ HoldsL1(k)
      /\ \A j \in Calls \ {k} : Same(j)
  BY <1>2, <1>6 DEF Same, MayOpen
<1>. HIDE DEF Open
<1>8. Blank("empty") \in Contents  BY DEF Blank, Contents
<1>9. EditorTypes' /\ OneHolder'
  <2>1. data' \in [Inodes -> Contents]  BY <1>1, <1>5, <1>8 DEF EditorTypes
  <2>2. OneHolder'  BY <1>1, <1>7 DEF OneHolder
  <2>. QED  BY <1>1, <1>2, <1>5, <1>6, <1>7, <2>1, <2>2 DEF EditorTypes
<1>10. ~late[k] /\ CallInd(k)'
  <2>1. ~late[k]  BY <1>1, <1>2 DEF CallInd, Verified
  <2>. QED  BY <1>2, <1>6, <1>7, <2>1 DEF CallInd, Verified, HoldsL1
<1>11. ASSUME NEW j \in Calls \ {k}, at[j] \in Verified, ~late[j]
       PROVE  path' = path /\ data'[fd[j]] = data[fd[j]]
  <2>1. fd[j] = path /\ fd[j] \in Inodes  BY <1>11 DEF EditorInd, CallInd
  <2>. QED  BY <1>5, <2>1, EditorAssumption
<1>12. EditorInd'
  <2>1. \A j \in Calls \ {k} : at[j] \in InCycle => l1'[BotOf[j]] # <<>> /\ Head(l1'[BotOf[j]]) = j
    BY <1>7 DEF EditorInd, CallInd, InCycle
  <2>. QED  BY <1>7, <1>9, <1>10, <1>11, <2>1, OthersKeep
<1>13. \A j \in Calls : callState'[j] = callState[j] /\ late'[j] = late[j]
  BY <1>2, <1>7, SeenOf DEF Same, Verified
<1>14. CASE path = i /\ data' = data
  <2>1. Current' = Current  BY <1>5, <1>14 DEF Current
  <2>2. UNCHANGED fileVars  BY <1>12, <1>13, <2>1, Stutter
  <2>. QED  BY <1>12, <2>2
<1>15. CASE path = NoInode /\ data' = [data EXCEPT ![i] = Blank("empty")]
  <2>1. Current = File!NoFile  BY <1>15 DEF Current, File!NoFile, Blank
  <2>2. Current' = [kind |-> "empty", rules |-> {}]
    BY <1>1, <1>5, <1>15, EditorAssumption DEF Current, Blank, EditorTypes
  <2>3. callState' = callState /\ late' = late
    BY <1>7, <1>13 DEF callState
  <2>4. Crossed' = Crossed  BY <1>12, <2>3, LateIsCrossed, LateIsCrossedNext
  <2>5. File!Create  BY <2>1, <2>2, <2>3, <2>4 DEF File!Create, Crossed
  <2>. QED  BY <1>12, <2>5 DEF File!Next
<1>. QED  BY <1>5, <1>14, <1>15

\* The lock is taken when nobody has it, so one call has it.
LEMMA FlockRefines ==
  ASSUME EditorInd, NEW k \in Calls, TakeFlock(k)
  PROVE  EditorInd' /\ [File!Next]_fileVars
<1>. USE DEF TakeFlock, Goto
<1>1. EditorTypes /\ OneHolder /\ CallInd(k)  BY DEF EditorInd
<1>2. fd[k] \in Inodes /\ ~late[k] /\ flock[fd[k]] = {}
  BY <1>1 DEF CallInd, Verified
<1>3. flock' \in [Inodes -> SUBSET Calls] /\ flock'[fd[k]] = {k}
      /\ \A i \in Inodes : i # fd[k] => flock'[i] = flock[i]
  BY <1>1, <1>2 DEF EditorTypes
<1>4. at' \in [Calls -> Places] /\ at'[k] = "verify" /\ \A j \in Calls \ {k} : Same(j)
  BY <1>1 DEF EditorTypes, Places, Same
<1>5. UNCHANGED <<path, data, l1, fd, print, value, result, late, outside>>  OBVIOUS
<1>6. EditorTypes' /\ OneHolder' /\ CallInd(k)'
  <2>1. EditorTypes'  BY <1>1, <1>3, <1>4, <1>5 DEF EditorTypes
  <2>2. OneHolder'  BY <1>1, <1>3 DEF OneHolder
  <2>3. CallInd(k)'  BY <1>1, <1>2, <1>3, <1>4, <1>5 DEF CallInd, Verified
  <2>. QED  BY <2>1, <2>2, <2>3
<1>7. EditorInd'
  <2>1. \A j \in Calls \ {k} : at[j] \in InCycle => l1'[BotOf[j]] # <<>> /\ Head(l1'[BotOf[j]]) = j
    BY <1>5 DEF EditorInd, CallInd, InCycle
  <2>2. \A j \in Calls \ {k} : \A i \in Inodes : j \in flock[i] => j \in flock'[i]
    BY <1>2, <1>3
  <2>. QED  BY <1>4, <1>5, <1>6, <2>1, <2>2, OthersKeep
<1>8. \A j \in Calls : callState'[j] = callState[j] /\ late'[j] = late[j]
  BY <1>4, <1>5, SeenOf DEF Same, Verified
<1>9. Current' = Current  BY <1>5 DEF Current
<1>10. UNCHANGED fileVars  BY <1>7, <1>8, <1>9, Stutter
<1>. QED  BY <1>7, <1>10

\* A step of a call that holds its place in the line and changes at, print, value and
\* result of itself only.
LEMMA MoveKeeps ==
  ASSUME EditorInd, NEW k \in Calls, at[k] \in Verified \cup {"verify"},
         NEW p \in Places, at' = [at EXCEPT ![k] = p],
         print' \in [Calls -> Contents], value' \in [Calls -> SUBSET Rules],
         result' \in [Calls -> Outcomes],
         \A j \in Calls \ {k} : print'[j] = print[j] /\ value'[j] = value[j] /\ result'[j] = result[j],
         UNCHANGED <<path, data, flock, l1, fd, late, outside>>, CallInd(k)'
  PROVE  EditorInd' /\ Current' = Current
<1>1. EditorTypes /\ OneHolder /\ CallInd(k)  BY DEF EditorInd
<1>2. at' \in [Calls -> Places] /\ \A j \in Calls \ {k} : Same(j)
  BY <1>1 DEF EditorTypes, Same
<1>3. EditorTypes' /\ OneHolder'
  BY <1>1, <1>2 DEF EditorTypes, OneHolder
<1>4. \A j \in Calls \ {k} : at[j] \in InCycle => l1'[BotOf[j]] # <<>> /\ Head(l1'[BotOf[j]]) = j
  BY DEF EditorInd, CallInd, InCycle
<1>5. EditorInd'  BY <1>2, <1>3, <1>4, OthersKeep
<1>. QED  BY <1>5 DEF Current

\* The inode check: a call that passes it edits the file the path names.
LEMMA VerifyRefines ==
  ASSUME EditorInd, NEW k \in Calls, Verify(k)
  PROVE  EditorInd' /\ [File!Next]_fileVars
<1>1. EditorTypes /\ OneHolder /\ CallInd(k)  BY DEF EditorInd
<1>2. at[k] = "verify" /\ ~late[k] /\ fd[k] \in Inodes
      /\ l1[BotOf[k]] # <<>> /\ Head(l1[BotOf[k]]) = k /\ k \in flock[fd[k]]
  BY <1>1 DEF Verify, SameInode, StaleInode, CallInd, Verified
<1>3. CASE SameInode(k)
  <2>. USE <1>3 DEF SameInode, Goto
  <2>1. at' = [at EXCEPT ![k] = "fingerprint"] /\ at'[k] = "fingerprint" /\ "fingerprint" \in Places
    BY <1>1 DEF EditorTypes, Places, Verified
  <2>2. CallInd(k)'  BY <1>2, <2>1 DEF CallInd, Verified
  <2>3. EditorInd' /\ Current' = Current
    BY <1>1, <1>2, <2>1, <2>2, MoveKeeps DEF EditorTypes
  <2>4. callState[k] = "out" /\ callState'[k] = "in"
    BY <1>2, <2>1, SeenOf DEF Verified
  <2>5. \A j \in Calls \ {k} : callState'[j] = callState[j]
    BY <1>1, <2>1, SeenOf DEF EditorTypes
  <2>6. callState' = [callState EXCEPT ![k] = "in"]  BY <2>4, <2>5, CallMoves
  <2>7. Crossed' = Crossed  BY <2>3, LateIsCrossed, LateIsCrossedNext
  <2>8. File!Enter(k)  BY <2>3, <2>4, <2>6, <2>7 DEF File!Enter, Crossed
  <2>. QED  BY <2>3, <2>8 DEF File!Next
<1>4. CASE StaleInode(k) /\ at' = [at EXCEPT ![k] = "open"]
  <2>. USE <1>4 DEF StaleInode
  <2>1. ~Return(k, "LockConflict")
    BY <1>1 DEF Return, Goto, EditorTypes
  <2>2. /\ flock' = [flock EXCEPT ![fd[k]] = flock[fd[k]] \ {k}]
        /\ fd' = [fd EXCEPT ![k] = NoInode] /\ at' = [at EXCEPT ![k] = "open"]
        /\ UNCHANGED <<path, data, l1, print, value, result, late, outside>>
    BY <2>1 DEF Goto
  <2>3. /\ flock' \in [Inodes -> SUBSET Calls] /\ \A i \in Inodes : flock'[i] \subseteq flock[i]
        /\ \A j \in Calls \ {k} : \A i \in Inodes : j \in flock[i] => j \in flock'[i]
    BY <1>1, <1>2, <2>2 DEF EditorTypes
  <2>4. fd' \in [Calls -> Inodes \cup {NoInode}] /\ at' \in [Calls -> Places] /\ at'[k] = "open"
        /\ \A j \in Calls \ {k} : Same(j)
    BY <1>1, <2>2 DEF EditorTypes, Places, Same
  <2>5. EditorTypes' /\ OneHolder' /\ CallInd(k)'
    <3>1. EditorTypes'  BY <1>1, <2>2, <2>3, <2>4 DEF EditorTypes
    <3>2. OneHolder'  BY <1>1, <2>3 DEF OneHolder
    <3>3. CallInd(k)'  BY <1>2, <2>2, <2>4 DEF CallInd, Verified
    <3>. QED  BY <3>1, <3>2, <3>3
  <2>6. \A j \in Calls \ {k} : at[j] \in InCycle => l1'[BotOf[j]] # <<>> /\ Head(l1'[BotOf[j]]) = j
    BY <2>2 DEF EditorInd, CallInd, InCycle
  <2>7. EditorInd'
    BY <2>2, <2>3, <2>4, <2>5, <2>6, OthersKeep
  <2>8. \A j \in Calls : callState'[j] = callState[j] /\ late'[j] = late[j]
    BY <1>2, <2>2, <2>4, SeenOf DEF Same, Verified
  <2>9. Current' = Current  BY <2>2 DEF Current
  <2>10. UNCHANGED fileVars  BY <2>7, <2>8, <2>9, Stutter
  <2>. QED  BY <2>7, <2>10
<1>5. CASE StaleInode(k) /\ Return(k, "LockConflict")
  <2>1. UNCHANGED <<path, data, outside>> /\ HoldsL1(k) /\ ~Replaces(k)
    BY <1>2, <1>5 DEF StaleInode, HoldsL1, Replaces
  <2>2. "LockConflict" \in Outcomes /\ "LockConflict" \notin Success
    BY DEF Outcomes, Success, Failure
  <2>. QED  BY <1>2, <1>5, <2>1, <2>2, ReturnRefines
<1>6. StaleInode(k) => at' = [at EXCEPT ![k] = "open"] \/ Return(k, "LockConflict")
  BY DEF StaleInode, Goto
<1>. QED  BY <1>3, <1>4, <1>5, <1>6 DEF Verify
-----------------------------------------------------------------------------
(* The read-modify-write cycle. *)

\* The first fingerprint: an empty file gets its braces, through the file that is open.
LEMMA FingerprintRefines ==
  ASSUME EditorInd, NEW k \in Calls, Fingerprint(k)
  PROVE  EditorInd' /\ [File!Next]_fileVars
<1>. USE DEF Fingerprint, Goto
<1>1. EditorTypes /\ OneHolder /\ CallInd(k)  BY DEF EditorInd
<1>2. at[k] = "fingerprint" /\ fd[k] \in Inodes /\ data[fd[k]] \in Contents
      /\ (~late[k] => fd[k] = path)
  BY <1>1 DEF CallInd, Verified, EditorTypes
<1>. DEFINE now == IF data[fd[k]].kind = "empty" THEN Json({}) ELSE data[fd[k]]
<1>3. now \in Contents  BY <1>2 DEF Contents, Json
<1>4. /\ data' = [data EXCEPT ![fd[k]] = now] /\ print' = [print EXCEPT ![k] = now]
      /\ at' = [at EXCEPT ![k] = "read"]
      /\ UNCHANGED <<path, flock, l1, fd, value, result, late, outside>>
  OBVIOUS
<1>. HIDE DEF now, Fingerprint
<1>5. /\ at' \in [Calls -> Places] /\ at'[k] = "read" /\ data' \in [Inodes -> Contents]
      /\ print' \in [Calls -> Contents] /\ \A j \in Calls \ {k} : Same(j)
  BY <1>1, <1>3, <1>4 DEF EditorTypes, Places, Verified, Same
<1>6. EditorTypes' /\ OneHolder' /\ CallInd(k)'
  <2>1. EditorTypes'  BY <1>1, <1>4, <1>5 DEF EditorTypes
  <2>2. OneHolder'  BY <1>1, <1>4 DEF OneHolder
  <2>3. CallInd(k)'  BY <1>1, <1>2, <1>4, <1>5 DEF CallInd, Verified
  <2>. QED  BY <2>1, <2>2, <2>3
<1>7. ASSUME NEW j \in Calls \ {k}, at[j] \in Verified, ~late[j]
      PROVE  path' = path /\ data'[fd[j]] = data[fd[j]]
  <2>1. fd[j] # fd[k]  BY <1>2, <1>7, HolderAlone DEF Verified
  <2>2. fd[j] \in Inodes  BY <1>7 DEF EditorInd, CallInd
  <2>. QED  BY <1>1, <1>4, <2>1, <2>2 DEF EditorTypes
<1>8. EditorInd'
  <2>1. \A j \in Calls \ {k} : at[j] \in InCycle => l1'[BotOf[j]] # <<>> /\ Head(l1'[BotOf[j]]) = j
    BY <1>4 DEF EditorInd, CallInd, InCycle
  <2>2. \A j \in Calls \ {k} : late'[j] = late[j] /\ \A i \in Inodes : j \in flock[i] => j \in flock'[i]
    BY <1>4
  <2>. QED  BY <1>5, <1>6, <1>7, <2>1, <2>2, OthersKeep
<1>9. \A j \in Calls : callState'[j] = callState[j] /\ late'[j] = late[j]
  BY <1>2, <1>4, <1>5, SeenOf DEF Same, Verified
<1>10. CASE Current' = Current
  <2>1. UNCHANGED fileVars  BY <1>8, <1>9, <1>10, Stutter
  <2>. QED  BY <1>8, <2>1
<1>11. CASE Current' # Current
  <2>1. path = fd[k] /\ data[path].kind = "empty"
    BY <1>1, <1>4, <1>11 DEF Current, EditorTypes, now
  <2>2. Current = data[path] /\ Current' = File!Json({})
    BY <1>1, <1>2, <1>4, <2>1, EditorAssumption DEF Current, EditorTypes, now, Json, File!Json
  <2>3. callState[k] = "in" /\ callState' = callState
    BY <1>2, <1>9, SeenOf DEF callState, Verified
  <2>4. late' = late  BY <1>4
  <2>5. Crossed' = Crossed  BY <1>8, <2>4, LateIsCrossed, LateIsCrossedNext
  <2>6. File!Brace(k)  BY <2>1, <2>2, <2>3, <2>5 DEF File!Brace, Crossed
  <2>. QED  BY <1>8, <2>6 DEF File!Next
<1>. QED  BY <1>10, <1>11

\* The steps within the cycle change nothing that SettingsFile sees.
LEMMA CycleStutters ==
  ASSUME EditorInd, NEW k \in Calls, at[k] \in Verified,
         NEW p \in Verified, at' = [at EXCEPT ![k] = p],
         print' \in [Calls -> Contents], value' \in [Calls -> SUBSET Rules],
         result' \in [Calls -> Outcomes],
         \A j \in Calls \ {k} : print'[j] = print[j] /\ value'[j] = value[j] /\ result'[j] = result[j],
         UNCHANGED <<path, data, flock, l1, fd, late, outside>>, CallInd(k)'
  PROVE  EditorInd' /\ [File!Next]_fileVars
<1>1. EditorTypes  BY DEF EditorInd
<1>2. p \in Places  BY DEF Places
<1>3. EditorInd' /\ Current' = Current  BY <1>2, MoveKeeps
<1>4. \A j \in Calls : callState'[j] = callState[j] /\ late'[j] = late[j]
  BY <1>1, SeenOf DEF EditorTypes
<1>5. UNCHANGED fileVars  BY <1>3, <1>4, Stutter
<1>. QED  BY <1>3, <1>5

\* Reading and merging.
LEMMA ReadRefines ==
  ASSUME EditorInd, NEW k \in Calls, Read(k)
  PROVE  EditorInd' /\ [File!Next]_fileVars
<1>1. EditorTypes /\ CallInd(k) /\ at[k] = "read" /\ fd[k] \in Inodes /\ at[k] \in Verified
      /\ data[fd[k]] \in Contents /\ UNCHANGED <<path, data, outside>> /\ HoldsL1(k)
  BY DEF EditorInd, CallInd, EditorTypes, Verified, Read, HoldsL1
<1>2. CASE data[fd[k]].kind = "json"
  <2>1. /\ value' = [value EXCEPT ![k] = data[fd[k]].rules \cup Want[k]]
        /\ result' = [result EXCEPT ![k] = IF Want[k] \subseteq data[fd[k]].rules
                                           THEN "AlreadyPresent" ELSE "Added"]
        /\ at' = [at EXCEPT ![k] = "recheck"]
        /\ UNCHANGED <<flock, l1, fd, print, late>>
    BY <1>2 DEF Read, Goto
  <2>2. data[fd[k]].rules \cup Want[k] \in SUBSET Rules
    BY <1>1, EditorAssumption DEF Contents
  <2>3. value' \in [Calls -> SUBSET Rules] /\ value'[k] = data[fd[k]].rules \cup Want[k]
        /\ result' \in [Calls -> Outcomes] /\ result'[k] \in Success /\ at'[k] = "recheck"
        /\ \A j \in Calls \ {k} : value'[j] = value[j] /\ result'[j] = result[j]
    BY <1>1, <2>1, <2>2 DEF EditorTypes, Outcomes, Success
  <2>4. CallInd(k)'
    BY <1>1, <2>1, <2>3 DEF CallInd, Verified
  <2>5. "recheck" \in Verified /\ print' \in [Calls -> Contents]
        /\ \A j \in Calls \ {k} : print'[j] = print[j]
    BY <1>1, <2>1 DEF Verified, EditorTypes
  <2>. QED  BY <1>1, <2>1, <2>3, <2>4, <2>5, CycleStutters
<1>3. CASE data[fd[k]].kind \in {"torn", "empty"}
  <2>1. at' = [at EXCEPT ![k] = "backup"] /\ UNCHANGED <<flock, l1, fd, print, value, result, late>>
    BY <1>3 DEF Read, Goto
  <2>2. at'[k] = "backup" /\ "backup" \in Verified  BY <1>1, <2>1 DEF EditorTypes, Verified
  <2>3. CallInd(k)'
    BY <1>1, <1>3, <2>1, <2>2 DEF CallInd, Verified
  <2>4. print' \in [Calls -> Contents] /\ value' \in [Calls -> SUBSET Rules] /\ result' \in [Calls -> Outcomes]
        /\ \A j \in Calls \ {k} : print'[j] = print[j] /\ value'[j] = value[j] /\ result'[j] = result[j]
    BY <1>1, <2>1 DEF EditorTypes
  <2>. QED  BY <1>1, <2>1, <2>2, <2>3, <2>4, CycleStutters
<1>4. CASE Return(k, "InvalidShape")
  <2>1. "InvalidShape" \in Outcomes /\ "InvalidShape" \notin Success
    BY DEF Outcomes, Success, Failure
  <2>2. ~Replaces(k)  BY <1>1 DEF Replaces
  <2>. QED  BY <1>1, <1>4, <2>1, <2>2, ReturnRefines
<1>5. data[fd[k]].kind \in {"json", "torn", "empty"} \/ Return(k, "InvalidShape")
  BY DEF Read
<1>. QED  BY <1>2, <1>3, <1>4, <1>5

\* The second fingerprint: a file that changed is read again.
LEMMA RecheckRefines ==
  ASSUME EditorInd, NEW k \in Calls, Recheck(k)
  PROVE  EditorInd' /\ [File!Next]_fileVars
<1>1. EditorTypes /\ CallInd(k) /\ at[k] = "recheck" /\ at[k] \in Verified
      /\ UNCHANGED <<path, data, flock, l1, fd, print, value, result, late, outside>>
  BY DEF EditorInd, Verified, Recheck
<1>. DEFINE p == IF data[fd[k]] = print[k] THEN "write" ELSE "reread"
<1>2. at' = [at EXCEPT ![k] = p] /\ p \in Verified  BY DEF Recheck, Goto, Verified
<1>3. at'[k] = p  BY <1>1, <1>2 DEF EditorTypes
<1>4. CallInd(k)'
  BY <1>1, <1>3 DEF CallInd, Verified
<1>. HIDE DEF p
<1>5. print' \in [Calls -> Contents] /\ value' \in [Calls -> SUBSET Rules] /\ result' \in [Calls -> Outcomes]
      /\ \A j \in Calls \ {k} : print'[j] = print[j] /\ value'[j] = value[j] /\ result'[j] = result[j]
  BY <1>1 DEF EditorTypes
<1>. QED  BY <1>1, <1>2, <1>4, <1>5, CycleStutters

\* A file that changed is read and merged once more, or the call gives up.
LEMMA RereadRefines ==
  ASSUME EditorInd, NEW k \in Calls, Reread(k)
  PROVE  EditorInd' /\ [File!Next]_fileVars
<1>1. EditorTypes /\ CallInd(k) /\ at[k] = "reread" /\ fd[k] \in Inodes /\ at[k] \in Verified
      /\ data[fd[k]] \in Contents /\ UNCHANGED <<path, data, outside>> /\ HoldsL1(k)
  BY DEF EditorInd, CallInd, EditorTypes, Verified, Reread, HoldsL1
<1>2. CASE data[fd[k]].kind = "json"
  <2>1. /\ value' = [value EXCEPT ![k] = data[fd[k]].rules \cup Want[k]]
        /\ result' = [result EXCEPT ![k] = "ConflictResolved"]
        /\ at' = [at EXCEPT ![k] = "write"]
        /\ UNCHANGED <<flock, l1, fd, print, late>>
    BY <1>2 DEF Reread, Goto
  <2>2. data[fd[k]].rules \cup Want[k] \in SUBSET Rules
    BY <1>1, EditorAssumption DEF Contents
  <2>3. value' \in [Calls -> SUBSET Rules] /\ value'[k] = data[fd[k]].rules \cup Want[k]
        /\ result' \in [Calls -> Outcomes] /\ result'[k] \in Success /\ at'[k] = "write"
        /\ \A j \in Calls \ {k} : value'[j] = value[j] /\ result'[j] = result[j]
    BY <1>1, <2>1, <2>2 DEF EditorTypes, Outcomes, Success
  <2>4. CallInd(k)'
    BY <1>1, <2>1, <2>3 DEF CallInd, Verified
  <2>5. "write" \in Verified /\ print' \in [Calls -> Contents]
        /\ \A j \in Calls \ {k} : print'[j] = print[j]
    BY <1>1, <2>1 DEF Verified, EditorTypes
  <2>. QED  BY <1>1, <2>1, <2>3, <2>4, <2>5, CycleStutters
<1>3. ASSUME NEW r \in {"MtimeChanged", "InvalidShape"}, Return(k, r)
      PROVE  EditorInd' /\ [File!Next]_fileVars
  <2>1. r \in Outcomes /\ r \notin Success
    BY DEF Outcomes, Success, Failure
  <2>2. ~Replaces(k)  BY <1>1 DEF Replaces
  <2>. QED  BY <1>1, <1>3, <2>1, <2>2, ReturnRefines
<1>. QED  BY <1>2, <1>3 DEF Reread

\* Finish, a busy flock and a failed system call are returns.
LEMMA PlainReturns ==
  ASSUME EditorInd, NEW k \in Calls, FlockTimeout(k) \/ Finish(k) \/ IoError(k)
  PROVE  EditorInd' /\ [File!Next]_fileVars
<1>1. CallInd(k)  BY DEF EditorInd
<1>2. CASE FlockTimeout(k)
  <2>1. at[k] = "flock" /\ Return(k, "LockConflict") /\ UNCHANGED <<path, data, outside>> /\ HoldsL1(k)
        /\ ~Replaces(k)
    BY <1>1, <1>2 DEF FlockTimeout, CallInd, HoldsL1, Replaces
  <2>2. "LockConflict" \in Outcomes /\ "LockConflict" \notin Success
    BY DEF Outcomes, Success, Failure
  <2>. QED  BY <2>1, <2>2, ReturnRefines
<1>3. CASE Finish(k)
  <2>1. at[k] = "sync" /\ Return(k, result[k]) /\ UNCHANGED <<path, data, outside>> /\ HoldsL1(k)
        /\ ~Replaces(k)
    BY <1>1, <1>3 DEF Finish, CallInd, HoldsL1, Replaces
  <2>2. result[k] \in Outcomes  BY DEF EditorInd, EditorTypes
  <2>. QED  BY <2>1, <2>2, ReturnRefines
<1>4. CASE IoError(k)
  <2>1. /\ UNCHANGED <<path, data, outside>> /\ HoldsL1(k) /\ at[k] \notin {"idle", "done"}
        /\ at[k] = "backup" => path # NoInode
        /\ Return(k, "Io") \/ Return(k, "JsonCorrupted")
    BY <1>1, <1>4 DEF IoError, MayOpen, CallInd, HoldsL1, Verified
  <2>2. ~Replaces(k)
    BY <2>1 DEF Replaces
  <2>3. \A r \in {"Io", "JsonCorrupted"} : r \in Outcomes /\ r \notin Success
    BY DEF Outcomes, Success, Failure
  <2>4. CASE Return(k, "Io")  BY <2>1, <2>2, <2>3, <2>4, ReturnRefines
  <2>5. CASE Return(k, "JsonCorrupted")  BY <2>1, <2>2, <2>3, <2>5, ReturnRefines
  <2>. QED  BY <2>1, <2>4, <2>5
<1>. QED  BY <1>2, <1>3, <1>4

\* A call that found the lock busy starts over.
LEMMA RetryRefines ==
  ASSUME EditorInd, NEW k \in Calls, Retry(k)
  PROVE  EditorInd' /\ [File!Next]_fileVars
<1>. USE DEF Retry, Goto
<1>1. EditorTypes /\ OneHolder /\ CallInd(k)  BY DEF EditorInd
<1>2. at' \in [Calls -> Places] /\ at'[k] = "idle" /\ result' \in [Calls -> Outcomes]
      /\ \A j \in Calls \ {k} : Same(j)
  BY <1>1 DEF EditorTypes, Places, Outcomes, Same
<1>3. UNCHANGED <<path, data, flock, l1, fd, print, value, late, outside>> /\ ~late[k]
  BY <1>1 DEF CallInd, Verified
<1>4. EditorTypes' /\ OneHolder' /\ CallInd(k)'
  <2>1. EditorTypes'  BY <1>1, <1>2, <1>3 DEF EditorTypes
  <2>2. OneHolder'  BY <1>1, <1>3 DEF OneHolder
  <2>3. CallInd(k)'  BY <1>2, <1>3 DEF CallInd, Verified
  <2>. QED  BY <2>1, <2>2, <2>3
<1>5. EditorInd'
  <2>1. \A j \in Calls \ {k} : at[j] \in InCycle => l1'[BotOf[j]] # <<>> /\ Head(l1'[BotOf[j]]) = j
    BY <1>3 DEF EditorInd, CallInd, InCycle
  <2>. QED  BY <1>2, <1>3, <1>4, <2>1, OthersKeep
<1>6. \A j \in Calls : callState'[j] = callState[j] /\ late'[j] = late[j]
  BY <1>2, <1>3, SeenOf DEF Same, Verified, Success
<1>7. Current' = Current  BY <1>3 DEF Current
<1>8. UNCHANGED fileVars  BY <1>5, <1>6, <1>7, Stutter
<1>. QED  BY <1>5, <1>8
-----------------------------------------------------------------------------
(* The two renames. *)

\* Of two calls between the inode check and the rename, one was crossed.
LEMMA OneUncrossed ==
  ASSUME EditorInd, NEW k \in Calls, NEW j \in Calls \ {k},
         at[k] \in Verified, at[j] \in Verified
  PROVE  late[k] \/ late[j]
<1>1. SUFFICES ASSUME ~late[k], ~late[j] PROVE FALSE  OBVIOUS
<1>2. fd[j] = path /\ fd[k] = path  BY <1>1 DEF EditorInd, CallInd
<1>. QED  BY <1>2, HolderAlone

\* The call that takes an unreadable file away leaves no file behind.
LEMMA SetAsideRefines ==
  ASSUME EditorInd, NEW k \in Calls, SetAside(k)
  PROVE  EditorInd' /\ [File!Next]_fileVars
<1>1. EditorTypes /\ CallInd(k)  BY DEF EditorInd
<1>2. at[k] = "backup" /\ at[k] \in Verified /\ path' = NoInode /\ Return(k, "JsonCorrupted")
      /\ UNCHANGED <<data, outside>>
  BY DEF SetAside, Verified
<1>3. HoldsL1(k) /\ "JsonCorrupted" \in Outcomes /\ "JsonCorrupted" \notin Success
  BY <1>1, <1>2 DEF CallInd, HoldsL1, Outcomes, Success, Failure
<1>4. EditorTypes' /\ OneHolder' /\ CallInd(k)'
  BY <1>1, <1>2, <1>3, ReturnEffect DEF EditorTypes
<1>5. at'[k] = "done" /\ result'[k] = "JsonCorrupted" /\ ~late'[k] /\ late' \in [Calls -> BOOLEAN]
      /\ \A j \in Calls \ {k} :
           /\ Same(j) /\ late'[j] = (late[j] \/ (late[k] /\ at[j] \in Verified))
           /\ at[j] \in InCycle => l1'[BotOf[j]] # <<>> /\ Head(l1'[BotOf[j]]) = j
           /\ \A i \in Inodes : j \in flock[i] => j \in flock'[i]
  BY <1>2, <1>3, ReturnEffect DEF Replaces
<1>6. ASSUME NEW j \in Calls \ {k} PROVE CallInd(j)'
  <2>1. CallInd(j)  BY DEF EditorInd
  <2>2. at[j] \in Verified \cup {"verify"} => j \in flock'[fd[j]]
    BY <1>5, <2>1 DEF CallInd
  <2>3. late[j] => late'[j]  BY <1>5
  <2>4. late'[j] => at[j] \in Verified  BY <1>5, <2>1 DEF CallInd
  <2>5. ~(at[j] \in Verified /\ ~late'[j])  BY <1>2, <1>5, OneUncrossed
  <2>. QED  BY <1>5, <2>1, <2>2, <2>3, <2>4, <2>5, Bystander
<1>7. EditorInd'  BY <1>4, <1>6 DEF EditorInd
<1>8. /\ callState[k] = "in" /\ callState' = [callState EXCEPT ![k] = "out"]
      /\ \A j \in Calls : at[j] \in Verified <=> callState[j] = "in"
  <2>1. callState[k] = "in" /\ callState'[k] = "out"
    BY <1>2, <1>3, <1>5, SeenOf DEF Verified
  <2>2. \A j \in Calls \ {k} : callState'[j] = callState[j]
    BY <1>5, SeenOf DEF Same
  <2>3. \A j \in Calls : at[j] \in Verified <=> callState[j] = "in"
    BY SeenOf
  <2>. QED  BY <2>1, <2>2, <2>3, CallMoves
<1>9. Crossed = late /\ Crossed' = late'
  BY <1>7, LateIsCrossed, LateIsCrossedNext
<1>10. late' = [j \in Calls |-> j # k /\ (late[j] \/ (late[k] /\ TRUE /\ callState[j] = "in"))]
  BY <1>5, <1>8
<1>11. File!Leave(k, "out", TRUE)
  BY <1>8, <1>9, <1>10 DEF File!Leave, Crossed
<1>12. ~late[k] => Current.kind \in {"torn", "empty"}
  BY <1>1, <1>2, EditorAssumption DEF CallInd, Current
<1>13. Current' = File!NoFile  BY <1>2 DEF Current, File!NoFile, Blank
<1>14. File!SetAside(k)
  BY <1>8, <1>9, <1>11, <1>12, <1>13 DEF File!SetAside, Crossed
<1>. QED  BY <1>7, <1>14 DEF File!Next

\* The rename of a successful call puts its whole content in place: what the file held
\* and the rules it wants, unless it was crossed.
LEMMA RenameRefines ==
  ASSUME EditorInd, NEW k \in Calls, Rename(k)
  PROVE  EditorInd' /\ [File!Next]_fileVars
<1>1. EditorTypes /\ OneHolder /\ CallInd(k)  BY DEF EditorInd
<1>2. at[k] = "write" /\ at[k] \in Verified /\ fd[k] \in Inodes
      /\ l1[BotOf[k]] # <<>> /\ Head(l1[BotOf[k]]) = k /\ result[k] \in Success
  BY <1>1 DEF Rename, CallInd, Verified
<1>. DEFINE new == NewInode
<1>3. new \in Inodes /\ FreeInode(new)  BY <1>1, InodeIsFree
<1>4. path' = new /\ data' = [data EXCEPT ![new] = Json(value[k])]
      /\ late' = Spread(k, TRUE) /\ at' = [at EXCEPT ![k] = "sync"]
      /\ UNCHANGED <<flock, l1, fd, print, value, result, outside>>
  BY DEF Rename, Goto
<1>. HIDE DEF new
<1>5. Json(value[k]) \in Contents  BY <1>1 DEF EditorTypes, Contents, Json
<1>6. /\ data' \in [Inodes -> Contents] /\ data'[new] = Json(value[k])
      /\ \A i \in Inodes : i # new => data'[i] = data[i]
  BY <1>1, <1>3, <1>4, <1>5 DEF EditorTypes
<1>7. at' \in [Calls -> Places] /\ at'[k] = "sync" /\ \A j \in Calls \ {k} : Same(j)
  BY <1>1, <1>4 DEF EditorTypes, Places, Same
<1>8. /\ late' \in [Calls -> BOOLEAN] /\ ~late'[k]
      /\ \A j \in Calls \ {k} : late'[j] = (late[j] \/ (late[k] /\ at[j] \in Verified))
  BY <1>1, <1>4 DEF EditorTypes, Spread
<1>9. EditorTypes' /\ OneHolder' /\ CallInd(k)'
  <2>1. EditorTypes'  BY <1>1, <1>3, <1>4, <1>6, <1>7, <1>8 DEF EditorTypes
  <2>2. OneHolder'  BY <1>1, <1>4 DEF OneHolder
  <2>3. CallInd(k)'  BY <1>2, <1>4, <1>7, <1>8 DEF CallInd, Verified
  <2>. QED  BY <2>1, <2>2, <2>3
<1>10. ASSUME NEW j \in Calls \ {k} PROVE CallInd(j)'
  <2>1. CallInd(j)  BY DEF EditorInd
  <2>2. at[j] \in Verified \cup {"verify"} => j \in flock'[fd[j]]
    BY <1>4, <2>1 DEF CallInd
  <2>3. late[j] => late'[j]  BY <1>8
  <2>4. late'[j] => at[j] \in Verified  BY <1>8, <2>1 DEF CallInd
  <2>5. ~(at[j] \in Verified /\ ~late'[j])  BY <1>2, <1>8, OneUncrossed
  <2>6. at[j] \in InCycle => l1'[BotOf[j]] # <<>> /\ Head(l1'[BotOf[j]]) = j
    BY <1>4, <2>1 DEF CallInd, InCycle
  <2>. QED  BY <1>7, <2>1, <2>2, <2>3, <2>4, <2>5, <2>6, Bystander
<1>11. EditorInd'  BY <1>9, <1>10 DEF EditorInd
<1>12. /\ callState[k] = "in" /\ callState' = [callState EXCEPT ![k] = "added"]
       /\ \A j \in Calls : at[j] \in Verified <=> callState[j] = "in"
  <2>1. callState[k] = "in" /\ callState'[k] = "added"
    BY <1>2, <1>7, SeenOf DEF Verified
  <2>2. \A j \in Calls \ {k} : callState'[j] = callState[j]
    BY <1>7, SeenOf DEF Same
  <2>3. \A j \in Calls : at[j] \in Verified <=> callState[j] = "in"
    BY SeenOf
  <2>. QED  BY <2>1, <2>2, <2>3, CallMoves
<1>13. Crossed = late /\ Crossed' = late'
  BY <1>11, LateIsCrossed, LateIsCrossedNext
<1>14. late' = [j \in Calls |-> j # k /\ (late[j] \/ (late[k] /\ TRUE /\ callState[j] = "in"))]
  BY <1>8, <1>12
<1>15. File!Leave(k, "added", TRUE)
  BY <1>12, <1>13, <1>14 DEF File!Leave, Crossed
<1>16. Current' = File!Json(value[k])
  BY <1>3, <1>4, <1>6, EditorAssumption DEF Current, Json, File!Json
<1>17. Want[k] \subseteq value[k] /\ (~late[k] => value[k] = Current.rules \cup Want[k])
  BY <1>1, <1>2, EditorAssumption DEF CallInd, Current
<1>18. Current'.kind = "json" /\ Current'.rules = value[k]
  BY <1>16 DEF File!Json
<1>19. File!Add(k)
  BY <1>12, <1>13, <1>15, <1>16, <1>17, <1>18 DEF File!Add, Crossed
<1>. QED  BY <1>11, <1>19 DEF File!Next
-----------------------------------------------------------------------------
(* The other writer. *)

\* The other writer changes the file: the calls it hits are crossed, and to SettingsFile
\* the whole step is one outside edit.
LEMMA OutsideRefines ==
  ASSUME EditorInd, EditorTypes',
         UNCHANGED <<flock, l1, at, fd, print, value, result>>,
         NEW hit \in SUBSET {k \in Calls : at[k] \in Verified},
         late' = [k \in Calls |-> late[k] \/ k \in hit],
         \A k \in Calls : at[k] \in Verified /\ ~late'[k] => CallInd(k)'
  PROVE  EditorInd' /\ [File!Next]_fileVars
<1>1. EditorTypes /\ OneHolder  BY DEF EditorInd
<1>2. OneHolder'  BY <1>1 DEF OneHolder
<1>3. ASSUME NEW k \in Calls, at[k] \notin Verified \/ late'[k] PROVE CallInd(k)'
  <2>1. CallInd(k) /\ Same(k)  BY DEF EditorInd, Same
  <2>2. late[k] => late'[k]  OBVIOUS
  <2>3. late'[k] => at[k] \in Verified  BY <2>1 DEF CallInd
  <2>4. /\ at[k] \in InCycle => l1'[BotOf[k]] # <<>> /\ Head(l1'[BotOf[k]]) = k
        /\ at[k] \in Verified \cup {"verify"} => k \in flock'[fd[k]]
    BY <2>1 DEF CallInd, InCycle
  <2>. QED  BY <1>3, <2>1, <2>2, <2>3, <2>4, Bystander
<1>4. EditorInd'  BY <1>2, <1>3 DEF EditorInd
<1>5. callState' = callState /\ hit \in SUBSET {k \in Calls : callState[k] = "in"}
  BY SeenOf DEF callState
<1>6. Crossed = late /\ Crossed' = late'
  BY <1>4, LateIsCrossed, LateIsCrossedNext
<1>7. Current' \in File!Files
  BY EditorAssumption DEF EditorTypes, Current, Contents, Blank, File!Files
<1>8. File!Outside
  BY <1>5, <1>6, <1>7 DEF File!Outside, Crossed
<1>. QED  BY <1>4, <1>8 DEF File!Next

\* An edit of the file in place: the hash of a call that still compares tells, unless
\* the file is back to what it was.
LEMMA InPlaceRefines ==
  ASSUME EditorInd, path \in Inodes, NEW c \in Contents, data' = [data EXCEPT ![path] = c],
         late' = Overwritten(c), UNCHANGED <<path, flock, l1, at, fd, print, value, result>>,
         outside' \in [do : {"idle", "edit", "write"}, inode : Inodes \cup {NoInode},
                       saw : SUBSET Rules],
         outside'.do = "write" => outside'.inode \in Inodes
  PROVE  EditorInd' /\ [File!Next]_fileVars
<1>1. EditorTypes  BY DEF EditorInd
<1>. DEFINE hit == {k \in Calls : at[k] \in Verified /\ Overwritten(c)[k]}
<1>2. \A k \in Calls : Overwritten(c)[k] =
        \/ late[k] \/ at[k] \in {"write", "backup"}
        \/ at[k] = "recheck" /\ c = print[k] /\ value[k] # c.rules \cup Want[k]
  BY DEF Overwritten
<1>3. late' \in [Calls -> BOOLEAN]
  BY <1>1 DEF Overwritten, EditorTypes
<1>4. EditorTypes'
  BY <1>1, <1>3 DEF EditorTypes
<1>5. late' = [k \in Calls |-> late[k] \/ k \in hit]
  <2>1. \A k \in Calls : late[k] => at[k] \in Verified  BY DEF EditorInd, CallInd
  <2>2. {"write", "backup", "recheck"} \subseteq Verified  BY DEF Verified
  <2>3. \A k \in Calls : Overwritten(c)[k] = (late[k] \/ k \in hit)
    BY <1>1, <1>2, <2>1, <2>2 DEF EditorTypes
  <2>4. Overwritten(c) = [k \in Calls |-> Overwritten(c)[k]]  BY DEF Overwritten
  <2>. HIDE DEF hit
  <2>. QED  BY <2>3, <2>4
<1>6. ASSUME NEW k \in Calls, at[k] \in Verified, ~late'[k] PROVE CallInd(k)'
  <2>1. CallInd(k)  BY DEF EditorInd
  <2>2. ~late[k] /\ at[k] \notin {"write", "backup"}
        /\ (at[k] = "recheck" /\ c = print[k] => value[k] = c.rules \cup Want[k])
    BY <1>2, <1>6
  <2>3. fd[k] = path /\ data'[fd[k]] = c  BY <1>1, <1>6, <2>1, <2>2 DEF CallInd, EditorTypes
  <2>. QED  BY <1>6, <2>1, <2>2, <2>3 DEF CallInd
<1>7. hit \in SUBSET {k \in Calls : at[k] \in Verified}  OBVIOUS
<1>. HIDE DEF hit
<1>. QED  BY <1>4, <1>5, <1>6, <1>7, OutsideRefines

\* It renames a new file over the path: every call that edits the old one is crossed.
LEMMA OutsideRenameRefines ==
  ASSUME EditorInd, OutsideRename
  PROVE  EditorInd' /\ [File!Next]_fileVars
<1>1. EditorTypes  BY DEF EditorInd
<1>2. NewInode \in Inodes  BY <1>1, InodeIsFree
<1>3. path' \in Inodes /\ UNCHANGED <<flock, l1, at, fd, print, value, result>>
      /\ late' = Renamed /\ outside' = Quiet
  BY <1>2 DEF OutsideRename
<1>4. data' \in [Inodes -> Contents]
  <2>1. PICK c \in {Json(outside.saw \cup Foreign), Blank("odd")} : data' = [data EXCEPT ![NewInode] = c]
    BY DEF OutsideRename
  <2>2. c \in Contents
    BY <1>1, EditorAssumption DEF EditorTypes, Contents, Json, Blank
  <2>. QED  BY <1>1, <2>1, <2>2 DEF EditorTypes
<1>5. late' \in [Calls -> BOOLEAN] /\ \A k \in Calls : at[k] \in Verified => late'[k]
  BY <1>1, <1>3 DEF Renamed, EditorTypes
<1>6. EditorTypes'
  <2>1. outside' \in [do : {"idle", "edit", "write"}, inode : Inodes \cup {NoInode}, saw : SUBSET Rules]
        /\ outside'.do = "idle"
    BY <1>3 DEF Quiet
  <2>. QED  BY <1>1, <1>3, <1>4, <1>5, <2>1 DEF EditorTypes
<1>. DEFINE hit == {k \in Calls : at[k] \in Verified}
<1>7. late' = [k \in Calls |-> late[k] \/ k \in hit]
  BY <1>3 DEF Renamed
<1>8. hit \in SUBSET {k \in Calls : at[k] \in Verified}  OBVIOUS
<1>. HIDE DEF hit
<1>. QED  BY <1>3, <1>5, <1>6, <1>7, <1>8, OutsideRefines

\* It reads, truncates or writes in place.
LEMMA OutsideStepRefines ==
  ASSUME EditorInd, OutsideStep
  PROVE  EditorInd' /\ [File!Next]_fileVars
<1>. DEFINE none == {}
<1>1. EditorTypes /\ none \in SUBSET {k \in Calls : at[k] \in Verified}
      /\ \A k \in Calls : k \notin none
  BY DEF EditorInd
<1>. HIDE DEF none
<1>2. CASE OutsideRename  BY <1>2, OutsideRenameRefines
<1>3. CASE OutsideRead
  <2>1. UNCHANGED <<path, data, flock, l1, at, fd, print, value, result, late>>
        /\ path \in Inodes
    BY <1>1, <1>3 DEF OutsideRead, EditorTypes
  <2>2. outside' = [do |-> "edit", inode |-> NoInode, saw |-> data[path].rules]
        /\ data[path].rules \in SUBSET Rules
    BY <1>1, <1>3, <2>1 DEF OutsideRead, EditorTypes, Contents
  <2>3. EditorTypes'
    BY <1>1, <2>1, <2>2 DEF EditorTypes
  <2>4. late' = [k \in Calls |-> late[k] \/ k \in none]
    BY <1>1, <2>1 DEF EditorTypes
  <2>5. \A k \in Calls : CallInd(k)'
    BY <2>1 DEF EditorInd, CallInd
  <2>. QED  BY <1>1, <2>1, <2>3, <2>4, <2>5, OutsideRefines
<1>4. CASE OutsideTruncate
  <2>1. path \in Inodes /\ UNCHANGED <<path, flock, l1, at, fd, print, value, result>>
    BY <1>1, <1>4 DEF OutsideTruncate, EditorTypes
  <2>2. PICK t \in {"empty", "torn"} : data' = [data EXCEPT ![path] = Blank(t)] /\ late' = Overwritten(Blank(t))
    BY <1>4 DEF OutsideTruncate
  <2>3. Blank(t) \in Contents  BY DEF Blank, Contents
  <2>4. outside' = [outside EXCEPT !.do = "write", !.inode = path]
    BY <1>4 DEF OutsideTruncate
  <2>5. /\ outside' \in [do : {"idle", "edit", "write"}, inode : Inodes \cup {NoInode},
                         saw : SUBSET Rules]
        /\ outside'.inode = path
    BY <1>1, <2>1, <2>4 DEF EditorTypes
  <2>. HIDE DEF OutsideTruncate
  <2>. QED  BY <2>1, <2>2, <2>3, <2>5, InPlaceRefines
<1>5. CASE OutsideWrite
  <2>. DEFINE c == Json(outside.saw \cup Foreign)
  <2>1. /\ UNCHANGED <<path, flock, l1, at, fd, print, value, result>> /\ outside' = Quiet
        /\ outside.inode \in Inodes /\ data' = [data EXCEPT ![outside.inode] = c]
    BY <1>1, <1>5 DEF OutsideWrite, EditorTypes
  <2>2. c \in Contents
    BY <1>1, EditorAssumption DEF EditorTypes, Contents, Json
  <2>3. /\ outside' \in [do : {"idle", "edit", "write"}, inode : Inodes \cup {NoInode},
                         saw : SUBSET Rules]
        /\ outside'.do = "idle"
    BY <2>1 DEF Quiet
  <2>. HIDE DEF c
  <2>4. CASE outside.inode = path
    <3>1. late' = Overwritten(data'[path])  BY <1>5, <2>4 DEF OutsideWrite
    <3>2. data'[path] = c  BY <1>1, <2>1, <2>4 DEF EditorTypes
    <3>3. late' = Overwritten(c)  BY <3>1, <3>2
    <3>. QED  BY <2>1, <2>2, <2>3, <2>4, <3>3, InPlaceRefines
  <2>5. CASE outside.inode # path
    <3>1. late' = late  BY <1>5, <2>5 DEF OutsideWrite
    <3>2. late' = [k \in Calls |-> late[k] \/ k \in none]
      BY <1>1, <3>1 DEF EditorTypes
    <3>3. EditorTypes'
      BY <1>1, <2>1, <2>2, <2>3, <3>1 DEF EditorTypes
    <3>4. ASSUME NEW k \in Calls, at[k] \in Verified, ~late'[k] PROVE CallInd(k)'
      <4>1. CallInd(k) /\ ~late[k]  BY <3>1, <3>4 DEF EditorInd
      <4>2. fd[k] = path /\ fd[k] \in Inodes  BY <3>4, <4>1 DEF CallInd
      <4>3. data'[fd[k]] = data[fd[k]]  BY <1>1, <2>1, <2>5, <4>2 DEF EditorTypes
      <4>. QED  BY <2>1, <3>4, <4>1, <4>3 DEF CallInd
    <3>. QED  BY <1>1, <2>1, <3>2, <3>3, <3>4, OutsideRefines
  <2>. QED  BY <2>4, <2>5
<1>. QED  BY <1>2, <1>3, <1>4, <1>5 DEF OutsideStep
-----------------------------------------------------------------------------
(* A bot process dies. *)

\* At most one call of the process is past the mutex, so the death is that call's giving
\* up, or an addition that is not confirmed.
LEMMA CrashRefines ==
  ASSUME EditorInd, NEW b \in Bots, Crash(b)
  PROVE  EditorInd' /\ [File!Next]_fileVars
<1>1. EditorTypes /\ OneHolder  BY DEF EditorInd
<1>. DEFINE gone == {k \in Calls : BotOf[k] = b /\
                      (at[k] \notin {"idle", "done"} \/ result[k] = "LockConflict")}
<1>2. /\ at' = [k \in Calls |-> IF k \in gone THEN "done" ELSE at[k]]
      /\ result' = [k \in Calls |-> IF k \in gone THEN "died" ELSE result[k]]
      /\ flock' = [i \in Inodes |-> flock[i] \ gone]
      /\ fd' = [k \in Calls |-> IF k \in gone THEN NoInode ELSE fd[k]]
      /\ l1' = [l1 EXCEPT ![b] = <<>>]
      /\ print' = [k \in Calls |-> IF k \in gone THEN Blank("empty") ELSE print[k]]
      /\ value' = [k \in Calls |-> IF k \in gone THEN {} ELSE value[k]]
      /\ late' = [k \in Calls |-> late[k] /\ k \notin gone]
      /\ UNCHANGED <<path, data, outside>>
  BY DEF Crash
<1>3. /\ \A k \in gone : k \in Calls /\ BotOf[k] = b
      /\ \A k \in Calls \ gone : BotOf[k] = b => at[k] \in {"idle", "done"}
      /\ \A k \in gone : at[k] \in {"idle", "done"} => result[k] = "LockConflict"
  OBVIOUS
<1>. HIDE DEF gone
<1>4. /\ \A k \in gone : at'[k] = "done" /\ result'[k] = "died" /\ ~late'[k]
      /\ \A k \in Calls \ gone : Same(k) /\ late'[k] = late[k]
  BY <1>1, <1>2, <1>3 DEF Same, EditorTypes
<1>5. EditorTypes' /\ OneHolder'
  <2>1. l1' \in [Bots -> Seq(Calls)]
    <3>1. <<>> \in Seq(Calls)  OBVIOUS
    <3>. QED  BY <1>1, <1>2, <3>1 DEF EditorTypes
  <2>2. at' \in [Calls -> Places] /\ result' \in [Calls -> Outcomes] /\ flock' \in [Inodes -> SUBSET Calls]
    BY <1>1, <1>2 DEF EditorTypes, Places, Outcomes, Failure
  <2>3. fd' \in [Calls -> Inodes \cup {NoInode}] /\ print' \in [Calls -> Contents]
        /\ value' \in [Calls -> SUBSET Rules] /\ late' \in [Calls -> BOOLEAN]
    BY <1>1, <1>2 DEF EditorTypes, Contents, Blank
  <2>4. OneHolder'  BY <1>1, <1>2 DEF OneHolder
  <2>. QED  BY <1>1, <1>2, <2>1, <2>2, <2>3, <2>4 DEF EditorTypes
<1>6. ASSUME NEW k \in Calls PROVE CallInd(k)'
  <2>1. CallInd(k)  BY DEF EditorInd
  <2>2. CASE k \in gone  BY <1>4, <2>2 DEF CallInd, Verified
  <2>3. CASE k \notin gone
    <3>1. Same(k) /\ late'[k] = late[k]  BY <1>4, <2>3
    <3>2. at[k] \in InCycle => l1'[BotOf[k]] # <<>> /\ Head(l1'[BotOf[k]]) = k
      <4>1. SUFFICES ASSUME at[k] \in InCycle PROVE l1'[BotOf[k]] = l1[BotOf[k]]
        BY <2>1 DEF CallInd, InCycle
      <4>2. BotOf[k] # b /\ BotOf[k] \in Bots
        BY <1>3, <2>3, <4>1, EditorAssumption DEF InCycle, Verified
      <4>. QED  BY <1>1, <1>2, <4>2 DEF EditorTypes
    <3>3. at[k] \in Verified \cup {"verify"} => k \in flock'[fd[k]]
      BY <1>1, <1>2, <2>1, <2>3 DEF CallInd, EditorTypes
    <3>4. late[k] => at[k] \in Verified  BY <2>1 DEF CallInd
    <3>. QED  BY <1>2, <2>1, <3>1, <3>2, <3>3, <3>4, Bystander
  <2>. QED  BY <2>2, <2>3
<1>7. EditorInd' /\ Current' = Current  BY <1>2, <1>5, <1>6 DEF EditorInd, Current
<1>8. Crossed = late /\ Crossed' = late'
  BY <1>7, LateIsCrossed, LateIsCrossedNext
<1>9. /\ \A k \in gone : callState'[k] = "out"
      /\ \A k \in Calls \ gone : callState'[k] = callState[k]
  BY <1>3, <1>4, SeenOf DEF Same, Verified, Success
<1>10. \A k \in gone : at[k] \notin Verified \cup {"sync"} => callState[k] = "out" /\ ~late[k]
  <2>1. SUFFICES ASSUME NEW k \in gone, at[k] \notin Verified \cup {"sync"}
                 PROVE  callState[k] = "out" /\ ~late[k]
    OBVIOUS
  <2>2. k \in Calls /\ CallInd(k)  BY <1>3 DEF EditorInd
  <2>3. ~late[k]  BY <2>1, <2>2 DEF CallInd
  <2>. QED  BY <1>3, <2>1, <2>2, <2>3, SeenOf DEF Success
<1>11. ASSUME NEW k \in gone, at[k] \in Verified \cup {"sync"}
       PROVE  /\ \A j \in gone \ {k} : callState[j] = "out" /\ ~late[j]
              /\ callState' = [callState EXCEPT ![k] = "out"]
  <2>1. ASSUME NEW j \in gone \ {k} PROVE callState[j] = "out" /\ ~late[j]
    <3>1. at[j] \notin InCycle
      BY <1>3, <1>11, OnePerBot DEF InCycle
    <3>. QED  BY <1>10, <3>1 DEF InCycle
  <2>2. \A j \in Calls \ {k} : callState'[j] = callState[j]
    BY <1>9, <2>1
  <2>3. callState'[k] = "out" /\ k \in Calls  BY <1>3, <1>9
  <2>. QED  BY <2>1, <2>2, <2>3, CallMoves
<1>12. CASE \E k \in gone : at[k] \in Verified
  <2>1. PICK k \in gone : at[k] \in Verified  BY <1>12
  <2>2. k \in Calls /\ callState[k] = "in" /\ callState' = [callState EXCEPT ![k] = "out"]
    BY <1>3, <1>11, <2>1, SeenOf
  <2>3. late' = [j \in Calls |-> j # k /\ (late[j] \/ (late[k] /\ FALSE /\ callState[j] = "in"))]
    <3>1. \A j \in gone \ {k} : ~late[j]  BY <1>11, <2>1
    <3>2. \A j \in Calls : (late[j] /\ j \notin gone) = (j # k /\ (late[j] \/ FALSE))
      BY <1>1, <2>1, <3>1 DEF EditorTypes
    <3>. QED  BY <1>2, <3>2
  <2>4. File!Leave(k, "out", FALSE)
    BY <1>8, <2>2, <2>3 DEF File!Leave, Crossed
  <2>5. File!GiveUp(k)  BY <1>7, <2>2, <2>4 DEF File!GiveUp
  <2>. QED  BY <1>7, <2>2, <2>5 DEF File!Next
<1>13. CASE \E k \in gone : at[k] = "sync"
  <2>1. PICK k \in gone : at[k] = "sync"  BY <1>13
  <2>2. k \in Calls /\ callState[k] = "added" /\ callState' = [callState EXCEPT ![k] = "out"]
    BY <1>3, <1>11, <2>1, SeenOf DEF Verified
  <2>3. late' = late
    <3>1. \A j \in gone \ {k} : ~late[j]  BY <1>11, <2>1
    <3>2. ~late[k]  BY <2>1, <2>2 DEF EditorInd, CallInd, Verified
    <3>3. \A j \in Calls : (late[j] /\ j \notin gone) = late[j]
      BY <1>1, <3>1, <3>2 DEF EditorTypes
    <3>. QED  BY <1>1, <1>2, <3>3 DEF EditorTypes
  <2>4. File!Unconfirmed(k)
    BY <1>7, <1>8, <2>2, <2>3 DEF File!Unconfirmed, Crossed
  <2>. QED  BY <1>7, <2>2, <2>4 DEF File!Next
<1>14. CASE \A k \in gone : at[k] \notin Verified \cup {"sync"}
  <2>1. \A k \in Calls : callState'[k] = callState[k]
    BY <1>9, <1>10, <1>14
  <2>2. \A k \in Calls : late'[k] = late[k]
    BY <1>1, <1>2, <1>10, <1>14 DEF EditorTypes
  <2>3. UNCHANGED fileVars  BY <1>7, <2>1, <2>2, Stutter
  <2>. QED  BY <1>7, <2>3
<1>. QED  BY <1>12, <1>13, <1>14
-----------------------------------------------------------------------------
\* Every step of the editor keeps the invariant and is a step of SettingsFile or none.
LEMMA EditorStep == EditorInd /\ [EditorNext]_editorVars => EditorInd' /\ [File!Next]_fileVars
<1>. SUFFICES ASSUME EditorInd, [EditorNext]_editorVars PROVE EditorInd' /\ [File!Next]_fileVars
  OBVIOUS
<1>1. ASSUME NEW k \in Calls, CallStep(k) PROVE EditorInd' /\ [File!Next]_fileVars
  BY <1>1, OpenRefines, FlockRefines, PlainReturns, VerifyRefines, FingerprintRefines,
     ReadRefines, SetAsideRefines, RecheckRefines, RereadRefines, RenameRefines DEF CallStep
<1>2. ASSUME NEW k \in Calls, Ask(k) \/ Retry(k) \/ IoError(k)
      PROVE  EditorInd' /\ [File!Next]_fileVars
  BY <1>2, AskRefines, RetryRefines, PlainReturns
<1>3. ASSUME NEW b \in Bots, Crash(b) PROVE EditorInd' /\ [File!Next]_fileVars
  BY <1>3, CrashRefines
<1>4. CASE OutsideStep  BY <1>4, OutsideStepRefines
<1>5. CASE UNCHANGED editorVars
  <2>1. UNCHANGED <<path, data, flock, l1, at, fd, print, value, result, late, outside>>
    BY <1>5 DEF editorVars
  <2>2. EditorInd'
    BY <2>1 DEF EditorInd, EditorTypes, OneHolder, CallInd
  <2>3. UNCHANGED fileVars  BY <2>1 DEF fileVars, Current, callState, Crossed
  <2>. QED  BY <2>2, <2>3
<1>. QED  BY <1>1, <1>2, <1>3, <1>4, <1>5 DEF EditorNext

\* add_permissions (editor.rs) is one atomic addition to the file: whatever other calls,
\* bots, failed system calls and crashes come between its fourteen steps, it adds its
\* rules to what is there at its rename and keeps the rest, unless an edit outside the
\* locks crossed it in a way that neither the inode check nor the fingerprint shows.
THEOREM EditorImplementsFile == EditorSpec => EditorRefinesFile
<1>1. EditorInit => EditorInd /\ File!Init  BY EditorInitial
<1>2. EditorInd /\ [EditorNext]_editorVars => EditorInd' /\ [File!Next]_fileVars
  BY EditorStep
<1>3. fileVars = <<Current, callState, Crossed>>  BY DEF fileVars
<1>. QED  BY <1>1, <1>2, PTL DEF EditorSpec, EditorRefinesFile, File!Spec, fileVars, Crossed

\* The inode check behind the flock (lock.rs, editor.rs step 4) is enough: a call that no
\* outside rename crossed works on the file the path names until it replaces it, so no
\* call ever writes back a copy of a file another call has replaced.
THEOREM CurrentFileIsEdited == EditorSpec => []EditsTheCurrentFile
<1>1. EditorInit => EditorInd  BY EditorInitial
<1>2. EditorInd /\ [EditorNext]_editorVars => EditorInd'  BY EditorStep
<1>3. EditorInd => EditsTheCurrentFile  BY DEF EditorInd, CallInd, EditsTheCurrentFile
<1>. QED  BY <1>1, <1>2, <1>3, PTL DEF EditorSpec
-----------------------------------------------------------------------------
(* What was written stays. *)

\* A file that does not parse holds no rules.
NoRulesUnlessJson == \A i \in Inodes : data[i].kind # "json" => data[i].rules = {}

SavedInd == EditorInd /\ NoRulesUnlessJson /\ SavedRulesStay

\* Most steps change neither the file nor what was saved.
LEMMA FileAloneKeepsSaved ==
  ASSUME SavedInd, EditorInd', UNCHANGED <<path, data, saved>>
  PROVE  SavedInd'
BY DEF SavedInd, NoRulesUnlessJson, SavedRulesStay, Current

\* A call that opens the file or gives it braces does so when it holds no rule yet.
LEMMA OpenKeepsSaved ==
  ASSUME SavedInd, EditorInd', NEW k \in Calls, Open(k) \/ Fingerprint(k)
  PROVE  SavedInd'
<1>1. EditorTypes /\ EditorTypes' /\ NoRulesUnlessJson /\ saved \subseteq Current.rules
  BY DEF SavedInd, EditorInd, SavedRulesStay
<1>2. CASE Open(k)
  <2>1. CASE path # NoInode
    <3>1. UNCHANGED <<path, data, saved>>  BY <1>2, <2>1 DEF Open
    <3>. QED  BY <3>1, FileAloneKeepsSaved
  <2>2. CASE path = NoInode
    <3>1. data' = [data EXCEPT ![NewInode] = Blank("empty")] /\ saved' = saved
      BY <1>2, <2>2 DEF Open
    <3>2. NoRulesUnlessJson'
      BY <1>1, <3>1 DEF NoRulesUnlessJson, EditorTypes, Blank
    <3>3. saved = {}  BY <1>1, <2>2 DEF Current, Blank
    <3>. QED  BY <3>1, <3>2, <3>3 DEF SavedInd, SavedRulesStay
  <2>. QED  BY <2>1, <2>2
<1>3. CASE Fingerprint(k)
  <2>1. /\ path' = path /\ saved' = saved /\ fd[k] \in Inodes
        /\ data' = [data EXCEPT ![fd[k]] =
             IF data[fd[k]].kind = "empty" THEN Json({}) ELSE data[fd[k]]]
    BY <1>3 DEF SavedInd, EditorInd, CallInd, Fingerprint, Verified
  <2>2. \A i \in Inodes : data'[i].rules = data[i].rules /\ (data'[i].kind # "json" => data'[i] = data[i])
    BY <1>1, <2>1 DEF NoRulesUnlessJson, EditorTypes, Json
  <2>3. NoRulesUnlessJson'  BY <1>1, <2>2 DEF NoRulesUnlessJson
  <2>4. Current'.rules = Current.rules
    BY <1>1, <2>1, <2>2 DEF Current, EditorTypes
  <2>. QED  BY <1>1, <2>1, <2>3, <2>4 DEF SavedInd, SavedRulesStay
<1>. QED  BY <1>2, <1>3

\* A call that was not crossed sets aside a file without rules, and what it renames over
\* the path has all the file had.
LEMMA ReplaceKeepsSaved ==
  ASSUME SavedInd, EditorInd', NEW k \in Calls, SetAside(k) \/ Rename(k)
  PROVE  SavedInd'
<1>1. /\ EditorTypes /\ CallInd(k) /\ NoRulesUnlessJson /\ saved \subseteq Current.rules
      /\ fd[k] \in Inodes
  BY DEF SavedInd, EditorInd, SavedRulesStay, CallInd, SetAside, Rename, Verified
<1>2. CASE SetAside(k)
  <2>1. at[k] = "backup" /\ path' = NoInode /\ data' = data /\ saved' = IF late[k] THEN {} ELSE saved
    BY <1>2 DEF SetAside
  <2>2. saved' = {}
    <3>1. SUFFICES ASSUME ~late[k] PROVE saved = {}  BY <2>1
    <3>2. fd[k] = path /\ data[path].rules = {}
      BY <1>1, <2>1, <3>1 DEF CallInd, Verified, NoRulesUnlessJson
    <3>. QED  BY <1>1, <3>2, EditorAssumption DEF Current
  <2>3. NoRulesUnlessJson'  BY <1>1, <2>1 DEF NoRulesUnlessJson
  <2>. QED  BY <2>2, <2>3 DEF SavedInd, SavedRulesStay
<1>3. CASE Rename(k)
  <2>. DEFINE new == NewInode
  <2>1. /\ at[k] = "write" /\ path' = new /\ data' = [data EXCEPT ![new] = Json(value[k])]
        /\ saved' = Want[k] \cup (IF late[k] THEN saved \cap value[k] ELSE saved)
        /\ new \in Inodes
    BY <1>1, <1>3, InodeIsFree DEF Rename
  <2>. HIDE DEF new
  <2>2. NoRulesUnlessJson'
    BY <1>1, <2>1 DEF NoRulesUnlessJson, EditorTypes, Json
  <2>3. Current'.rules = value[k]
    BY <1>1, <2>1, EditorAssumption DEF Current, EditorTypes, Json
  <2>4. Want[k] \subseteq value[k] /\ (~late[k] => saved \subseteq value[k])
    BY <1>1, <2>1, EditorAssumption DEF CallInd, Verified, Current
  <2>5. saved' \subseteq Current'.rules  BY <2>1, <2>3, <2>4
  <2>. QED  BY <2>2, <2>5 DEF SavedInd, SavedRulesStay
<1>. QED  BY <1>2, <1>3

\* Outside edits undo what they undo, and saved says so.
LEMMA OutsideKeepsSaved ==
  ASSUME SavedInd, EditorInd', OutsideStep
  PROVE  SavedInd'
<1>1. EditorTypes /\ NoRulesUnlessJson /\ saved \subseteq Current.rules
  BY DEF SavedInd, EditorInd, SavedRulesStay
<1>2. CASE OutsideRead
  <2>1. UNCHANGED <<path, data, saved>>  BY <1>2 DEF OutsideRead
  <2>. QED  BY <2>1, FileAloneKeepsSaved
<1>3. CASE OutsideRename
  <2>1. NewInode \in Inodes /\ path' = NewInode  BY <1>1, <1>3, InodeIsFree DEF OutsideRename
  <2>2. PICK c \in {Json(outside.saw \cup Foreign), Blank("odd")} :
          data' = [data EXCEPT ![NewInode] = c] /\ saved' = saved \cap c.rules
    BY <1>3 DEF OutsideRename
  <2>3. c.kind # "json" => c.rules = {}  BY <2>2 DEF Json, Blank
  <2>4. NoRulesUnlessJson'
    BY <1>1, <2>1, <2>2, <2>3 DEF NoRulesUnlessJson, EditorTypes
  <2>5. Current' = c
    BY <1>1, <2>1, <2>2, EditorAssumption DEF Current, EditorTypes
  <2>. QED  BY <2>2, <2>4, <2>5 DEF SavedInd, SavedRulesStay
<1>4. CASE OutsideTruncate
  <2>1. PICK t \in {"empty", "torn"} : data' = [data EXCEPT ![path] = Blank(t)]
    BY <1>4 DEF OutsideTruncate
  <2>2. saved' = {}  BY <1>4 DEF OutsideTruncate
  <2>3. NoRulesUnlessJson'
    BY <1>1, <2>1 DEF NoRulesUnlessJson, EditorTypes, Blank
  <2>. QED  BY <2>2, <2>3 DEF SavedInd, SavedRulesStay
<1>5. CASE OutsideWrite
  <2>. DEFINE S == outside.saw \cup Foreign
  <2>1. /\ data' = [data EXCEPT ![outside.inode] = Json(S)] /\ path' = path
        /\ saved' = (IF outside.inode = path THEN saved \cap S ELSE saved)
        /\ outside.inode \in Inodes
    BY <1>1, <1>5 DEF OutsideWrite, EditorTypes
  <2>. HIDE DEF S
  <2>2. NoRulesUnlessJson'
    BY <1>1, <2>1 DEF NoRulesUnlessJson, EditorTypes, Json
  <2>3. CASE outside.inode = path
    <3>1. Current'.rules = S
      BY <1>1, <2>1, <2>3, EditorAssumption DEF Current, EditorTypes, Json
    <3>. QED  BY <2>1, <2>2, <2>3, <3>1 DEF SavedInd, SavedRulesStay
  <2>4. CASE outside.inode # path
    <3>1. Current' = Current
      BY <1>1, <2>1, <2>4 DEF Current, EditorTypes
    <3>. QED  BY <1>1, <2>1, <2>2, <2>4, <3>1 DEF SavedInd, SavedRulesStay
  <2>. QED  BY <2>3, <2>4
<1>. QED  BY <1>2, <1>3, <1>4, <1>5 DEF OutsideStep

\* No two writers that follow the protocol of editor.rs lose each other's rules: what a
\* click on "Always Allow" put into the settings file is there until somebody outside
\* the locks removes it, or crosses a call in a way the editor cannot see.
THEOREM SavedRulesRemain == EditorSpec => []SavedRulesStay
<1>1. EditorInit => SavedInd
  <2>. SUFFICES ASSUME EditorInit PROVE SavedInd  OBVIOUS
  <2>1. EditorInd  BY EditorInitial
  <2>2. NoRulesUnlessJson /\ SavedRulesStay
    BY DEF EditorInit, NoRulesUnlessJson, SavedRulesStay, Json, Blank
  <2>. QED  BY <2>1, <2>2 DEF SavedInd
<1>2. SavedInd /\ [EditorNext]_editorVars => SavedInd'
  <2>. SUFFICES ASSUME SavedInd, [EditorNext]_editorVars PROVE SavedInd'  OBVIOUS
  <2>1. EditorInd'  BY EditorStep DEF SavedInd
  <2>2. ASSUME NEW k \in Calls, CallStep(k) PROVE SavedInd'
    <3>1. CASE Open(k) \/ Fingerprint(k)  BY <2>1, <3>1, OpenKeepsSaved
    <3>2. CASE SetAside(k) \/ Rename(k)  BY <2>1, <3>2, ReplaceKeepsSaved
    <3>3. CASE \/ TakeFlock(k) \/ FlockTimeout(k) \/ Verify(k)
               \/ Read(k) \/ Recheck(k) \/ Reread(k) \/ Finish(k)
      <4>1. UNCHANGED <<path, data, saved>>
        BY <3>3 DEF TakeFlock, FlockTimeout, Verify, SameInode, StaleInode, Read, Recheck,
                    Reread, Finish
      <4>. QED  BY <2>1, <4>1, FileAloneKeepsSaved
    <3>. QED  BY <2>2, <3>1, <3>2, <3>3 DEF CallStep
  <2>3. ASSUME NEW k \in Calls, Ask(k) \/ Retry(k) \/ IoError(k) PROVE SavedInd'
    <3>1. UNCHANGED <<path, data, saved>>  BY <2>3 DEF Ask, Retry, IoError
    <3>. QED  BY <2>1, <3>1, FileAloneKeepsSaved
  <2>4. ASSUME NEW b \in Bots, Crash(b) PROVE SavedInd'
    <3>1. UNCHANGED <<path, data, saved>>  BY <2>4 DEF Crash
    <3>. QED  BY <2>1, <3>1, FileAloneKeepsSaved
  <2>5. CASE OutsideStep  BY <2>1, <2>5, OutsideKeepsSaved
  <2>6. CASE UNCHANGED editorVars
    <3>1. UNCHANGED <<path, data, saved>>  BY <2>6 DEF editorVars
    <3>. QED  BY <2>1, <3>1, FileAloneKeepsSaved
  <2>. QED  BY <2>2, <2>3, <2>4, <2>5, <2>6 DEF EditorNext
<1>3. SavedInd => SavedRulesStay  BY DEF SavedInd
<1>. QED  BY <1>1, <1>2, <1>3, PTL DEF EditorSpec
-----------------------------------------------------------------------------
(* The counters, which no other proof needs. *)

CounterTypes ==
  /\ tries \in [Calls -> 0..2] /\ again \in [Calls -> 0..(MaxTries - 1)]
  /\ edits \in Nat /\ mishaps \in Nat

\* A call opens the file three times at most and is repeated MaxTries - 1 times at most.
LEMMA CountersStep == CounterTypes /\ [EditorNext]_editorVars => CounterTypes'
<1>. SUFFICES ASSUME CounterTypes, [EditorNext]_editorVars PROVE CounterTypes'  OBVIOUS
<1>. USE DEF CounterTypes
<1>0. MaxTries \in Nat /\ 0 \in 0..(MaxTries - 1)  BY EditorAssumption
<1>1. ASSUME NEW k \in Calls, NEW r, Return(k, r)
      PROVE  tries' \in [Calls -> 0..2] /\ again' \in [Calls -> 0..(MaxTries - 1)]
  BY <1>0, <1>1 DEF Return
<1>2. ASSUME NEW k \in Calls, CallStep(k) PROVE CounterTypes'
  <2>1. edits' = edits /\ mishaps' = mishaps
    BY <1>2 DEF CallStep, Open, TakeFlock, FlockTimeout, Verify, SameInode, StaleInode,
                Fingerprint, Read, SetAside, Recheck, Reread, Rename, Finish
  <2>2. \/ UNCHANGED <<tries, again>>
        \/ \E r : Return(k, r)
        \/ tries[k] + 1 < 3 /\ tries' = [tries EXCEPT ![k] = @ + 1] /\ again' = again
    <3>1. CASE StaleInode(k)  BY <3>1 DEF StaleInode
    <3>2. CASE \/ Open(k) \/ TakeFlock(k) \/ SameInode(k) \/ Fingerprint(k) \/ Recheck(k) \/ Rename(k)
      BY <3>2 DEF Open, TakeFlock, SameInode, Fingerprint, Recheck, Rename
    <3>3. CASE FlockTimeout(k) \/ SetAside(k) \/ Finish(k)
      BY <3>3 DEF FlockTimeout, SetAside, Finish
    <3>4. CASE Read(k)
      <4>1. UNCHANGED <<tries, again>> \/ Return(k, "InvalidShape")  BY <3>4 DEF Read
      <4>. QED  BY <4>1
    <3>5. CASE Reread(k)
      <4>1. UNCHANGED <<tries, again>> \/ Return(k, "InvalidShape") \/ Return(k, "MtimeChanged")
        BY <3>5 DEF Reread
      <4>. QED  BY <4>1
    <3>. QED  BY <1>2, <3>1, <3>2, <3>3, <3>4, <3>5 DEF CallStep, Verify
  <2>3. tries' \in [Calls -> 0..2] /\ again' \in [Calls -> 0..(MaxTries - 1)]
    <3>1. CASE UNCHANGED <<tries, again>>  BY <3>1
    <3>2. CASE \E r : Return(k, r)  BY <1>1, <3>2
    <3>3. CASE tries[k] + 1 < 3 /\ tries' = [tries EXCEPT ![k] = @ + 1] /\ again' = again
      BY <3>3
    <3>. QED  BY <2>2, <3>1, <3>2, <3>3
  <2>. QED  BY <2>1, <2>3
<1>3. ASSUME NEW k \in Calls, Ask(k) \/ Retry(k) \/ IoError(k) PROVE CounterTypes'
  <2>1. CASE Ask(k)  BY <2>1 DEF Ask
  <2>2. CASE Retry(k)  BY <1>0, <2>2 DEF Retry
  <2>3. CASE IoError(k)
    <3>1. (\E r : Return(k, r)) /\ edits' = edits /\ mishaps' = mishaps + 1  BY <2>3 DEF IoError
    <3>. QED  BY <1>1, <3>1
  <2>. QED  BY <1>3, <2>1, <2>2, <2>3
<1>4. ASSUME NEW b \in Bots, Crash(b) PROVE CounterTypes'
  BY <1>0, <1>4 DEF Crash
<1>5. CASE OutsideStep
  BY <1>5 DEF OutsideStep, OutsideRead, OutsideRename, OutsideTruncate, OutsideWrite
<1>6. CASE UNCHANGED editorVars  BY <1>6 DEF editorVars
<1>. QED  BY <1>2, <1>3, <1>4, <1>5, <1>6 DEF EditorNext

\* Every variable of the editor keeps to its values: files are opened three times at most,
\* a call is repeated MAX_RETRIES times at most (editor.rs:238, interaction.rs:674),
\* and no rule is recorded as saved that is not one.
THEOREM EditorIsTyped == EditorSpec => []EditorTypeOK
<1>1. EditorInit => CounterTypes
  BY EditorAssumption DEF EditorInit, CounterTypes
<1>2. CounterTypes /\ [EditorNext]_editorVars => CounterTypes'  BY CountersStep
<1>3. EditorInit => EditorInd  BY EditorInitial
<1>4. EditorInd /\ [EditorNext]_editorVars => EditorInd'  BY EditorStep
<1>5. ASSUME EditorInd, CounterTypes, SavedRulesStay PROVE EditorTypeOK
  <2>1. EditorTypes  BY <1>5 DEF EditorInd
  <2>2. Current.rules \subseteq Rules
    BY <2>1 DEF EditorTypes, Current, Contents, Blank
  <2>3. saved \in SUBSET Rules  BY <1>5, <2>2 DEF SavedRulesStay
  <2>. QED  BY <1>5, <2>1, <2>3 DEF EditorTypes, CounterTypes, EditorTypeOK, Places, Outcomes
<1>. QED  BY <1>1, <1>2, <1>3, <1>4, <1>5, SavedRulesRemain, PTL DEF EditorSpec
=============================================================================
