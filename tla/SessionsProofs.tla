---------------------------- MODULE SessionsProofs ----------------------------
(***************************************************************************)
(* The registry of sessions, what a session runs besides its turns,        *)
(* /branch, which hands one session's work to another, and the update of   *)
(* the bot under them; then the types of all the services.                 *)
(***************************************************************************)
EXTENDS MCServices, RulesProofs, FiniteSetTheorems, SequenceTheorems, TLAPS

(* The registry for any number of threads, callers and sessions: the map keeps to     *)
(* max_sessions, no Claude process is forgotten, and the announced number is right     *)
(* until a session ends by itself.                                                     *)
(*                                                                                     *)
(* The limit is not inductive by itself: between the test of get_or_create and its     *)
(* insertion the child of the evicted session is killed and a new one spawned.         *)
(* SpawnHasRoom says what holds over those steps: whoever is between them holds the    *)
(* lock, finds room and no session of its thread.                                      *)

SpawnHasRoom ==
  \A c \in Callers : call[c].pc \in {"evict", "spawn"} =>
    /\ holder = c
    /\ call[c].thread \in SessionThreads /\ sessions[call[c].thread] = NoGen
    /\ Size(sessions) < MaxSessions

CountIsRight ==
  /\ ~drifted => announced = Size(sessions)
  /\ \A g \in Gens : task[g] = "cleaning" => drifted

RegistryInd ==
  RegistryTypeOK /\ SpawnHasRoom /\ NeverOverLimit /\ NoStrayProcess /\ CountIsRight

\* Who will kill g, or whose it is.
Owned(g) ==
  \/ \E t \in SessionThreads : sessions[t] = g
  \/ \E c \in Callers : call[c].pc \in {"evict", "kill"} /\ call[c].gen = g
  \/ g \in sweep
  \/ task[g] \in {"killing", "cleaning", "reaping"}
-----------------------------------------------------------------------------
(* The size of the map. *)

\* A map is as large as its set of threads is finite.
LEMMA SizeIsNat == ASSUME NEW m PROVE Size(m) \in Nat /\ IsFiniteSet(Entries(m))
<1>1. Entries(m) \in SUBSET SessionThreads  BY DEF Entries
<1>2. IsFiniteSet(Entries(m))  BY <1>1, FS_Subset, RegistryAssumption
<1>. QED  BY <1>2, FS_CardinalityType DEF Size

\* Taking sessions out makes the m smaller, by one at least if one was there.
LEMMA SizeShrinks ==
  ASSUME NEW m, NEW map2, Entries(map2) \subseteq Entries(m)
  PROVE  /\ Size(map2) <= Size(m)
         /\ \A t \in Entries(m) : t \notin Entries(map2) => Size(map2) < Size(m)
<1>1. IsFiniteSet(Entries(m)) /\ Entries(map2) \in SUBSET Entries(m)
  BY SizeIsNat
<1>2. Size(map2) <= Size(m)
  BY <1>1, FS_Subset DEF Size
<1>3. ASSUME NEW t \in Entries(m), t \notin Entries(map2) PROVE Size(map2) < Size(m)
  <2>1. Size(map2) # Size(m)
    BY <1>1, <1>3, FS_Subset DEF Size
  <2>. QED  BY <1>2, <2>1, SizeIsNat
<1>. QED  BY <1>2, <1>3

\* One insertion makes it larger by one at most.
LEMMA SizeGrows ==
  ASSUME NEW m \in [SessionThreads -> Gens \cup {NoGen}], NEW t \in SessionThreads, NEW g
  PROVE  Size([m EXCEPT ![t] = g]) <= Size(m) + 1
<1>. DEFINE grown == [m EXCEPT ![t] = g]
<1>1. Entries(grown) \in SUBSET (Entries(m) \cup {t})
  BY DEF Entries
<1>. HIDE DEF grown
<1>2. /\ IsFiniteSet(Entries(m) \cup {t})
      /\ Cardinality(Entries(m) \cup {t}) <= Size(m) + 1
  BY SizeIsNat, FS_AddElement DEF Size
<1>3. Size(grown) <= Cardinality(Entries(m) \cup {t})
  BY <1>1, <1>2, FS_Subset DEF Size
<1>4. Cardinality(Entries(m) \cup {t}) \in Nat
  BY <1>2, FS_CardinalityType
<1>. QED  BY <1>2, <1>3, <1>4, SizeIsNat DEF grown
-----------------------------------------------------------------------------
\* At boot there is no session.
LEMMA RegistryInitial == RegistryInit => RegistryInd
<1>. SUFFICES ASSUME RegistryInit PROVE RegistryInd  OBVIOUS
<1>. USE DEF RegistryInit
<1>1. Entries(sessions) = {}  BY DEF Entries
<1>2. Size(sessions) = 0  BY <1>1, FS_EmptySet DEF Size
<1>3. RegistryTypeOK
  <2>1. drifted \in BOOLEAN /\ holder \in Callers \cup Gens \cup {NoCaller}  OBVIOUS
  <2>2. call \in [Callers -> [pc : {"none", "evict", "spawn", "kill"},
                             gen : Gens \cup {NoGen}, thread : SessionThreads \cup {NoGen}]]
    BY DEF NoCall
  <2>3. sessions \in [SessionThreads -> Gens \cup {NoGen}]  OBVIOUS
  <2>. QED  BY <2>1, <2>2, <2>3, RegistryAssumption DEF RegistryTypeOK
<1>. QED
  BY <1>2, <1>3, RegistryAssumption
  DEF RegistryInd, SpawnHasRoom, NeverOverLimit, NoStrayProcess, CountIsRight, NoCall

\* While the lock is free nobody is between the test and the insertion.
LEMMA FreeLock ==
  ASSUME RegistryInd, LockFree
  PROVE  \A c \in Callers : call[c].pc \notin {"evict", "spawn"}
BY RegistryAssumption DEF RegistryInd, SpawnHasRoom, LockFree

\* What a step takes out of the map goes to somebody who will kill it.
LEMMA Handover ==
  ASSUME RegistryInd, alive' \subseteq alive,
         \A g \in alive' : Owned(g) => Owned(g)'
  PROVE  NoStrayProcess'
BY DEF RegistryInd, NoStrayProcess, Owned

\* Aborting supervisors takes no process from one that is about to kill it.
LEMMA AbortKeeps ==
  ASSUME RegistryTypeOK, NEW gone \in SUBSET Gens, Abort(gone)
  PROVE  /\ task' \in [Gens -> {"none", "watching", "exiting", "killing", "panicked",
                                "cleaning", "reaping", "ended"}]
         /\ \A g \in Gens : /\ task[g] \in {"killing", "cleaning", "reaping"} => task'[g] = task[g]
                            /\ task'[g] = "cleaning" => task[g] = "cleaning"
BY DEF RegistryTypeOK, Abort

\* Taking generations out of the map leaves the others where they are.
LEMMA WithoutKeeps ==
  ASSUME RegistryTypeOK, NEW gone
  PROVE  /\ Without(gone) \in [SessionThreads -> Gens \cup {NoGen}]
         /\ Entries(Without(gone)) \subseteq Entries(sessions)
         /\ \A t \in SessionThreads :
              sessions[t] \notin gone => Without(gone)[t] = sessions[t]
         /\ \A t \in Entries(sessions) :
              sessions[t] \in gone => t \notin Entries(Without(gone))
BY DEF RegistryTypeOK, Without, Entries, NoGen
-----------------------------------------------------------------------------
(* get_or_create. *)

\* The least recently used idle session makes room: it leaves the map and its process is killed.
LEMMA EvictKeeps ==
  ASSUME RegistryInd, NEW c \in Callers, NEW t \in SessionThreads, Evict(c, t)
  PROVE  RegistryInd'
<1>. USE DEF Evict, Start
<1>0. RegistryTypeOK /\ NeverOverLimit /\ CountIsRight  BY DEF RegistryInd
<1>1. PICK v \in Idle :
        /\ sessions' = Without({sessions[v]})
        /\ Abort({sessions[v]}) /\ Announce(sessions')
        /\ busy' = busy \ {sessions[v]}
        /\ holder' = c
        /\ call' = [call EXCEPT ![c] = [pc |-> "evict", gen |-> sessions[v], thread |-> t]]
  OBVIOUS
<1>2. v \in Entries(sessions) /\ v \in SessionThreads /\ sessions[v] \in Gens
  BY <1>0, <1>1 DEF Idle, Entries, RegistryTypeOK
<1>3. /\ UNCHANGED <<alive, left, sweep, spawned, drifted>> /\ sessions[t] = NoGen
      /\ calls' = calls + 1 /\ calls < MaxCalls /\ call[c].pc = "none" /\ LockFree
  OBVIOUS
<1>. HIDE DEF Evict, Start
<1>4. /\ sessions' \in [SessionThreads -> Gens \cup {NoGen}]
      /\ Size(sessions') < Size(sessions) /\ sessions'[t] = NoGen
      /\ \A u \in SessionThreads : sessions[u] # sessions[v] => sessions'[u] = sessions[u]
  <2>1. Entries(sessions') \subseteq Entries(sessions) /\ v \notin Entries(sessions')
    BY <1>0, <1>1, <1>2, WithoutKeeps
  <2>2. Size(sessions') < Size(sessions)  BY <1>2, <2>1, SizeShrinks
  <2>3. t \notin Entries(sessions')  BY <1>3, <2>1 DEF Entries
  <2>. QED  BY <1>0, <1>1, <2>2, <2>3, WithoutKeeps DEF Entries
<1>5. RegistryTypeOK'
  <2>1. call' \in [Callers -> [pc : {"none", "evict", "spawn", "kill"},
                              gen : Gens \cup {NoGen}, thread : SessionThreads \cup {NoGen}]]
    BY <1>0, <1>1, <1>2 DEF RegistryTypeOK
  <2>2. calls' \in 0 .. MaxCalls  BY <1>0, <1>3, RegistryAssumption DEF RegistryTypeOK
  <2>3. announced' \in Nat  BY <1>1, SizeIsNat DEF Announce
  <2>4. task' \in [Gens -> {"none", "watching", "exiting", "killing", "panicked",
                           "cleaning", "reaping", "ended"}]
    BY <1>0, <1>1, <1>2, AbortKeeps
  <2>. QED  BY <1>0, <1>1, <1>3, <1>4, <2>1, <2>2, <2>3, <2>4 DEF RegistryTypeOK
<1>6. Size(sessions') < MaxSessions
  BY <1>0, <1>4, SizeIsNat, RegistryAssumption DEF NeverOverLimit
<1>7. SpawnHasRoom'
  <2>1. \A d \in Callers \ {c} : call'[d].pc \notin {"evict", "spawn"}
    BY <1>0, <1>1, <1>3, FreeLock DEF RegistryTypeOK
  <2>2. call'[c].thread = t  BY <1>0, <1>1 DEF RegistryTypeOK
  <2>. QED  BY <1>1, <1>4, <1>6, <2>1, <2>2 DEF SpawnHasRoom
<1>8. NoStrayProcess'
  <2>1. SUFFICES ASSUME NEW g \in alive, Owned(g) PROVE Owned(g)'
    BY <1>3, Handover
  <2>2. g \in Gens  BY <1>0 DEF RegistryTypeOK
  <2>3. CASE \E u \in SessionThreads : sessions[u] = g
    <3>1. CASE g = sessions[v]  BY <1>0, <1>1, <3>1 DEF Owned, RegistryTypeOK
    <3>2. CASE g # sessions[v]  BY <1>4, <2>3, <3>2 DEF Owned
    <3>. QED  BY <3>1, <3>2
  <2>4. CASE \E d \in Callers : call[d].pc \in {"evict", "kill"} /\ call[d].gen = g
    BY <1>0, <1>1, <1>3, <2>4 DEF Owned, RegistryTypeOK
  <2>5. CASE g \in sweep  BY <1>3, <2>5 DEF Owned
  <2>6. CASE task[g] \in {"killing", "cleaning", "reaping"}
    BY <1>1, <2>2, <2>6 DEF Abort, Owned
  <2>. QED  BY <2>1, <2>3, <2>4, <2>5, <2>6 DEF Owned
<1>9. CountIsRight'
  <2>1. \A g \in Gens : task'[g] = "cleaning" => task[g] = "cleaning"
    BY <1>1 DEF Abort
  <2>2. announced' = Size(sessions')  BY <1>1 DEF Announce
  <2>3. (\A g \in Gens : task[g] = "cleaning" => drifted) /\ drifted' = drifted
    BY <1>0, <1>3 DEF CountIsRight
  <2>4. (\A g \in Gens : task[g] = "cleaning" => drifted)'  BY <2>1, <2>3, Zenon
  <2>. QED  BY <2>2, <2>4 DEF CountIsRight, Size, Entries
<1>10. NeverOverLimit'
  BY <1>6, SizeIsNat, RegistryAssumption DEF NeverOverLimit
<1>. QED  BY <1>5, <1>7, <1>8, <1>9, <1>10 DEF RegistryInd

\* There is a slot: who takes the lock finds room.
LEMMA HasSlotKeeps ==
  ASSUME RegistryInd, NEW c \in Callers, NEW t \in SessionThreads, HasSlot(c, t)
  PROVE  RegistryInd'
<1>. USE DEF HasSlot, Start
<1>1. RegistryTypeOK /\ NeverOverLimit /\ CountIsRight  BY DEF RegistryInd
<1>2. call'[c] = [pc |-> "spawn", gen |-> NoGen, thread |-> t]
      /\ (\A d \in Callers \ {c} : call'[d] = call[d]) /\ call[c].pc = "none"
  BY <1>1 DEF RegistryTypeOK
<1>3. Size(sessions) < MaxSessions
  BY SizeIsNat, RegistryAssumption DEF Full
<1>4. SpawnHasRoom'
  BY <1>1, <1>2, <1>3, FreeLock DEF SpawnHasRoom, Size, Entries
<1>5. NoStrayProcess'
  <2>1. SUFFICES ASSUME NEW g \in alive, Owned(g) PROVE Owned(g)'
    BY Handover
  <2>. QED  BY <1>2, <2>1 DEF Owned
<1>6. RegistryTypeOK'
  <2>1. call' \in [Callers -> [pc : {"none", "evict", "spawn", "kill"},
                             gen : Gens \cup {NoGen}, thread : SessionThreads \cup {NoGen}]]
    BY <1>1 DEF RegistryTypeOK
  <2>2. calls' \in 0 .. MaxCalls  BY <1>1, RegistryAssumption DEF RegistryTypeOK
  <2>. QED  BY <1>1, <2>1, <2>2 DEF RegistryTypeOK
<1>7. NeverOverLimit' /\ CountIsRight'
  BY <1>1 DEF NeverOverLimit, CountIsRight, Size, Entries
<1>. QED  BY <1>4, <1>5, <1>6, <1>7 DEF RegistryInd

\* The insertion: the room that was found is still there, and no session is replaced.
LEMMA SpawnKeeps ==
  ASSUME RegistryInd, NEW c \in Callers, Spawn(c)
  PROVE  RegistryInd'
<1>. USE DEF Spawn
<1>1. RegistryTypeOK /\ NeverOverLimit /\ CountIsRight  BY DEF RegistryInd
<1>. DEFINE t == call[c].thread
<1>2. /\ holder = c /\ t \in SessionThreads /\ sessions[t] = NoGen /\ Size(sessions) < MaxSessions
      /\ \A d \in Callers \ {c} : call[d].pc \notin {"evict", "spawn"}
  BY DEF RegistryInd, SpawnHasRoom
<1>3. /\ spawned' \in Gens /\ spawned' \in 0 .. MaxSpawns
  BY <1>1, RegistryAssumption DEF RegistryTypeOK, Gens
<1>4. /\ sessions' = [sessions EXCEPT ![t] = spawned']
      /\ task' = [task EXCEPT ![spawned'] = "watching"]
      /\ call' = [call EXCEPT ![c] = NoCall] /\ announced' = Size(sessions')
      /\ alive' = alive \cup {spawned'} /\ holder' = NoCaller /\ call[c].pc = "spawn"
      /\ UNCHANGED <<busy, left, sweep, calls, drifted>>
  BY DEF Announce
<1>. HIDE DEF t, Spawn
<1>5. Size(sessions') <= Size(sessions) + 1
  BY <1>1, <1>2, <1>4, SizeGrows DEF RegistryTypeOK
<1>6. NeverOverLimit'
  BY <1>2, <1>5, SizeIsNat, RegistryAssumption DEF NeverOverLimit, Size, Entries
<1>7. call'[c].pc = "none" /\ \A d \in Callers \ {c} : call'[d] = call[d]
  BY <1>1, <1>4 DEF RegistryTypeOK, NoCall
<1>8. SpawnHasRoom'
  BY <1>2, <1>7 DEF SpawnHasRoom
<1>9. NoStrayProcess'
  <2>1. sessions'[t] = spawned' /\ \A u \in SessionThreads \ {t} : sessions'[u] = sessions[u]
    BY <1>1, <1>2, <1>4 DEF RegistryTypeOK
  <2>2. SUFFICES ASSUME NEW g \in alive, g # spawned', Owned(g) PROVE Owned(g)'
    BY <1>2, <1>4, <2>1 DEF RegistryInd, NoStrayProcess, Owned
  <2>3. g \in Gens /\ g # NoGen /\ task'[g] = task[g]
    BY <1>1, <1>4, <2>2 DEF RegistryTypeOK, Gens, NoGen
  <2>4. CASE \E u \in SessionThreads : sessions[u] = g
    BY <1>2, <2>1, <2>3, <2>4 DEF Owned
  <2>5. CASE \E d \in Callers : call[d].pc \in {"evict", "kill"} /\ call[d].gen = g
    BY <1>4, <1>7, <2>5 DEF Owned
  <2>6. CASE g \in sweep \/ task[g] \in {"killing", "cleaning", "reaping"}
    BY <1>4, <2>3, <2>6 DEF Owned
  <2>. QED  BY <2>2, <2>4, <2>5, <2>6 DEF Owned
<1>10. CountIsRight'
  <2>1. \A g \in Gens : task'[g] = "cleaning" => task[g] = "cleaning"
    BY <1>1, <1>4 DEF RegistryTypeOK
  <2>. QED  BY <1>1, <1>4, <2>1 DEF CountIsRight, Size, Entries
<1>11. RegistryTypeOK'
  <2>1. call' \in [Callers -> [pc : {"none", "evict", "spawn", "kill"},
                             gen : Gens \cup {NoGen}, thread : SessionThreads \cup {NoGen}]]
    BY <1>1, <1>4 DEF RegistryTypeOK, NoCall
  <2>2. announced' \in Nat  BY <1>4, SizeIsNat
  <2>3. sessions' \in [SessionThreads -> Gens \cup {NoGen}] /\ alive' \subseteq Gens
    BY <1>1, <1>3, <1>4 DEF RegistryTypeOK
  <2>4. task' \in [Gens -> {"none", "watching", "exiting", "killing", "panicked",
                          "cleaning", "reaping", "ended"}]
    BY <1>1, <1>4 DEF RegistryTypeOK
  <2>. QED  BY <1>1, <1>3, <1>4, <2>1, <2>2, <2>3, <2>4 DEF RegistryTypeOK
<1>. QED  BY <1>6, <1>8, <1>9, <1>10, <1>11 DEF RegistryInd
-----------------------------------------------------------------------------
(* The others: those that take sessions out of the map under the free lock, *)
(* and those that leave the map alone.                                      *)

\* Whoever removes sessions under the lock makes the map smaller only.
LEMMA RemovalKeeps ==
  ASSUME RegistryInd, RegistryTypeOK', NoStrayProcess', LockFree,
         Entries(sessions') \subseteq Entries(sessions),
         \A c \in Callers : call'[c].pc \in {"evict", "spawn"} => call[c].pc \in {"evict", "spawn"},
         drifted' \/ (announced' = Size(sessions') /\ drifted' = drifted
                      /\ \A g \in Gens : task'[g] = "cleaning" => task[g] = "cleaning")
  PROVE  RegistryInd'
<1>1. NeverOverLimit /\ CountIsRight  BY DEF RegistryInd
<1>2. Size(sessions') <= Size(sessions)  BY SizeShrinks
<1>3. Size(sessions') <= MaxSessions
  BY <1>1, <1>2, SizeIsNat, RegistryAssumption DEF NeverOverLimit
<1>4. NeverOverLimit'  BY <1>3 DEF NeverOverLimit, Size, Entries
<1>5. SpawnHasRoom'  BY FreeLock DEF SpawnHasRoom
<1>6. CountIsRight'  BY <1>1 DEF CountIsRight, Size, Entries
<1>. QED  BY <1>4, <1>5, <1>6 DEF RegistryInd

\* Who leaves the map and the number alone, and enters no step of get_or_create.
LEMMA MapStays ==
  ASSUME RegistryInd, RegistryTypeOK', NoStrayProcess',
         UNCHANGED <<sessions, announced, drifted>>,
         \A c \in Callers : call'[c].pc \in {"evict", "spawn"} =>
            call[c].pc \in {"evict", "spawn"} /\ call'[c].thread = call[c].thread /\ holder' = holder,
         \A g \in Gens : task'[g] = "cleaning" => task[g] = "cleaning"
  PROVE  RegistryInd'
<1>1. NeverOverLimit' /\ CountIsRight' /\ SpawnHasRoom'
  BY DEF RegistryInd, NeverOverLimit, CountIsRight, SpawnHasRoom, Size, Entries
<1>. QED  BY <1>1 DEF RegistryInd

\* /sleep and the like: the session leaves the map, its caller will kill the child.
LEMMA KillKeeps ==
  ASSUME RegistryInd, NEW c \in Callers, NEW t \in SessionThreads, KillSession(c, t)
  PROVE  RegistryInd'
<1>. USE DEF KillSession, Start
<1>1. RegistryTypeOK  BY DEF RegistryInd
<1>2. sessions[t] \in Gens  BY <1>1 DEF RegistryTypeOK
<1>3. call'[c] = [pc |-> "kill", gen |-> sessions[t], thread |-> t]
      /\ (\A d \in Callers \ {c} : call'[d] = call[d]) /\ call[c].pc = "none"
  BY <1>1 DEF RegistryTypeOK
<1>4. \A u \in SessionThreads : u # t => sessions'[u] = sessions[u]
  BY <1>1 DEF RegistryTypeOK
<1>5. Entries(sessions') \subseteq Entries(sessions)
  BY <1>1, <1>4 DEF Entries, RegistryTypeOK
<1>6. RegistryTypeOK'
  <2>1. call' \in [Callers -> [pc : {"none", "evict", "spawn", "kill"},
                             gen : Gens \cup {NoGen}, thread : SessionThreads \cup {NoGen}]]
    BY <1>1, <1>2 DEF RegistryTypeOK
  <2>2. calls' \in 0 .. MaxCalls /\ announced' \in Nat
    BY <1>1, SizeIsNat, RegistryAssumption DEF RegistryTypeOK, Announce
  <2>3. task' \in [Gens -> {"none", "watching", "exiting", "killing", "panicked",
                          "cleaning", "reaping", "ended"}]
    BY <1>1 DEF RegistryTypeOK, Abort
  <2>. QED  BY <1>1, <2>1, <2>2, <2>3 DEF RegistryTypeOK
<1>7. NoStrayProcess'
  <2>1. SUFFICES ASSUME NEW g \in alive, Owned(g) PROVE Owned(g)'
    BY Handover
  <2>2. g \in Gens  BY <1>1 DEF RegistryTypeOK
  <2>3. CASE \E u \in SessionThreads : sessions[u] = g  BY <1>3, <1>4, <2>3 DEF Owned
  <2>4. CASE \E d \in Callers : call[d].pc \in {"evict", "kill"} /\ call[d].gen = g
    BY <1>3, <2>4 DEF Owned
  <2>5. CASE g \in sweep \/ task[g] \in {"killing", "cleaning", "reaping"}
    BY <2>2, <2>5 DEF Owned, Abort
  <2>. QED  BY <2>1, <2>3, <2>4, <2>5 DEF Owned
<1>8. announced' = Size(sessions') /\ drifted' = drifted /\ LockFree
      /\ \A g \in Gens : task'[g] = "cleaning" => task[g] = "cleaning"
  BY DEF Announce, Abort
<1>. HIDE DEF KillSession, Start
<1>. QED  BY <1>3, <1>5, <1>6, <1>7, <1>8, RemovalKeeps

\* The sweep: what it takes out it keeps in its own set until it has killed it.
LEMMA SweepKeeps ==
  ASSUME RegistryInd, SweepIdle
  PROVE  RegistryInd'
<1>. USE DEF SweepIdle
<1>1. RegistryTypeOK  BY DEF RegistryInd
<1>2. PICK gone \in SUBSET {sessions[t] : t \in Idle} :
        gone # {} /\ sessions' = Without(gone) /\ Abort(gone) /\ sweep' = gone
  OBVIOUS
<1>3. gone \subseteq Gens
  BY <1>1, <1>2 DEF Idle, Entries, RegistryTypeOK
<1>4. Entries(sessions') \subseteq Entries(sessions)
      /\ sessions' \in [SessionThreads -> Gens \cup {NoGen}]
      /\ \A t \in SessionThreads : sessions[t] \notin gone => sessions'[t] = sessions[t]
  BY <1>1, <1>2, WithoutKeeps
<1>5. RegistryTypeOK'
  <2>1. calls' \in 0 .. MaxCalls /\ announced' \in Nat
    BY <1>1, SizeIsNat, RegistryAssumption DEF RegistryTypeOK, Announce
  <2>2. task' \in [Gens -> {"none", "watching", "exiting", "killing", "panicked",
                          "cleaning", "reaping", "ended"}]
    BY <1>1, <1>2 DEF RegistryTypeOK, Abort
  <2>. QED  BY <1>1, <1>2, <1>3, <1>4, <2>1, <2>2 DEF RegistryTypeOK
<1>6. NoStrayProcess'
  <2>1. SUFFICES ASSUME NEW g \in alive, Owned(g) PROVE Owned(g)'
    BY Handover
  <2>2. g \in Gens  BY <1>1 DEF RegistryTypeOK
  <2>3. CASE \E u \in SessionThreads : sessions[u] = g  BY <1>2, <1>4, <2>3 DEF Owned
  <2>4. CASE \E d \in Callers : call[d].pc \in {"evict", "kill"} /\ call[d].gen = g
    BY <2>4 DEF Owned
  <2>5. CASE task[g] \in {"killing", "cleaning", "reaping"}
    BY <1>2, <2>2, <2>5 DEF Owned, Abort
  <2>. QED  BY <2>1, <2>3, <2>4, <2>5 DEF Owned
<1>7. announced' = Size(sessions') /\ drifted' = drifted /\ LockFree /\ call' = call
      /\ \A g \in Gens : task'[g] = "cleaning" => task[g] = "cleaning"
  BY <1>2 DEF Announce, Abort
<1>. HIDE DEF SweepIdle
<1>. QED  BY <1>4, <1>5, <1>6, <1>7, RemovalKeeps

\* A worker that ended removes its own session and kills the child under the lock.
LEMMA ExitKeeps ==
  ASSUME RegistryInd, NEW g \in Gens, NEW t \in SessionThreads, ExitRemoves(g, t)
  PROVE  RegistryInd'
<1>. USE DEF ExitRemoves
<1>1. RegistryTypeOK  BY DEF RegistryInd
<1>2. \A u \in SessionThreads : u # t => sessions'[u] = sessions[u]
  BY <1>1 DEF RegistryTypeOK
<1>3. Entries(sessions') \subseteq Entries(sessions)
  BY <1>1, <1>2 DEF Entries, RegistryTypeOK
<1>4. RegistryTypeOK'
  <2>1. drifted' \in BOOLEAN  OBVIOUS
  <2>. QED  BY <1>1, <2>1 DEF RegistryTypeOK
<1>5. task'[g] = "killing" /\ \A h \in Gens : h # g => task'[h] = task[h]
  BY <1>1 DEF RegistryTypeOK
<1>6. NoStrayProcess'
  <2>1. SUFFICES ASSUME NEW h \in alive, Owned(h) PROVE Owned(h)'
    BY Handover
  <2>2. h \in Gens  BY <1>1 DEF RegistryTypeOK
  <2>. QED  BY <1>2, <1>5, <2>1, <2>2 DEF Owned
<1>. QED  BY <1>3, <1>4, <1>6, RemovalKeeps

\* The cleanup of a panic removes the session it finds with the lock free.
LEMMA CoreKeeps ==
  ASSUME RegistryInd, NEW g \in Gens, CleanupCore(g)
  PROVE  RegistryInd'
<1>. USE DEF CleanupCore
<1>1. RegistryTypeOK  BY DEF RegistryInd
<1>2. Entries(sessions') \subseteq Entries(sessions)
      /\ sessions' \in [SessionThreads -> Gens \cup {NoGen}]
      /\ \A t \in SessionThreads : sessions[t] # g => sessions'[t] = sessions[t]
  BY <1>1, WithoutKeeps
<1>3. RegistryTypeOK'
  <2>1. drifted' \in BOOLEAN /\ Size(sessions') \in Nat  BY SizeIsNat
  <2>2. left' \in [Gens -> Nat]  BY <1>1, <2>1 DEF RegistryTypeOK
  <2>. QED  BY <1>1, <1>2, <2>1, <2>2 DEF RegistryTypeOK
<1>4. task'[g] = "cleaning" /\ \A h \in Gens : h # g => task'[h] = task[h]
  BY <1>1 DEF RegistryTypeOK
<1>5. NoStrayProcess'
  <2>1. SUFFICES ASSUME NEW h \in alive, Owned(h) PROVE Owned(h)'
    BY Handover
  <2>2. h \in Gens  BY <1>1 DEF RegistryTypeOK
  <2>. QED  BY <1>2, <1>4, <2>1, <2>2 DEF Owned
<1>. QED  BY <1>2, <1>3, <1>5, RemovalKeeps

\* The count of a panic's cleanup comes late: by then it may be wrong.
LEMMA LateCountKeeps ==
  ASSUME RegistryInd, NEW g \in Gens, CleanupAnnounces(g)
  PROVE  RegistryInd'
<1>. USE DEF CleanupAnnounces
<1>1. RegistryTypeOK /\ SpawnHasRoom /\ CountIsRight /\ NeverOverLimit  BY DEF RegistryInd
<1>2. drifted  BY <1>1 DEF CountIsRight
<1>3. RegistryTypeOK'  BY <1>1 DEF RegistryTypeOK
<1>4. NoStrayProcess'
  <2>1. SUFFICES ASSUME NEW h \in alive, Owned(h) PROVE Owned(h)'
    BY Handover
  <2>2. h \in Gens  BY <1>1 DEF RegistryTypeOK
  <2>. QED  BY <1>1, <2>1, <2>2 DEF Owned, RegistryTypeOK
<1>5. SpawnHasRoom' /\ CountIsRight' /\ NeverOverLimit'
  BY <1>1, <1>2 DEF SpawnHasRoom, CountIsRight, NeverOverLimit, Size, Entries
<1>. QED  BY <1>3, <1>4, <1>5 DEF RegistryInd

\* A caller goes on, or gives up: it kills what it took out before it forgets it.
LEMMA CallersKeep ==
  ASSUME RegistryInd, NEW c \in Callers, EvictedDies(c) \/ SpawnFails(c) \/ KilledDies(c)
  PROVE  RegistryInd'
<1>1. RegistryTypeOK /\ SpawnHasRoom  BY DEF RegistryInd
<1>2. /\ call'[c].pc \in {"spawn", "none"} /\ call[c].pc \in {"evict", "spawn", "kill"}
      /\ call'[c].pc = "spawn" =>
           call[c].pc = "evict" /\ call'[c].thread = call[c].thread /\ holder' = holder
      /\ \A d \in Callers \ {c} : call'[d] = call[d]
      /\ alive' \in {alive, alive \ {call[c].gen}}
      /\ call[c].pc \in {"evict", "kill"} => alive' = alive \ {call[c].gen}
      /\ holder' # holder => holder' = NoCaller /\ call[c].pc = "spawn"
      /\ UNCHANGED <<sessions, busy, task, left, sweep, announced, spawned, calls, drifted>>
  BY <1>1 DEF EvictedDies, SpawnFails, KilledDies, RegistryTypeOK, NoCall
<1>3. RegistryTypeOK'
  <2>1. call' \in [Callers -> [pc : {"none", "evict", "spawn", "kill"},
                             gen : Gens \cup {NoGen}, thread : SessionThreads \cup {NoGen}]]
    BY <1>1 DEF EvictedDies, SpawnFails, KilledDies, RegistryTypeOK, NoCall
  <2>. QED  BY <1>1, <1>2, <2>1 DEF RegistryTypeOK
<1>4. NoStrayProcess'
  <2>1. SUFFICES ASSUME NEW g \in alive', Owned(g) PROVE Owned(g)'
    BY <1>2, Handover
  <2>2. CASE \E d \in Callers : call[d].pc \in {"evict", "kill"} /\ call[d].gen = g
    BY <1>2, <2>1, <2>2 DEF Owned
  <2>. QED  BY <1>2, <2>1, <2>2 DEF Owned
<1>5. ASSUME NEW d \in Callers, call'[d].pc \in {"evict", "spawn"}
      PROVE  call[d].pc \in {"evict", "spawn"} /\ call'[d].thread = call[d].thread /\ holder' = holder
  <2>1. CASE d = c  BY <1>2, <1>5, <2>1
  <2>2. CASE d # c
    <3>1. call'[d] = call[d] /\ call[d].pc \in {"evict", "spawn"}  BY <1>2, <1>5, <2>2
    <3>2. holder = d  BY <1>1, <3>1 DEF SpawnHasRoom
    <3>3. call[c].pc # "spawn"  BY <1>1, <2>2, <3>2 DEF SpawnHasRoom
    <3>. QED  BY <1>2, <3>1, <3>3
  <2>. QED  BY <2>1, <2>2
<1>. QED  BY <1>2, <1>3, <1>4, <1>5, MapStays

\* The worker and its supervisor, as long as the session stays in the map.
LEMMA TasksKeep ==
  ASSUME RegistryInd, NEW g \in Gens,
         SweptDies(g) \/ BeginWork(g) \/ EndWork(g) \/ WorkerEnds(g) \/ Panic(g)
         \/ CleanupKills(g)
  PROVE  RegistryInd'
<1>1. RegistryTypeOK  BY DEF RegistryInd
<1>2. /\ UNCHANGED <<sessions, left, holder, call, announced, spawned, calls, drifted>>
      /\ alive' \in {alive, alive \ {g}} /\ sweep' \in {sweep, sweep \ {g}}
      /\ busy' \in {busy, busy \cup {g}, busy \ {g}}
      /\ \A h \in Gens : h # g => task'[h] = task[h]
      /\ task'[g] # task[g] => task'[g] \in {"exiting", "panicked", "ended"}
      /\ g \in alive' => sweep' = sweep
      /\ g \in alive' /\ task'[g] # task[g] => task[g] \in {"watching", "exiting"}
  BY <1>1 DEF SweptDies, BeginWork, EndWork, WorkerEnds, Panic, CleanupKills, RegistryTypeOK
<1>3. RegistryTypeOK'
  <2>1. task' \in [Gens -> {"none", "watching", "exiting", "killing", "panicked",
                          "cleaning", "reaping", "ended"}]
    BY <1>1 DEF SweptDies, BeginWork, EndWork, WorkerEnds, Panic, CleanupKills, RegistryTypeOK
  <2>. QED  BY <1>1, <1>2, <2>1 DEF RegistryTypeOK
<1>4. NoStrayProcess'
  <2>1. SUFFICES ASSUME NEW h \in alive', Owned(h) PROVE Owned(h)'
    BY <1>2, Handover
  <2>2. h \in Gens  BY <1>1, <1>2 DEF RegistryTypeOK
  <2>3. CASE task[h] \in {"killing", "cleaning", "reaping"}
    BY <1>2, <2>1, <2>2, <2>3 DEF Owned
  <2>. QED  BY <1>2, <2>1, <2>2, <2>3 DEF Owned
<1>. QED  BY <1>2, <1>3, <1>4, MapStays

\* The exiting worker kills the child it took out of the map, then frees the lock.
LEMMA ExitKillsKeeps ==
  ASSUME RegistryInd, NEW g \in Gens, ExitKills(g)
  PROVE  RegistryInd'
<1>. USE DEF ExitKills
<1>1. RegistryTypeOK /\ SpawnHasRoom  BY DEF RegistryInd
<1>2. RegistryTypeOK'  BY <1>1 DEF RegistryTypeOK
<1>3. \A c \in Callers : call[c].pc \notin {"evict", "spawn"}
  BY <1>1, RegistryAssumption DEF SpawnHasRoom, Gens
<1>4. NoStrayProcess'
  <2>1. SUFFICES ASSUME NEW h \in alive', Owned(h) PROVE Owned(h)'
    BY Handover
  <2>2. h \in Gens /\ h # g  BY <1>1 DEF RegistryTypeOK
  <2>. QED  BY <1>1, <2>1, <2>2 DEF Owned, RegistryTypeOK
<1>5. \A h \in Gens : task'[h] = "cleaning" => task[h] = "cleaning"
  BY <1>1 DEF RegistryTypeOK
<1>6. UNCHANGED <<sessions, announced, drifted, call>>  OBVIOUS
<1>. QED  BY <1>2, <1>3, <1>4, <1>5, <1>6, MapStays
-----------------------------------------------------------------------------
\* Every step of the session manager, its workers and its supervisors.
LEMMA RegistryStepKeeps == RegistryInd /\ [RegistryNext]_registryVars => RegistryInd'
<1>. SUFFICES ASSUME RegistryInd, [RegistryNext]_registryVars PROVE RegistryInd'  OBVIOUS
<1>1. ASSUME NEW c \in Callers, NEW t \in SessionThreads,
             FindExisting(c, t) \/ AllBusy(c, t) \/ Evict(c, t) \/ HasSlot(c, t) \/ KillSession(c, t)
      PROVE  RegistryInd'
  <2>1. CASE FindExisting(c, t) \/ AllBusy(c, t)
    <3>1. UNCHANGED <<sessions, alive, busy, task, left, holder, call, sweep,
                      announced, spawned, drifted>> /\ calls' = calls + 1 /\ calls < MaxCalls
      BY <2>1 DEF FindExisting, AllBusy, Start
    <3>2. RegistryTypeOK'  BY <3>1, RegistryAssumption DEF RegistryInd, RegistryTypeOK
    <3>3. NoStrayProcess'  BY <3>1 DEF RegistryInd, NoStrayProcess
    <3>. QED  BY <3>1, <3>2, <3>3, MapStays
  <2>. QED  BY <1>1, <2>1, EvictKeeps, HasSlotKeeps, KillKeeps
<1>2. ASSUME NEW c \in Callers, CallerStep(c) PROVE RegistryInd'
  BY <1>2, CallersKeep, SpawnKeeps DEF CallerStep
<1>3. CASE SweepIdle  BY <1>3, SweepKeeps
<1>4. ASSUME NEW g \in Gens, SweptDies(g) \/ BeginWork(g) \/ EndWork(g) \/ WorkerEnds(g) \/ Panic(g)
      PROVE  RegistryInd'
  BY <1>4, TasksKeep
<1>5. ASSUME NEW g \in Gens, SupervisorStep(g) PROVE RegistryInd'
  BY <1>5, ExitKeeps, ExitKillsKeeps, CoreKeeps, LateCountKeeps, TasksKeep DEF SupervisorStep
<1>6. CASE UNCHANGED registryVars
  <2>1. UNCHANGED <<sessions, alive, busy, task, left, holder, call, sweep,
                    announced, spawned, calls, drifted>>
    BY <1>6 DEF registryVars
  <2>2. RegistryTypeOK' /\ NoStrayProcess'
    BY <2>1 DEF RegistryInd, RegistryTypeOK, NoStrayProcess
  <2>. QED  BY <2>1, <2>2, MapStays
<1>. QED  BY <1>1, <1>2, <1>3, <1>4, <1>5, <1>6 DEF RegistryNext

\* The registry keeps its invariant, from its first state on.
LEMMA RegistryKeepsInd == RegistrySpec => []RegistryInd
<1>1. RegistryInit => RegistryInd  BY RegistryInitial
<1>2. RegistryInd /\ [RegistryNext]_registryVars => RegistryInd'  BY RegistryStepKeeps
<1>. QED  BY <1>1, <1>2, PTL DEF RegistrySpec

\* get_or_create (session_manager.rs:228-404) never lets the map pass max_sessions,
\* although it awaits a kill and a spawn between its test and its insertion.
THEOREM LimitIsKept == RegistrySpec => []NeverOverLimit
<1>1. RegistryInd => NeverOverLimit  BY DEF RegistryInd
<1>. QED  BY <1>1, RegistryKeepsInd, PTL

\* Whatever evicts, sweeps, kills, exits or panics, a Claude process that runs is in
\* the map or in the hand of somebody who is about to kill it: none outlives them all.
THEOREM NoProcessForgotten == RegistrySpec => []NoStrayProcess
<1>1. RegistryInd => NoStrayProcess  BY DEF RegistryInd
<1>. QED  BY <1>1, RegistryKeepsInd, PTL

\* The number sent to the presence monitor is the size of the map whenever the lock is
\* free, as long as no session ended by itself (worker/mod.rs:264 sends none then).
THEOREM PresenceIsRight == RegistrySpec => []PresenceCounts
<1>1. RegistryInd => PresenceCounts  BY DEF RegistryInd, CountIsRight, PresenceCounts
<1>. QED  BY <1>1, RegistryKeepsInd, PTL
-----------------------------------------------------------------------------
(* The background tasks: the tracker agrees with what Claude runs, and a session is    *)
(* given up only over a task whose start was not counted in time, for any set of tasks *)
(* and any number of turns.                                                            *)
(*                                                                                     *)
(* By itself it is not inductive.  What was counted is right because the lines of a    *)
(* task come once each and its start before its end, so that the lines still in the    *)
(* pipe say how far the tracker is behind.                                             *)

StartLine(id) == [kind |-> "started", id |-> id]
EndLine(id) == [kind |-> "notification", id |-> id]

LinesOf(s) == {s[i] : i \in DOMAIN s}
Once(s) == \A i, j \in DOMAIN s : s[i] = s[j] => i = j
StartFirst(s) ==
  \A id \in TaskIds : \A i, j \in DOMAIN s : s[i] = StartLine(id) /\ s[j] = EndLine(id) => i < j

\* What the lines in the pipe say about their tasks.
LinesAreTrue ==
  \A id \in TaskIds :
    /\ StartLine(id) \in LinesOf(output) => id \in started /\ (id \in running \/ EndLine(id) \in LinesOf(output))
    /\ EndLine(id) \in LinesOf(output) => id \in started /\ id \notin running

\* How far the tracker is behind, for a task of which every line was counted.
Counted(id) ==
  id \in tracked <=>
    /\ id \in started /\ StartLine(id) \notin LinesOf(output)
    /\ id \in running \/ EndLine(id) \in LinesOf(output)

FlagFollows == (flag => tracked # {}) /\ (~flag => tracked \subseteq missed)

\* A session that was chosen runs no task that was counted in time.
ChosenIsIdle ==
  /\ chosen => \A id \in running : id \in missed \/ StartLine(id) \in LinesOf(output)
  /\ loop = "gone" => chosen /\ ~asking

TasksInd ==
  /\ TasksTypeOK
  /\ Once(output) /\ StartFirst(output) /\ LinesAreTrue
  /\ \A id \in TaskIds \ missed : Counted(id)
  /\ FlagFollows /\ ChosenIsIdle

TasksSpec == TasksInit /\ [][TasksNext]_tasksVars
-----------------------------------------------------------------------------
(* Lines. *)

\* A line that is new at the end of the pipe keeps the lines distinct.
LEMMA AppendLine ==
  ASSUME NEW S, NEW s \in Seq(S), NEW e \in S
  PROVE  /\ LinesOf(Append(s, e)) = LinesOf(s) \cup {e}
         /\ Once(s) /\ e \notin LinesOf(s) => Once(Append(s, e))
<1>. DEFINE t == Append(s, e)
<1>1. t \in Seq(S) /\ Len(t) = Len(s) + 1 /\ DOMAIN t = 1..(Len(s) + 1) /\ DOMAIN s = 1..Len(s)
  OBVIOUS
<1>2. t[Len(s) + 1] = e /\ \A i \in 1..Len(s) : t[i] = s[i]
  OBVIOUS
<1>3. Len(s) \in Nat
  OBVIOUS
<1>. HIDE DEF t
<1>4. LinesOf(t) = LinesOf(s) \cup {e}
  BY <1>1, <1>2, <1>3 DEF LinesOf
<1>5. ASSUME Once(s), e \notin LinesOf(s) PROVE Once(t)
  BY <1>1, <1>2, <1>3, <1>5 DEF Once, LinesOf
<1>. QED  BY <1>4, <1>5 DEF t

\* Reading takes the first line, and that one only.
LEMMA TailLine ==
  ASSUME NEW S, NEW s \in Seq(S), s # <<>>, Once(s)
  PROVE  /\ Head(s) \in LinesOf(s) /\ Head(s) \in S
         /\ Tail(s) \in Seq(S)
         /\ LinesOf(Tail(s)) = LinesOf(s) \ {Head(s)}
         /\ Once(Tail(s))
         /\ \A i \in DOMAIN Tail(s) : i + 1 \in DOMAIN s /\ Tail(s)[i] = s[i + 1]
<1>. DEFINE t == Tail(s)
<1>1. /\ Len(s) \in Nat /\ Len(s) >= 1 /\ DOMAIN s = 1..Len(s)
      /\ t \in Seq(S) /\ DOMAIN t = 1..(Len(s) - 1)
      /\ Head(s) = s[1] /\ Head(s) \in S
      /\ \A i \in 1..(Len(s) - 1) : t[i] = s[i + 1]
  BY EmptySeq
<1>. HIDE DEF t
<1>2. \A i \in DOMAIN t : i + 1 \in DOMAIN s /\ t[i] = s[i + 1]
  BY <1>1
<1>3. Head(s) \in LinesOf(s)
  BY <1>1 DEF LinesOf
<1>4. LinesOf(t) = LinesOf(s) \ {Head(s)}
  <2>1. ASSUME NEW x \in LinesOf(t) PROVE x \in LinesOf(s) /\ x # Head(s)
    <3>1. PICK i \in DOMAIN t : x = t[i]  BY DEF LinesOf
    <3>2. i + 1 \in DOMAIN s /\ x = s[i + 1] /\ i + 1 # 1 /\ 1 \in DOMAIN s  BY <1>1, <1>2, <3>1
    <3>. QED  BY <1>1, <3>2 DEF LinesOf, Once
  <2>2. ASSUME NEW x \in LinesOf(s), x # Head(s) PROVE x \in LinesOf(t)
    <3>1. PICK j \in DOMAIN s : x = s[j]  BY DEF LinesOf
    <3>2. j # 1  BY <1>1, <2>2, <3>1
    <3>3. j - 1 \in DOMAIN t /\ t[j - 1] = s[j]  BY <1>1, <3>1, <3>2
    <3>. QED  BY <3>1, <3>3 DEF LinesOf
  <2>. QED  BY <2>1, <2>2
<1>5. Once(t)
  BY <1>1, <1>2 DEF Once
<1>. QED  BY <1>1, <1>2, <1>3, <1>4, <1>5 DEF t

\* A task's two lines differ from each other and from every other task's.
LEMMA LinesDiffer ==
  ASSUME NEW id \in TaskIds
  PROVE  /\ StartLine(id) \in TaskLines /\ EndLine(id) \in TaskLines
         /\ \A other \in TaskIds :
              /\ StartLine(id) # EndLine(other)
              /\ (StartLine(id) = StartLine(other) \/ EndLine(id) = EndLine(other)) => id = other
BY DEF StartLine, EndLine, TaskLines

\* A line is the start or the end of a task.
LEMMA LineForms ==
  ASSUME NEW l \in TaskLines
  PROVE  /\ l.id \in TaskIds
         /\ l.kind = "started" => l = StartLine(l.id)
         /\ l.kind = "notification" => l = EndLine(l.id)
         /\ l.kind \in {"started", "notification"}
BY DEF StartLine, EndLine, TaskLines
-----------------------------------------------------------------------------
\* No task has started and none is counted.
LEMMA TasksInitial == TasksInit => TasksInd
<1>. SUFFICES ASSUME TasksInit PROVE TasksInd  OBVIOUS
<1>. USE DEF TasksInit
<1>1. TasksTypeOK
  <2>1. asking \in BOOLEAN /\ flag \in BOOLEAN /\ chosen \in BOOLEAN  OBVIOUS
  <2>2. output \in Seq(TaskLines)  OBVIOUS
  <2>3. turns \in Nat /\ loop \in {"between", "active", "background", "gone"}  OBVIOUS
  <2>. QED  BY <2>1, <2>2, <2>3 DEF TasksTypeOK
<1>2. LinesOf(output) = {} /\ Once(output) /\ StartFirst(output)
  BY DEF LinesOf, Once, StartFirst
<1>. QED
  BY <1>1, <1>2 DEF TasksInd, LinesAreTrue, Counted, FlagFollows, ChosenIsIdle

\* Reading a line: what it says is true, and the others stay.
LEMMA ReadsLine ==
  ASSUME TasksInd, NEW kind, Reads1(kind)
  PROVE  /\ Line1 \in TaskLines /\ Line1 \in LinesOf(output) /\ Line1.id \in TaskIds
         /\ output' \in Seq(TaskLines)
         /\ LinesOf(output') = LinesOf(output) \ {Line1}
         /\ Once(output') /\ StartFirst(output')
         /\ kind = "started" => Line1 = StartLine(Line1.id)
         /\ kind = "notification" => Line1 = EndLine(Line1.id) /\ StartLine(Line1.id) \notin LinesOf(output)
<1>1. output \in Seq(TaskLines) /\ output # <<>> /\ Once(output) /\ StartFirst(output)
      /\ output' = Tail(output) /\ Line1 = Head(output) /\ Line1.kind = kind
  BY DEF TasksInd, TasksTypeOK, Reads1, Line1
<1>2. /\ Line1 \in LinesOf(output) /\ Line1 \in TaskLines
      /\ output' \in Seq(TaskLines) /\ Once(output')
      /\ LinesOf(output') = LinesOf(output) \ {Line1}
      /\ \A i \in DOMAIN output' : i + 1 \in DOMAIN output /\ output'[i] = output[i + 1]
  BY <1>1, TailLine
<1>3. /\ Line1.id \in TaskIds
      /\ kind = "started" => Line1 = StartLine(Line1.id)
      /\ kind = "notification" => Line1 = EndLine(Line1.id)
  BY <1>1, <1>2, LineForms
<1>4. StartFirst(output')
  <2>1. DOMAIN output' \subseteq Nat
    BY <1>2
  <2>2. SUFFICES ASSUME NEW id \in TaskIds, NEW i \in DOMAIN output', NEW j \in DOMAIN output',
                        output'[i] = StartLine(id), output'[j] = EndLine(id)
                 PROVE  i < j
    BY DEF StartFirst
  <2>3. i + 1 < j + 1
    BY <1>1, <1>2, <2>2 DEF StartFirst
  <2>. QED  BY <2>1, <2>3
<1>5. ASSUME kind = "notification" PROVE StartLine(Line1.id) \notin LinesOf(output)
  <2>1. SUFFICES ASSUME NEW i \in DOMAIN output, output[i] = StartLine(Line1.id) PROVE FALSE
    BY DEF LinesOf
  <2>2. 1 \in DOMAIN output /\ output[1] = EndLine(Line1.id) /\ i >= 1
    BY <1>1, <1>3, <1>5
  <2>3. i < 1
    BY <1>1, <1>3, <2>1, <2>2 DEF StartFirst
  <2>. QED  BY <1>1, <2>2, <2>3
<1>. QED  BY <1>2, <1>3, <1>4, <1>5
-----------------------------------------------------------------------------
(* One action each. *)

\* Claude starts a task: its line waits to be read.
LEMMA StartKeeps ==
  ASSUME TasksInd, NEW id \in TaskIds, TaskStarts(id)
  PROVE  TasksInd'
<1>. USE DEF TaskStarts
<1>1. /\ TasksTypeOK /\ Once(output) /\ StartFirst(output) /\ LinesAreTrue
      /\ FlagFollows /\ ChosenIsIdle
  BY DEF TasksInd
<1>2. /\ output \in Seq(TaskLines) /\ StartLine(id) \in TaskLines /\ output' = Append(output, StartLine(id))
      /\ id \notin started
  BY <1>1, LinesDiffer DEF TasksTypeOK, StartLine
<1>3. StartLine(id) \notin LinesOf(output) /\ EndLine(id) \notin LinesOf(output)
  BY <1>1, <1>2 DEF LinesAreTrue
<1>4. LinesOf(output') = LinesOf(output) \cup {StartLine(id)} /\ Once(output')
  BY <1>1, <1>2, <1>3, AppendLine
<1>5. TasksTypeOK'
  BY <1>1, <1>2 DEF TasksTypeOK
<1>6. StartFirst(output')
  <2>1. SUFFICES ASSUME NEW other \in TaskIds, NEW i \in DOMAIN output', NEW j \in DOMAIN output',
                        output'[i] = StartLine(other), output'[j] = EndLine(other)
                 PROVE  i < j
    BY DEF StartFirst
  <2>2. EndLine(other) # StartLine(id)
    BY LinesDiffer
  <2>3. /\ Len(output) \in Nat /\ DOMAIN output = 1..Len(output)
        /\ DOMAIN output' = 1..(Len(output) + 1)
        /\ output'[Len(output) + 1] = StartLine(id)
        /\ \A k \in 1..Len(output) : output'[k] = output[k]
    BY <1>2
  <2>4. j \in 1..Len(output) /\ output[j] = EndLine(other)
    BY <2>1, <2>2, <2>3
  <2>5. i \in 1..Len(output)
    <3>1. CASE i = Len(output) + 1
      <4>1. other = id  BY <2>1, <2>3, <3>1, LinesDiffer
      <4>. QED  BY <1>3, <2>3, <2>4, <4>1 DEF LinesOf
    <3>. QED  BY <2>3, <3>1
  <2>. QED  BY <1>1, <2>1, <2>3, <2>4, <2>5 DEF StartFirst
<1>7. ASSUME NEW other \in TaskIds
      PROVE  /\ StartLine(other) \in LinesOf(output') <=> StartLine(other) \in LinesOf(output) \/ other = id
             /\ EndLine(other) \in LinesOf(output') <=> EndLine(other) \in LinesOf(output)
  BY <1>4, LinesDiffer
<1>8. LinesAreTrue'
  BY <1>1, <1>2, <1>3, <1>7 DEF LinesAreTrue
<1>9. ASSUME NEW other \in TaskIds \ missed' PROVE Counted(other)'
  <2>1. Counted(other)  BY DEF TasksInd
  <2>2. id \notin tracked  BY <1>1, <1>2 DEF TasksTypeOK
  <2>. QED  BY <1>7, <2>1, <2>2 DEF Counted
<1>10. FlagFollows' /\ ChosenIsIdle'
  BY <1>1, <1>5, <1>7 DEF FlagFollows, ChosenIsIdle, TasksTypeOK
<1>. QED  BY <1>4, <1>5, <1>6, <1>8, <1>9, <1>10 DEF TasksInd

\* A task ends: its second line waits behind the first.
LEMMA EndKeeps ==
  ASSUME TasksInd, NEW id \in TaskIds, TaskEnds(id)
  PROVE  TasksInd'
<1>. USE DEF TaskEnds
<1>1. /\ TasksTypeOK /\ Once(output) /\ StartFirst(output) /\ LinesAreTrue
      /\ FlagFollows /\ ChosenIsIdle
  BY DEF TasksInd
<1>2. /\ output \in Seq(TaskLines) /\ EndLine(id) \in TaskLines /\ output' = Append(output, EndLine(id))
      /\ id \in started
  BY <1>1, LinesDiffer DEF TasksTypeOK, EndLine
<1>3. EndLine(id) \notin LinesOf(output)
  BY <1>1 DEF LinesAreTrue
<1>4. LinesOf(output') = LinesOf(output) \cup {EndLine(id)} /\ Once(output')
  BY <1>1, <1>2, <1>3, AppendLine
<1>5. TasksTypeOK'
  BY <1>1, <1>2 DEF TasksTypeOK
<1>6. StartFirst(output')
  <2>1. SUFFICES ASSUME NEW other \in TaskIds, NEW i \in DOMAIN output', NEW j \in DOMAIN output',
                        output'[i] = StartLine(other), output'[j] = EndLine(other)
                 PROVE  i < j
    BY DEF StartFirst
  <2>2. StartLine(other) # EndLine(id)
    BY LinesDiffer
  <2>3. /\ Len(output) \in Nat /\ DOMAIN output = 1..Len(output)
        /\ DOMAIN output' = 1..(Len(output) + 1)
        /\ output'[Len(output) + 1] = EndLine(id)
        /\ \A k \in 1..Len(output) : output'[k] = output[k]
    BY <1>2
  <2>4. i \in 1..Len(output) /\ output[i] = StartLine(other)
    BY <2>1, <2>2, <2>3
  <2>. QED  BY <1>1, <2>1, <2>3, <2>4 DEF StartFirst
<1>7. ASSUME NEW other \in TaskIds
      PROVE  /\ StartLine(other) \in LinesOf(output') <=> StartLine(other) \in LinesOf(output)
             /\ EndLine(other) \in LinesOf(output') <=> EndLine(other) \in LinesOf(output) \/ other = id
  BY <1>4, LinesDiffer
<1>8. LinesAreTrue'
  BY <1>1, <1>2, <1>3, <1>7 DEF LinesAreTrue
<1>9. ASSUME NEW other \in TaskIds \ missed' PROVE Counted(other)'
  <2>1. Counted(other)  BY DEF TasksInd
  <2>. QED  BY <1>2, <1>3, <1>7, <2>1 DEF Counted
<1>10. FlagFollows' /\ ChosenIsIdle'
  <2>1. running \subseteq TaskIds  BY <1>1 DEF TasksTypeOK
  <2>. QED  BY <1>1, <1>7, <2>1 DEF FlagFollows, ChosenIsIdle
<1>. QED  BY <1>4, <1>5, <1>6, <1>8, <1>9, <1>10 DEF TasksInd

\* Reading a line keeps what the others say.
LEMMA ReadKeepsLines ==
  ASSUME TasksInd, NEW kind \in {"started", "notification"}, Reads1(kind),
         UNCHANGED <<started, running>>
  PROVE  /\ LinesAreTrue' /\ Line1.id \in started
         /\ kind = "notification" => Line1.id \notin running
         /\ \A id \in TaskIds \ {Line1.id} :
              /\ StartLine(id) \in LinesOf(output') <=> StartLine(id) \in LinesOf(output)
              /\ EndLine(id) \in LinesOf(output') <=> EndLine(id) \in LinesOf(output)
         /\ StartLine(Line1.id) \notin LinesOf(output')
         /\ IF kind = "started" THEN Line1.id \in running \/ EndLine(Line1.id) \in LinesOf(output')
                               ELSE EndLine(Line1.id) \notin LinesOf(output')
<1>. DEFINE l == Line1.id
<1>1. /\ Line1 \in LinesOf(output) /\ l \in TaskIds
      /\ LinesOf(output') = LinesOf(output) \ {Line1}
      /\ kind = "started" => Line1 = StartLine(l)
      /\ kind = "notification" => Line1 = EndLine(l) /\ StartLine(l) \notin LinesOf(output)
  BY ReadsLine
<1>. HIDE DEF l
<1>2. LinesAreTrue  BY DEF TasksInd
<1>3. \A id \in TaskIds \ {l} : StartLine(id) # Line1 /\ EndLine(id) # Line1
  BY <1>1, LinesDiffer
<1>4. \A id \in TaskIds \ {l} :
        /\ StartLine(id) \in LinesOf(output') <=> StartLine(id) \in LinesOf(output)
        /\ EndLine(id) \in LinesOf(output') <=> EndLine(id) \in LinesOf(output)
  BY <1>1, <1>3
<1>5. CASE kind = "started"
  <2>1. StartLine(l) \notin LinesOf(output') /\ l \in started
    BY <1>1, <1>2, <1>5 DEF LinesAreTrue
  <2>2. EndLine(l) \in LinesOf(output') <=> EndLine(l) \in LinesOf(output)
    BY <1>1, <1>5, LinesDiffer
  <2>3. l \in running \/ EndLine(l) \in LinesOf(output')
    BY <1>1, <1>2, <1>5, <2>2 DEF LinesAreTrue
  <2>4. LinesAreTrue'
    BY <1>2, <1>4, <2>1, <2>2 DEF LinesAreTrue
  <2>. QED  BY <1>4, <1>5, <2>1, <2>3, <2>4 DEF l
<1>6. CASE kind = "notification"
  <2>1. EndLine(l) \notin LinesOf(output') /\ l \in started /\ l \notin running
    BY <1>1, <1>2, <1>6 DEF LinesAreTrue
  <2>2. StartLine(l) \notin LinesOf(output')
    BY <1>1, <1>6
  <2>3. LinesAreTrue'
    BY <1>2, <1>4, <2>1, <2>2 DEF LinesAreTrue
  <2>. QED  BY <1>4, <1>6, <2>1, <2>2, <2>3 DEF l
<1>. QED  BY <1>5, <1>6

\* A loop that tracks reads that a task started.
LEMMA ReadStartedKeeps == ASSUME TasksInd, ReadStarted PROVE TasksInd'
<1>. USE DEF ReadStarted, Track
<1>. DEFINE l == Line1.id
<1>1. TasksTypeOK /\ (\A id \in TaskIds \ missed : Counted(id)) /\ FlagFollows /\ ChosenIsIdle
  BY DEF TasksInd
<1>2. Reads1("started") /\ "started" \in {"started", "notification"} /\ UNCHANGED <<started, running>>
  OBVIOUS
<1>3. /\ l \in TaskIds /\ output' \in Seq(TaskLines) /\ Once(output') /\ StartFirst(output')
      /\ LinesAreTrue' /\ l \in started
      /\ \A id \in TaskIds \ {l} :
           /\ StartLine(id) \in LinesOf(output') <=> StartLine(id) \in LinesOf(output)
           /\ EndLine(id) \in LinesOf(output') <=> EndLine(id) \in LinesOf(output)
      /\ StartLine(l) \notin LinesOf(output') /\ (l \in running \/ EndLine(l) \in LinesOf(output'))
  BY <1>2, ReadsLine, ReadKeepsLines
<1>4. /\ tracked' = tracked \cup {l} /\ flag' = (tracked' # {})
      /\ missed' = (IF chosen THEN missed \cup {l} ELSE missed)
      /\ UNCHANGED <<loop, asking, running, started, chosen, turns>>
  OBVIOUS
<1>. HIDE DEF l, ReadStarted, Track
<1>5. TasksTypeOK'
  <2>1. flag' \in BOOLEAN  BY <1>4
  <2>. QED  BY <1>1, <1>3, <1>4, <2>1 DEF TasksTypeOK
<1>6. ASSUME NEW id \in TaskIds \ missed' PROVE Counted(id)'
  BY <1>1, <1>3, <1>4 DEF Counted
<1>7. FlagFollows'
  BY <1>4 DEF FlagFollows
<1>8. ChosenIsIdle'
  <2>1. running \subseteq TaskIds  BY <1>1 DEF TasksTypeOK
  <2>. QED  BY <1>1, <1>3, <1>4, <2>1 DEF ChosenIsIdle
<1>. QED  BY <1>3, <1>5, <1>6, <1>7, <1>8 DEF TasksInd

\* A loop that tracks reads that a task ended.
LEMMA ReadEndedKeeps == ASSUME TasksInd, ReadEnded PROVE TasksInd'
<1>. USE DEF ReadEnded, Track
<1>. DEFINE l == Line1.id
<1>1. TasksTypeOK /\ (\A id \in TaskIds \ missed : Counted(id)) /\ FlagFollows /\ ChosenIsIdle
  BY DEF TasksInd
<1>2. Reads1("notification") /\ "notification" \in {"started", "notification"} /\ UNCHANGED <<started, running>>
  OBVIOUS
<1>3. /\ l \in TaskIds /\ output' \in Seq(TaskLines) /\ Once(output') /\ StartFirst(output')
      /\ LinesAreTrue' /\ l \notin running
      /\ \A id \in TaskIds \ {l} :
           /\ StartLine(id) \in LinesOf(output') <=> StartLine(id) \in LinesOf(output)
           /\ EndLine(id) \in LinesOf(output') <=> EndLine(id) \in LinesOf(output)
      /\ EndLine(l) \notin LinesOf(output')
  BY <1>2, ReadsLine, ReadKeepsLines
<1>4. /\ tracked' = tracked \ {l} /\ flag' = (tracked' # {})
      /\ loop' = (IF loop = "between" THEN "background" ELSE loop) /\ loop # "gone"
      /\ UNCHANGED <<asking, running, started, chosen, missed, turns>>
  BY DEF Reads1
<1>. HIDE DEF l, ReadEnded, Track
<1>5. TasksTypeOK'
  <2>1. flag' \in BOOLEAN  BY <1>4
  <2>. QED  BY <1>1, <1>3, <1>4, <2>1 DEF TasksTypeOK
<1>6. ASSUME NEW id \in TaskIds \ missed' PROVE Counted(id)'
  BY <1>1, <1>3, <1>4 DEF Counted
<1>7. FlagFollows'
  BY <1>4 DEF FlagFollows
<1>8. ChosenIsIdle'
  <2>1. running \subseteq TaskIds  BY <1>1 DEF TasksTypeOK
  <2>. QED  BY <1>1, <1>3, <1>4, <2>1 DEF ChosenIsIdle
<1>. QED  BY <1>3, <1>5, <1>6, <1>7, <1>8 DEF TasksInd

\* A line that is not counted is missed, whether a start is tracked or not.
LEMMA MissKeeps ==
  ASSUME TasksInd, NEW kind \in {"started", "notification"}, Reads1(kind), Misses(Line1.id),
         tracked' \in {tracked, tracked \cup {Line1.id}},
         UNCHANGED <<loop, asking, running, started, flag, chosen, turns>>
  PROVE  TasksInd'
<1>. DEFINE l == Line1.id
<1>1. TasksTypeOK /\ (\A id \in TaskIds \ missed : Counted(id)) /\ FlagFollows /\ ChosenIsIdle
  BY DEF TasksInd
<1>2. /\ l \in TaskIds /\ output' \in Seq(TaskLines) /\ Once(output') /\ StartFirst(output')
      /\ LinesAreTrue' /\ l \in started
      /\ \A id \in TaskIds \ {l} :
           /\ StartLine(id) \in LinesOf(output') <=> StartLine(id) \in LinesOf(output)
           /\ EndLine(id) \in LinesOf(output') <=> EndLine(id) \in LinesOf(output)
  BY ReadsLine, ReadKeepsLines
<1>3. missed' = missed \cup {l} /\ tracked' \in {tracked, tracked \cup {l}}
  BY DEF Misses
<1>. HIDE DEF l
<1>4. TasksTypeOK'
  BY <1>1, <1>2, <1>3 DEF TasksTypeOK
<1>5. ASSUME NEW id \in TaskIds \ missed' PROVE Counted(id)'
  BY <1>1, <1>2, <1>3 DEF Counted
<1>6. FlagFollows'
  BY <1>1, <1>3 DEF FlagFollows
<1>7. ChosenIsIdle'
  <2>1. running \subseteq TaskIds  BY <1>1 DEF TasksTypeOK
  <2>. QED  BY <1>1, <1>2, <1>3, <2>1 DEF ChosenIsIdle
<1>. QED  BY <1>2, <1>4, <1>5, <1>6, <1>7 DEF TasksInd

\* The session is chosen for idle: whatever runs was not counted in time.
LEMMA ChooseKeeps == ASSUME TasksInd, ChooseSession PROVE TasksInd'
<1>. USE DEF ChooseSession
<1>1. TasksTypeOK /\ LinesAreTrue /\ (\A id \in TaskIds \ missed : Counted(id)) /\ FlagFollows /\ ChosenIsIdle
  BY DEF TasksInd
<1>2. ASSUME NEW id \in running PROVE id \in missed \/ StartLine(id) \in LinesOf(output)
  <2>1. id \in TaskIds /\ id \in started  BY <1>1 DEF TasksTypeOK
  <2>2. tracked \subseteq missed  BY <1>1 DEF LooksIdle, FlagFollows
  <2>. QED  BY <1>1, <2>1, <2>2 DEF Counted
<1>3. TasksTypeOK'  BY <1>1 DEF TasksTypeOK
<1>4. ChosenIsIdle'  BY <1>1, <1>2 DEF ChosenIsIdle
<1>5. LinesAreTrue' /\ FlagFollows'  BY <1>1 DEF LinesAreTrue, FlagFollows
<1>6. ASSUME NEW id \in TaskIds \ missed' PROVE Counted(id)'
  BY <1>1 DEF Counted
<1>7. Once(output') /\ StartFirst(output')  BY DEF TasksInd
<1>. QED  BY <1>3, <1>4, <1>5, <1>6, <1>7 DEF TasksInd

\* The loops and the session come and go, the lines and the tracker stay.
LEMMA LoopsKeep ==
  ASSUME TasksInd, BeginActiveTurn \/ EndTurnOf \/ BeginAsking \/ EndAsking \/ EndChosen
  PROVE  TasksInd'
<1>1. /\ TasksTypeOK /\ LinesAreTrue /\ (\A id \in TaskIds \ missed : Counted(id))
      /\ FlagFollows /\ ChosenIsIdle /\ Once(output) /\ StartFirst(output)
  BY DEF TasksInd
<1>. DEFINE Kept == /\ UNCHANGED <<running, started, output, tracked, flag, chosen, missed>>
                    /\ loop' \in {"between", "active", "background", "gone"} /\ asking' \in BOOLEAN
                    /\ turns' \in Nat
                    /\ loop' = "gone" => chosen /\ ~asking'
<1>2. Kept
  <2>1. turns \in Nat /\ loop \in {"between", "active", "background", "gone"} /\ asking \in BOOLEAN
        /\ (loop = "gone" => chosen /\ ~asking)
    BY <1>1 DEF TasksTypeOK, ChosenIsIdle
  <2>2. CASE BeginActiveTurn  BY <2>1, <2>2 DEF BeginActiveTurn
  <2>3. CASE EndTurnOf  BY <2>1, <2>3 DEF EndTurnOf
  <2>4. CASE BeginAsking  BY <2>1, <2>4 DEF BeginAsking
  <2>5. CASE EndAsking  BY <2>1, <2>5 DEF EndAsking
  <2>6. CASE EndChosen  BY <2>1, <2>6 DEF EndChosen
  <2>. QED  BY <2>2, <2>3, <2>4, <2>5, <2>6
<1>3. TasksTypeOK'  BY <1>1, <1>2 DEF TasksTypeOK
<1>4. ChosenIsIdle' /\ LinesAreTrue' /\ FlagFollows'
  BY <1>1, <1>2 DEF ChosenIsIdle, LinesAreTrue, FlagFollows
<1>5. ASSUME NEW id \in TaskIds \ missed' PROVE Counted(id)'
  BY <1>1, <1>2 DEF Counted
<1>6. Once(output') /\ StartFirst(output')  BY <1>1, <1>2
<1>. QED  BY <1>3, <1>4, <1>5, <1>6 DEF TasksInd
-----------------------------------------------------------------------------
\* Every step keeps the invariant.
LEMMA TasksStepKeeps == TasksInd /\ [TasksNext]_tasksVars => TasksInd'
<1>. SUFFICES ASSUME TasksInd, [TasksNext]_tasksVars PROVE TasksInd'  OBVIOUS
<1>1. ASSUME NEW id \in TaskIds, TaskStarts(id) PROVE TasksInd'  BY <1>1, StartKeeps
<1>2. ASSUME NEW id \in TaskIds, TaskEnds(id) PROVE TasksInd'  BY <1>2, EndKeeps
<1>3. CASE ReadStarted  BY <1>3, ReadStartedKeeps
<1>4. CASE ReadEnded  BY <1>4, ReadEndedKeeps
<1>5. ASSUME NEW kind \in {"started", "notification"}, Reads1(kind), Misses(Line1.id),
             tracked' \in {tracked, tracked \cup {Line1.id}},
             UNCHANGED <<loop, asking, running, started, flag, chosen, turns>>
      PROVE  TasksInd'
  BY <1>5, MissKeeps
<1>6. CASE ReadInBackground \/ ReadWhileAsking \/ LoseLine
  <2>1. /\ UNCHANGED <<loop, asking, running, started, flag, chosen, turns>>
        /\ tracked' \in {tracked, tracked \cup {Line1.id}}
        /\ Misses(Line1.id)
    BY <1>6 DEF ReadInBackground, ReadWhileAsking, LoseLine
  <2>2. Reads1("started") \/ Reads1("notification")
    BY <1>6 DEF ReadInBackground, ReadWhileAsking, LoseLine
  <2>3. CASE Reads1("started")  BY <1>5, <2>1, <2>3
  <2>4. CASE Reads1("notification")  BY <1>5, <2>1, <2>4
  <2>. QED  BY <2>2, <2>3, <2>4
<1>8. CASE BeginActiveTurn \/ EndTurnOf \/ BeginAsking \/ EndAsking \/ EndChosen  BY <1>8, LoopsKeep
<1>9. CASE ChooseSession  BY <1>9, ChooseKeeps
<1>10. CASE UNCHANGED tasksVars
  <2>. USE <1>10 DEF tasksVars
  <2>1. TasksTypeOK' /\ LinesAreTrue' /\ FlagFollows' /\ ChosenIsIdle'
    BY DEF TasksInd, TasksTypeOK, LinesAreTrue, FlagFollows, ChosenIsIdle
  <2>2. ASSUME NEW id \in TaskIds \ missed' PROVE Counted(id)'  BY DEF TasksInd, Counted
  <2>. QED  BY <2>1, <2>2 DEF TasksInd
<1>. QED  BY <1>1, <1>2, <1>3, <1>4, <1>6, <1>8, <1>9, <1>10 DEF TasksNext

\* A task that was counted and has not ended keeps the tracker from being empty.
LEMMA IndKeepsSessions == TasksInd => TasksKeepSessions
<1>. SUFFICES ASSUME TasksInd PROVE TasksKeepSessions  OBVIOUS
<1>1. \A id \in TaskIds : Unread(id) <=> StartLine(id) \in LinesOf(output) \/ EndLine(id) \in LinesOf(output)
  <2>. TAKE id \in TaskIds
  <2>1. \A i \in DOMAIN output : output[i] \in TaskLines
    BY DEF TasksInd, TasksTypeOK
  <2>2. ASSUME NEW i \in DOMAIN output
        PROVE  output[i].id = id <=> output[i] = StartLine(id) \/ output[i] = EndLine(id)
    <3>1. output[i].id = id => output[i] = StartLine(id) \/ output[i] = EndLine(id)
      BY <2>1, LineForms
    <3>2. StartLine(id).id = id /\ EndLine(id).id = id  BY DEF StartLine, EndLine
    <3>. QED  BY <3>1, <3>2
  <2>. QED  BY <2>2 DEF Unread, LinesOf
<1>2. ASSUME NEW id \in TaskIds, id \notin missed, ~Unread(id) PROVE id \in tracked <=> id \in running
  <2>1. running \subseteq started  BY DEF TasksInd, TasksTypeOK
  <2>. QED  BY <1>1, <1>2, <2>1 DEF TasksInd, Counted
<1>3. ASSUME loop = "gone", NEW id \in running PROVE id \in missed \/ Unread(id)
  <2>1. id \in TaskIds  BY DEF TasksInd, TasksTypeOK
  <2>. QED  BY <1>1, <1>3, <2>1 DEF TasksInd, ChosenIsIdle
<1>. QED  BY <1>2, <1>3 DEF TasksInd, FlagFollows, TasksKeepSessions

\* The tracker and has_bg_tasks are right about every task whose lines were counted,
\* and no eviction or sweep (session_manager.rs:406-414, 545-576) ends a session under
\* one of them, however the select loops, the tasks and the manager interleave.
THEOREM SessionsAreKept == TasksSpec => []TasksKeepSessions
<1>1. TasksInit => TasksInd  BY TasksInitial
<1>2. TasksInd /\ [TasksNext]_tasksVars => TasksInd'  BY TasksStepKeeps
<1>3. TasksInd => TasksKeepSessions  BY IndKeepsSessions
<1>. QED  BY <1>1, <1>2, <1>3, PTL DEF TasksSpec
-----------------------------------------------------------------------------
(* /branch, for any number of commands and posts.                                     *)

\* Between the two locks the source is the command's: a /clear can only free it.
SourceTaken == step \in {"acquired", "spawned"} => srcBy # "user"

\* A user's turn in the new thread has the row running, until the cleanup deletes it.
UserTurnRuns == newTurn = "user" => newRow = "running" \/ step \in {"archive", "over"}

\* The inductive invariant.
BranchInd == BranchTypeOK /\ BranchRowsOwned /\ SourceTaken /\ UserTurnRuns

\* Every variable keeps to its values.
LEMMA BranchTypeStep ==
    ASSUME BranchTypeOK, [BranchNext]_branchVars
    PROVE  BranchTypeOK'
<1> USE BranchAssumption DEF BranchTypeOK, BranchSteps, CleanupSteps, Parties, Goes
<1>1. CASE TryAcquireSource
  BY <1>1 DEF TryAcquireSource, sourceVars, targetVars
<1>2. CASE SpawnSource
  BY <1>2 DEF SpawnSource, sourceVars, targetVars, SourceIdle
<1>3. CASE SendSummary
  BY <1>3 DEF SendSummary, sourceVars, targetVars, SourceIdle
<1>4. CASE CollectSummary
  BY <1>4 DEF CollectSummary, sourceVars, targetVars, SourceIdle
<1>5. CASE LockSource \/ ParseSummary \/ SummaryEnds
  BY <1>5 DEF LockSource, ParseSummary, SummaryEnds, sourceVars, targetVars
<1>6. CASE UserTurn \/ UserTurnEnds
  BY <1>6 DEF UserTurn, UserTurnEnds, sourceVars, targetVars, SourceIdle
<1>7. CASE ClearSource
  BY <1>7 DEF ClearSource, sourceVars, targetVars
<1>8. CASE CreateThread \/ SayHeader
  BY <1>8 DEF CreateThread, SayHeader, sourceVars, targetVars
<1>9. CASE CreateRow
  BY <1>9 DEF CreateRow, sourceVars, targetVars
<1>10. CASE SpawnNew
  <2>1. process' \in BOOLEAN
    BY <1>10, Zenon DEF SpawnNew, targetVars
  <2> QED BY <1>10, <2>1 DEF SpawnNew, sourceVars, targetVars
<1>11. CASE LockNew
  BY <1>11 DEF LockNew, sourceVars, targetVars
<1>12. CASE TryAcquireNew
  BY <1>12 DEF TryAcquireNew, sourceVars, targetVars
<1>13. CASE SendFirst
  BY <1>13 DEF SendFirst, sourceVars, targetVars
<1>14. CASE Confirm
  <2>1. process' \in BOOLEAN /\ undrained' \in BOOLEAN
    BY <1>14, Zenon DEF Confirm, targetVars
  <2> QED BY <1>14, <2>1 DEF Confirm, sourceVars, targetVars
<1>15. CASE DrainFirst
  BY <1>15 DEF DrainFirst, sourceVars, targetVars
<1>16. CASE KillOrphan
  <2>1. process' \in BOOLEAN /\ undrained' \in BOOLEAN
    BY <1>16, Zenon DEF KillOrphan
  <2>2. step' \in BranchSteps /\ newTurn' = Unowned
    BY <1>16 DEF KillOrphan
  <2>3. UNCHANGED <<sourceVars, thread, newRow, newLock, poster, posts, branches>>
    BY <1>16 DEF KillOrphan
  <2> QED BY <2>1, <2>2, <2>3 DEF sourceVars
<1>17. CASE ForgetOrphan
  BY <1>17 DEF ForgetOrphan, sourceVars, targetVars
<1>18. CASE DeleteOrphan \/ ArchiveOrphan
  BY <1>18 DEF DeleteOrphan, ArchiveOrphan, sourceVars, targetVars
<1>19. CASE AskBranch
  <2>1. process' \in BOOLEAN /\ undrained' \in BOOLEAN
    BY <1>19, Zenon DEF AskBranch
  <2>2. step' \in BranchSteps /\ branches' \in 0..MaxBranches /\ posts' \in 0..MaxPosts
    BY <1>19 DEF AskBranch
  <2>3. /\ newTurn' = Unowned /\ newLock' = Unowned /\ newRow' = "none"
        /\ poster' = "none" /\ thread' = "none" /\ UNCHANGED sourceVars
    BY <1>19 DEF AskBranch
  <2> QED BY <2>1, <2>2, <2>3 DEF sourceVars
<1>20. CASE NewTurnEnds
  BY <1>20 DEF NewTurnEnds, sourceVars, targetVars
<1>21. CASE Post
  <2>1. posts' \in 0..MaxPosts
    BY <1>21 DEF Post
  <2> QED BY <1>21, <2>1 DEF Post, sourceVars, targetVars
<1>22. CASE PosterLocks
  BY <1>22 DEF PosterLocks, sourceVars, targetVars
<1>23. CASE PosterSends
  BY <1>23 DEF PosterSends, sourceVars, targetVars
<1>24. CASE UNCHANGED branchVars
  BY <1>24 DEF branchVars
<1> QED BY <1>1, <1>2, <1>3, <1>4, <1>5, <1>6, <1>7, <1>8, <1>9, <1>10, <1>11, <1>12,
           <1>13, <1>14, <1>15, <1>16, <1>17, <1>18, <1>19, <1>20, <1>21, <1>22, <1>23,
           <1>24
   DEF BranchNext, BranchStep, PosterStep

\* The locks are given back where they should be.
LEMMA LocksStep ==
    ASSUME BranchTypeOK, LocksHeld, [BranchNext]_branchVars
    PROVE  LocksHeld'
<1> USE BranchAssumption DEF LocksHeld, BranchTypeOK, Parties, Goes, CleanupSteps
<1>1. CASE TryAcquireSource
  BY <1>1 DEF TryAcquireSource, sourceVars, targetVars
<1>2. CASE SpawnSource
  BY <1>2 DEF SpawnSource, sourceVars, targetVars, SourceIdle
<1>3. CASE SendSummary
  BY <1>3 DEF SendSummary, sourceVars, targetVars, SourceIdle
<1>4. CASE CollectSummary
  BY <1>4 DEF CollectSummary, sourceVars, targetVars, SourceIdle
<1>5. CASE LockSource \/ ParseSummary \/ SummaryEnds
  BY <1>5 DEF LockSource, ParseSummary, SummaryEnds, sourceVars, targetVars
<1>6. CASE UserTurn \/ UserTurnEnds
  BY <1>6 DEF UserTurn, UserTurnEnds, sourceVars, targetVars, SourceIdle
<1>7. CASE ClearSource
  BY <1>7 DEF ClearSource, sourceVars, targetVars
<1>8. CASE CreateThread \/ SayHeader
  BY <1>8 DEF CreateThread, SayHeader, sourceVars, targetVars
<1>9. CASE CreateRow
  BY <1>9 DEF CreateRow, sourceVars, targetVars
<1>10. CASE SpawnNew
  BY <1>10 DEF SpawnNew, sourceVars, targetVars
<1>11. CASE LockNew
  BY <1>11 DEF LockNew, sourceVars, targetVars
<1>12. CASE TryAcquireNew
  BY <1>12 DEF TryAcquireNew, sourceVars, targetVars
<1>13. CASE SendFirst
  BY <1>13 DEF SendFirst, sourceVars, targetVars
<1>14. CASE Confirm
  BY <1>14 DEF Confirm, sourceVars, targetVars
<1>15. CASE DrainFirst
  BY <1>15 DEF DrainFirst, sourceVars, targetVars
<1>16. CASE KillOrphan
  BY <1>16 DEF KillOrphan, sourceVars, targetVars
<1>17. CASE ForgetOrphan
  BY <1>17 DEF ForgetOrphan, sourceVars, targetVars
<1>18. CASE DeleteOrphan \/ ArchiveOrphan
  BY <1>18 DEF DeleteOrphan, ArchiveOrphan, sourceVars, targetVars
<1>19. CASE AskBranch
  BY <1>19 DEF AskBranch, sourceVars, targetVars
<1>20. CASE NewTurnEnds
  BY <1>20 DEF NewTurnEnds, sourceVars, targetVars
<1>21. CASE Post
  BY <1>21 DEF Post, sourceVars, targetVars
<1>22. CASE PosterLocks
  BY <1>22 DEF PosterLocks, sourceVars, targetVars
<1>23. CASE PosterSends
  BY <1>23 DEF PosterSends, sourceVars, targetVars
<1>24. CASE UNCHANGED branchVars
  BY <1>24 DEF branchVars
<1> QED BY <1>1, <1>2, <1>3, <1>4, <1>5, <1>6, <1>7, <1>8, <1>9, <1>10, <1>11, <1>12,
           <1>13, <1>14, <1>15, <1>16, <1>17, <1>18, <1>19, <1>20, <1>21, <1>22, <1>23,
           <1>24
   DEF BranchNext, BranchStep, PosterStep

\* No user's message takes the source's row while its lock is held.
LEMMA SourceTakenStep ==
    ASSUME BranchTypeOK, LocksHeld, SourceTaken, [BranchNext]_branchVars
    PROVE  SourceTaken'
<1> USE BranchAssumption DEF LocksHeld, SourceTaken, Goes
<1>1. CASE TryAcquireSource
  BY <1>1 DEF TryAcquireSource, sourceVars, targetVars
<1>2. CASE SpawnSource
  BY <1>2 DEF SpawnSource, sourceVars, targetVars, SourceIdle
<1>3. CASE SendSummary
  BY <1>3 DEF SendSummary, sourceVars, targetVars, SourceIdle
<1>4. CASE CollectSummary
  BY <1>4 DEF CollectSummary, sourceVars, targetVars, SourceIdle
<1>5. CASE LockSource \/ ParseSummary \/ SummaryEnds
  BY <1>5 DEF LockSource, ParseSummary, SummaryEnds, sourceVars, targetVars
<1>6. CASE UserTurn \/ UserTurnEnds
  BY <1>6 DEF UserTurn, UserTurnEnds, sourceVars, targetVars, SourceIdle
<1>7. CASE ClearSource
  BY <1>7 DEF ClearSource, sourceVars, targetVars
<1>8. CASE CreateThread \/ SayHeader
  BY <1>8 DEF CreateThread, SayHeader, sourceVars, targetVars
<1>9. CASE CreateRow
  BY <1>9 DEF CreateRow, sourceVars, targetVars
<1>10. CASE SpawnNew
  BY <1>10 DEF SpawnNew, sourceVars, targetVars
<1>11. CASE LockNew
  BY <1>11 DEF LockNew, sourceVars, targetVars
<1>12. CASE TryAcquireNew
  BY <1>12 DEF TryAcquireNew, sourceVars, targetVars
<1>13. CASE SendFirst
  BY <1>13 DEF SendFirst, sourceVars, targetVars
<1>14. CASE Confirm
  BY <1>14 DEF Confirm, sourceVars, targetVars
<1>15. CASE DrainFirst
  BY <1>15 DEF DrainFirst, sourceVars, targetVars
<1>16. CASE KillOrphan
  BY <1>16 DEF KillOrphan, sourceVars, targetVars
<1>17. CASE ForgetOrphan
  BY <1>17 DEF ForgetOrphan, sourceVars, targetVars
<1>18. CASE DeleteOrphan \/ ArchiveOrphan
  BY <1>18 DEF DeleteOrphan, ArchiveOrphan, sourceVars, targetVars
<1>19. CASE AskBranch
  BY <1>19 DEF AskBranch, sourceVars, targetVars
<1>20. CASE NewTurnEnds
  BY <1>20 DEF NewTurnEnds, sourceVars, targetVars
<1>21. CASE Post
  BY <1>21 DEF Post, sourceVars, targetVars
<1>22. CASE PosterLocks
  BY <1>22 DEF PosterLocks, sourceVars, targetVars
<1>23. CASE PosterSends
  BY <1>23 DEF PosterSends, sourceVars, targetVars
<1>24. CASE UNCHANGED branchVars
  BY <1>24 DEF branchVars
<1> QED BY <1>1, <1>2, <1>3, <1>4, <1>5, <1>6, <1>7, <1>8, <1>9, <1>10, <1>11, <1>12,
           <1>13, <1>14, <1>15, <1>16, <1>17, <1>18, <1>19, <1>20, <1>21, <1>22, <1>23,
           <1>24
   DEF BranchNext, BranchStep, PosterStep

\* The source's row is given back.
LEMMA SourceRowStep ==
    ASSUME BranchTypeOK, SourceTaken, SourceRowOwned, [BranchNext]_branchVars
    PROVE  SourceRowOwned'
<1> USE BranchAssumption DEF SourceRowOwned, SourceTaken, Goes
<1>1. CASE TryAcquireSource
  BY <1>1 DEF TryAcquireSource, sourceVars, targetVars
<1>2. CASE SpawnSource
  BY <1>2 DEF SpawnSource, sourceVars, targetVars, SourceIdle
<1>3. CASE SendSummary
  BY <1>3 DEF SendSummary, sourceVars, targetVars, SourceIdle
<1>4. CASE CollectSummary
  BY <1>4 DEF CollectSummary, sourceVars, targetVars, SourceIdle
<1>5. CASE LockSource \/ ParseSummary \/ SummaryEnds
  BY <1>5 DEF LockSource, ParseSummary, SummaryEnds, sourceVars, targetVars
<1>6. CASE UserTurn \/ UserTurnEnds
  BY <1>6 DEF UserTurn, UserTurnEnds, sourceVars, targetVars, SourceIdle
<1>7. CASE ClearSource
  BY <1>7 DEF ClearSource, sourceVars, targetVars
<1>8. CASE CreateThread \/ SayHeader
  BY <1>8 DEF CreateThread, SayHeader, sourceVars, targetVars
<1>9. CASE CreateRow
  BY <1>9 DEF CreateRow, sourceVars, targetVars
<1>10. CASE SpawnNew
  BY <1>10 DEF SpawnNew, sourceVars, targetVars
<1>11. CASE LockNew
  BY <1>11 DEF LockNew, sourceVars, targetVars
<1>12. CASE TryAcquireNew
  BY <1>12 DEF TryAcquireNew, sourceVars, targetVars
<1>13. CASE SendFirst
  BY <1>13 DEF SendFirst, sourceVars, targetVars
<1>14. CASE Confirm
  BY <1>14 DEF Confirm, sourceVars, targetVars
<1>15. CASE DrainFirst
  BY <1>15 DEF DrainFirst, sourceVars, targetVars
<1>16. CASE KillOrphan
  BY <1>16 DEF KillOrphan, sourceVars, targetVars
<1>17. CASE ForgetOrphan
  BY <1>17 DEF ForgetOrphan, sourceVars, targetVars
<1>18. CASE DeleteOrphan \/ ArchiveOrphan
  BY <1>18 DEF DeleteOrphan, ArchiveOrphan, sourceVars, targetVars
<1>19. CASE AskBranch
  BY <1>19 DEF AskBranch, sourceVars, targetVars
<1>20. CASE NewTurnEnds
  BY <1>20 DEF NewTurnEnds, sourceVars, targetVars
<1>21. CASE Post
  BY <1>21 DEF Post, sourceVars, targetVars
<1>22. CASE PosterLocks
  BY <1>22 DEF PosterLocks, sourceVars, targetVars
<1>23. CASE PosterSends
  BY <1>23 DEF PosterSends, sourceVars, targetVars
<1>24. CASE UNCHANGED branchVars
  BY <1>24 DEF branchVars
<1> QED BY <1>1, <1>2, <1>3, <1>4, <1>5, <1>6, <1>7, <1>8, <1>9, <1>10, <1>11, <1>12,
           <1>13, <1>14, <1>15, <1>16, <1>17, <1>18, <1>19, <1>20, <1>21, <1>22, <1>23,
           <1>24
   DEF BranchNext, BranchStep, PosterStep

\* A user's turn in the new thread goes on until its end or the kill.
LEMMA UserTurnStep ==
    ASSUME BranchTypeOK, NewRowOwned, UserTurnRuns, [BranchNext]_branchVars
    PROVE  UserTurnRuns'
<1> USE BranchAssumption DEF UserTurnRuns, NewRowOwned, Goes
<1>1. CASE TryAcquireSource
  BY <1>1 DEF TryAcquireSource, sourceVars, targetVars
<1>2. CASE SpawnSource
  BY <1>2 DEF SpawnSource, sourceVars, targetVars, SourceIdle
<1>3. CASE SendSummary
  BY <1>3 DEF SendSummary, sourceVars, targetVars, SourceIdle
<1>4. CASE CollectSummary
  BY <1>4 DEF CollectSummary, sourceVars, targetVars, SourceIdle
<1>5. CASE LockSource \/ ParseSummary \/ SummaryEnds
  BY <1>5 DEF LockSource, ParseSummary, SummaryEnds, sourceVars, targetVars
<1>6. CASE UserTurn \/ UserTurnEnds
  BY <1>6 DEF UserTurn, UserTurnEnds, sourceVars, targetVars, SourceIdle
<1>7. CASE ClearSource
  BY <1>7 DEF ClearSource, sourceVars, targetVars
<1>8. CASE CreateThread \/ SayHeader
  BY <1>8 DEF CreateThread, SayHeader, sourceVars, targetVars
<1>9. CASE CreateRow
  BY <1>9 DEF CreateRow, sourceVars, targetVars
<1>10. CASE SpawnNew
  BY <1>10 DEF SpawnNew, sourceVars, targetVars
<1>11. CASE LockNew
  BY <1>11 DEF LockNew, sourceVars, targetVars
<1>12. CASE TryAcquireNew
  BY <1>12 DEF TryAcquireNew, sourceVars, targetVars
<1>13. CASE SendFirst
  BY <1>13 DEF SendFirst, sourceVars, targetVars
<1>14. CASE Confirm
  BY <1>14 DEF Confirm, sourceVars, targetVars
<1>15. CASE DrainFirst
  BY <1>15 DEF DrainFirst, sourceVars, targetVars
<1>16. CASE KillOrphan
  BY <1>16 DEF KillOrphan, sourceVars, targetVars
<1>17. CASE ForgetOrphan
  BY <1>17 DEF ForgetOrphan, sourceVars, targetVars
<1>18. CASE DeleteOrphan \/ ArchiveOrphan
  BY <1>18 DEF DeleteOrphan, ArchiveOrphan, sourceVars, targetVars
<1>19. CASE AskBranch
  BY <1>19 DEF AskBranch, sourceVars, targetVars
<1>20. CASE NewTurnEnds
  BY <1>20 DEF NewTurnEnds, sourceVars, targetVars
<1>21. CASE Post
  BY <1>21 DEF Post, sourceVars, targetVars
<1>22. CASE PosterLocks
  BY <1>22 DEF PosterLocks, sourceVars, targetVars
<1>23. CASE PosterSends
  BY <1>23 DEF PosterSends, sourceVars, targetVars
<1>24. CASE UNCHANGED branchVars
  BY <1>24 DEF branchVars
<1> QED BY <1>1, <1>2, <1>3, <1>4, <1>5, <1>6, <1>7, <1>8, <1>9, <1>10, <1>11, <1>12,
           <1>13, <1>14, <1>15, <1>16, <1>17, <1>18, <1>19, <1>20, <1>21, <1>22, <1>23,
           <1>24
   DEF BranchNext, BranchStep, PosterStep

\* The row of the new thread is given back or deleted.
LEMMA NewRowStep ==
    ASSUME BranchTypeOK, NewRowOwned, UserTurnRuns, [BranchNext]_branchVars
    PROVE  NewRowOwned'
<1> USE BranchAssumption DEF NewRowOwned, UserTurnRuns, Goes
<1>1. CASE TryAcquireSource
  BY <1>1 DEF TryAcquireSource, sourceVars, targetVars
<1>2. CASE SpawnSource
  BY <1>2 DEF SpawnSource, sourceVars, targetVars, SourceIdle
<1>3. CASE SendSummary
  BY <1>3 DEF SendSummary, sourceVars, targetVars, SourceIdle
<1>4. CASE CollectSummary
  BY <1>4 DEF CollectSummary, sourceVars, targetVars, SourceIdle
<1>5. CASE LockSource \/ ParseSummary \/ SummaryEnds
  BY <1>5 DEF LockSource, ParseSummary, SummaryEnds, sourceVars, targetVars
<1>6. CASE UserTurn \/ UserTurnEnds
  BY <1>6 DEF UserTurn, UserTurnEnds, sourceVars, targetVars, SourceIdle
<1>7. CASE ClearSource
  BY <1>7 DEF ClearSource, sourceVars, targetVars
<1>8. CASE CreateThread \/ SayHeader
  BY <1>8 DEF CreateThread, SayHeader, sourceVars, targetVars
<1>9. CASE CreateRow
  BY <1>9 DEF CreateRow, sourceVars, targetVars
<1>10. CASE SpawnNew
  BY <1>10 DEF SpawnNew, sourceVars, targetVars
<1>11. CASE LockNew
  BY <1>11 DEF LockNew, sourceVars, targetVars
<1>12. CASE TryAcquireNew
  BY <1>12 DEF TryAcquireNew, sourceVars, targetVars
<1>13. CASE SendFirst
  BY <1>13 DEF SendFirst, sourceVars, targetVars
<1>14. CASE Confirm
  BY <1>14 DEF Confirm, sourceVars, targetVars
<1>15. CASE DrainFirst
  BY <1>15 DEF DrainFirst, sourceVars, targetVars
<1>16. CASE KillOrphan
  BY <1>16 DEF KillOrphan, sourceVars, targetVars
<1>17. CASE ForgetOrphan
  BY <1>17 DEF ForgetOrphan, sourceVars, targetVars
<1>18. CASE DeleteOrphan \/ ArchiveOrphan
  BY <1>18 DEF DeleteOrphan, ArchiveOrphan, sourceVars, targetVars
<1>19. CASE AskBranch
  BY <1>19 DEF AskBranch, sourceVars, targetVars
<1>20. CASE NewTurnEnds
  BY <1>20 DEF NewTurnEnds, sourceVars, targetVars
<1>21. CASE Post
  BY <1>21 DEF Post, sourceVars, targetVars
<1>22. CASE PosterLocks
  BY <1>22 DEF PosterLocks, sourceVars, targetVars
<1>23. CASE PosterSends
  BY <1>23 DEF PosterSends, sourceVars, targetVars
<1>24. CASE UNCHANGED branchVars
  BY <1>24 DEF branchVars
<1> QED BY <1>1, <1>2, <1>3, <1>4, <1>5, <1>6, <1>7, <1>8, <1>9, <1>10, <1>11, <1>12,
           <1>13, <1>14, <1>15, <1>16, <1>17, <1>18, <1>19, <1>20, <1>21, <1>22, <1>23,
           <1>24
   DEF BranchNext, BranchStep, PosterStep

\* The invariant of /branch holds throughout.
THEOREM BranchInvariant == BranchSpec => []BranchInd
<1>1. BranchInit => BranchInd
  <2> SUFFICES ASSUME BranchInit PROVE BranchInd
    OBVIOUS
  <2>1. process \in BOOLEAN /\ undrained \in BOOLEAN
    BY Zenon DEF BranchInit
  <2>2. branches \in 0..MaxBranches /\ posts \in 0..MaxPosts
    BY BranchAssumption DEF BranchInit
  <2>3. BranchTypeOK
    BY <2>1, <2>2 DEF BranchInit, BranchTypeOK, Parties
  <2>4. BranchRowsOwned /\ SourceTaken /\ UserTurnRuns
    BY BranchAssumption DEF BranchInit, BranchRowsOwned, SourceRowOwned, NewRowOwned, LocksHeld,
                            SourceTaken, UserTurnRuns
  <2> QED BY <2>3, <2>4 DEF BranchInd
<1>2. BranchInd /\ [BranchNext]_branchVars => BranchInd'
  BY BranchTypeStep, LocksStep, SourceTakenStep, SourceRowStep, UserTurnStep, NewRowStep
  DEF BranchInd, BranchRowsOwned
<1> QED BY <1>1, <1>2, PTL DEF BranchSpec

\* Every variable of /branch keeps to its values.
THEOREM BranchTypes == BranchSpec => []BranchTypeOK
<1>1. BranchInd => BranchTypeOK
  BY DEF BranchInd
<1> QED BY <1>1, BranchInvariant, PTL

\* No row is left running by /branch, whatever users post, run and clear meanwhile, but
\* by a command that could not confirm; its first turn shares its row with no user's
\* turn, and no lock stays with a command that is past it.
THEOREM BranchOwnsItsRows == BranchSpec => []BranchRowsOwned
<1>1. BranchInd => BranchRowsOwned
  BY DEF BranchInd
<1> QED BY <1>1, BranchInvariant, PTL
-----------------------------------------------------------------------------
(* The update: two updates are never past the lock at once and no lock outlives its     *)
(* update, and a marker that waits for its first boot has a backup beside it.  The      *)
(* invariant ties three things together that the code keeps apart: a command runs only  *)
(* in a process that is up, the lock file says what the command with it is doing, and   *)
(* the files an update has made so far stay until a rollback, which no command survives.*)

\* Type correctness in two parts: the counters of the bounds, and the rest.
BoundTypes == markers \in 0..MaxMarkers /\ faults \in 0..MaxFaults

ServiceType == [version : Versions, at : BootSteps \cup {"waiting", "up", "failed", "exited"}]

FileTypes ==
  /\ bin \in Versions /\ tree \in Versions
  /\ backup \in Versions \cup {None}
  /\ dump \in {None, "torn", "whole"}
  /\ marker \in MarkerFile \cup {None, Corrupt}
  /\ notice \in [restoreFailed : BOOLEAN] \cup {None}
  /\ lockFile \in LockRecord \cup {None}
  /\ service \in ServiceType
  /\ armed \in BOOLEAN /\ delayed \in BOOLEAN /\ unready \in BOOLEAN /\ stolen \in BOOLEAN
  /\ stage \in [Updaters -> Stages]

\* A command ends with its process.
CommandsNeedTheProcess == \A u \in Updaters : stage[u] # "none" => service.at = "up"

LockOf(u, text) == [by |-> u, text |-> text]

\* Until a lock was stolen, the lock file is the one the command made, and has its text.
LockSaysWhat ==
  ~stolen => \A u \in Updaters :
    /\ stage[u] = "creating" => lockFile = LockOf(u, "empty")
    /\ Holding(u) => lockFile = LockOf(u, "live")

\* Stolen or not, a file that was not left behind has a command, and its text.
FileHasItsCommand ==
  service.at = "up" /\ lockFile # None /\ lockFile.by # None =>
    /\ Locking(lockFile.by)
    /\ stage[lockFile.by] = "creating" => lockFile.text = "empty"
    /\ Holding(lockFile.by) => lockFile.text = "live"

\* While the process is down no lock is live; one its boot does not clear is left behind.
NoneIsLive ==
  service.at # "up" /\ lockFile # None =>
    /\ lockFile.text # "live"
    /\ service.at = "waiting" => lockFile.by = None

\* From the copy of the binary to the schedule of the restart there is a backup.
BackupStands ==
  \A u \in Updaters :
    stage[u] \in {"backed", "dumping", "dumped", "built", "marked"} => backup # None

\* A boot that rolls back has counted its attempt.
RollbackIsCounted == service.at = "rolling" => (MarkerPending => marker.attempts > 0)

LockInd == CommandsNeedTheProcess /\ LockSaysWhat /\ FileHasItsCommand /\ NoneIsLive
BackupInd == BackupStands /\ RollbackIsCounted /\ RollbackHasABinary
UpdateInd == UpdateTypeOK /\ LockInd /\ BackupInd

-----------------------------------------------------------------------------
\* A lock record is not the absence of one, nor is who wrote it.
LEMMA LockRecords ==
  /\ \A u \in Updaters \cup {None}, text \in LockText :
       /\ LockOf(u, text) \in LockRecord /\ LockOf(u, text) # None
       /\ LockOf(u, text).by = u /\ LockOf(u, text).text = text
  /\ \A u \in Updaters : u # None
BY UpdateAssumption DEF LockOf, LockRecord

\* The invariant holds initially.
LEMMA UpdateInitial == UpdateInit => UpdateInd
<1>. SUFFICES ASSUME UpdateInit PROVE UpdateInd  OBVIOUS
<1>1. UpdateTypeOK
  <2>1. FileTypes
    BY UpdateAssumption DEF UpdateInit, FileTypes, ServiceType, BootSteps, Stages
  <2>2. BoundTypes  BY UpdateAssumption DEF UpdateInit, BoundTypes
  <2>. QED  BY <2>1, <2>2 DEF UpdateTypeOK, BoundTypes, FileTypes, ServiceType
<1>2. LockInd
  BY DEF UpdateInit, LockInd, CommandsNeedTheProcess, LockSaysWhat, Holding, FileHasItsCommand,
         NoneIsLive
<1>3. BackupInd
  BY DEF UpdateInit, BackupInd, BackupStands, RollbackIsCounted, RollbackHasABinary,
         MarkerPending
<1>. QED  BY <1>1, <1>2, <1>3 DEF UpdateInd

\* The bounds are kept.
LEMMA BoundStep == BoundTypes /\ [UpdateNext]_updateVars => BoundTypes'
<1>. SUFFICES ASSUME BoundTypes, [UpdateNext]_updateVars PROVE BoundTypes'  OBVIOUS
<1>. USE UpdateAssumption DEF BoundTypes
<1>1. UNCHANGED <<markers, faults>> => BoundTypes'  OBVIOUS
<1>2. UNCHANGED markers /\ (Fault \/ UNCHANGED faults) => BoundTypes'  BY DEF Fault
<1>3. ASSUME NEW u \in Updaters, CreateMarker(u) PROVE BoundTypes'  BY <1>3 DEF CreateMarker
<1>4. ASSUME NEW u \in Updaters, CreateLock(u) \/ FindDead(u) \/ RemoveStale(u) \/ WriteLock(u)
      PROVE  BoundTypes'
  BY <1>1, <1>4 DEF CreateLock, FindDead, RemoveStale, WriteLock
<1>5. ASSUME NEW u \in Updaters,
             Checkout(u) \/ BackupBinary(u) \/ BeginDump(u) \/ EndDump(u) \/ Build(u) \/ ScheduleRestart(u)
      PROVE  BoundTypes'
  BY <1>2, <1>5 DEF Checkout, BackupBinary, BeginDump, EndDump, Build, ScheduleRestart, Advance
<1>6. ASSUME NEW u \in Updaters, WriteLockFails(u) \/ ScheduleFails(u) \/ StepFails(u)
      PROVE  BoundTypes'
  BY <1>2, <1>6 DEF WriteLockFails, ScheduleFails, StepFails
<1>7. CASE Boot
  BY <1>2, <1>7 DEF Boot, RestartOnFailure, DelayedRestart, BootsNormally, BootsRolling, Boots,
                    RestoreBinary, RestoreDatabase, BecomesReady
<1>8. CASE Dies \/ DiesCounting \/ WatchdogFires
  BY <1>2, <1>8 DEF Dies, DiesCounting, WatchdogFires
<1>. QED
  BY <1>1, <1>3, <1>4, <1>5, <1>6, <1>7, <1>8 DEF UpdateNext, UpdateStep, updateVars

\* A killed process keeps no live lock and no command.
LEMMA ProcessEnds ==
  ASSUME FileTypes, NEW how \in {"failed", "exited"}, Ends(how)
  PROVE  /\ lockFile' \in LockRecord \cup {None} /\ stage' \in [Updaters -> Stages]
         /\ service' \in ServiceType /\ stolen' \in BOOLEAN
BY DEF FileTypes, Ends, CommandsEnd, LockRecord, LockText, ServiceType, Stages

\* What the commands do keeps the types.
LEMMA CommandTypes ==
  ASSUME FileTypes, NEW u \in Updaters,
         \/ CreateLock(u) \/ FindDead(u) \/ UpdateStep(u)
         \/ WriteLockFails(u) \/ ScheduleFails(u) \/ StepFails(u)
  PROVE  FileTypes'
<1>. USE UpdateAssumption DEF FileTypes, Stages, files
<1>1. CASE CreateLock(u)  BY <1>1 DEF CreateLock, LockRecord, LockText
<1>2. CASE FindDead(u)  BY <1>2 DEF FindDead
<1>10. CASE RemoveStale(u)
  <2>1. stolen' \in BOOLEAN  BY <1>10, Zenon DEF RemoveStale
  <2>. QED  BY <1>10, <2>1 DEF RemoveStale
<1>11. CASE WriteLockFails(u)
  <2>1. lockFile' \in LockRecord \cup {None}  BY <1>11 DEF WriteLockFails, LockRecord, LockText
  <2>. QED  BY <1>11, <2>1 DEF WriteLockFails
<1>9. {Unlocked, StillLocked} \subseteq LockRecord \cup {None}
  BY DEF Unlocked, StillLocked, LockRecord, LockText
<1>3. CASE WriteLock(u)
  <2>1. lockFile' \in LockRecord \cup {None}  BY <1>3 DEF WriteLock, LockRecord, LockText
  <2>. QED  BY <1>3, <2>1 DEF WriteLock
<1>4. CASE Checkout(u) \/ BackupBinary(u) \/ BeginDump(u) \/ EndDump(u) \/ Build(u)
  BY <1>4 DEF Checkout, BackupBinary, BeginDump, EndDump, Build, Advance
<1>5. CASE CreateMarker(u)
  <2>1. marker' \in MarkerFile  BY <1>5 DEF CreateMarker, MarkerFile, ServiceType
  <2>. QED  BY <1>5, <2>1 DEF CreateMarker
<1>6. CASE ScheduleRestart(u)  BY <1>6, <1>9 DEF ScheduleRestart, Advance
<1>7. CASE ScheduleFails(u)  BY <1>7, <1>9 DEF ScheduleFails
<1>8. CASE StepFails(u)  BY <1>8, <1>9 DEF StepFails
<1>. QED  BY <1>1, <1>2, <1>3, <1>4, <1>5, <1>6, <1>7, <1>8, <1>10, <1>11 DEF UpdateStep

\* What the process and its boots do keeps the types.
LEMMA ProcessTypes ==
  ASSUME FileTypes, Boot \/ Dies \/ DiesCounting \/ WatchdogFires
  PROVE  FileTypes'
<1>. USE DEF FileTypes, files
<1>1. CASE RestartOnFailure  BY <1>1 DEF RestartOnFailure, ServiceType, BootSteps
<1>2. CASE DelayedRestart
  <2>1. lockFile' \in LockRecord \cup {None}  BY <1>2 DEF DelayedRestart, CommandsEnd, LockRecord, LockText
  <2>2. service' \in ServiceType /\ stage' \in [Updaters -> Stages] /\ stolen' \in BOOLEAN
    BY <1>2 DEF DelayedRestart, CommandsEnd, ServiceType, BootSteps, Stages
  <2>. QED  BY <1>2, <2>1, <2>2 DEF DelayedRestart
<1>3. service.version \in Versions  BY DEF ServiceType
<1>13. ASSUME NEW m, NEW to, Boots(m, to, service.version)
       PROVE  lockFile' \in LockRecord \cup {None} /\ armed' \in BOOLEAN
  <2>1. armed' \in BOOLEAN  BY <1>13, Zenon DEF Boots
  <2>. QED  BY <1>13, <2>1, UpdateAssumption DEF Boots, CleanupStale, LockRecord, LockText
<1>4. CASE BootsNormally
  BY <1>3, <1>4, <1>13 DEF BootsNormally, Boots, ServiceType, BootSteps
<1>5. CASE BootsRolling
  <2>1. marker' \in MarkerFile
    BY <1>5 DEF BootsRolling, Boots, MustRollBack, MarkerPending, MarkerFile
  <2>. QED  BY <1>3, <1>5, <1>13, <2>1 DEF BootsRolling, Boots, ServiceType, BootSteps
<1>6. CASE RestoreBinary
  <2>1. service' \in ServiceType  BY <1>6 DEF RestoreBinary, ServiceType, BootSteps
  <2>2. /\ UNCHANGED <<dump, tree, marker, lockFile, stolen, armed, delayed, stage, unready>>
        /\ bin' \in Versions /\ backup' \in Versions \cup {None}
    BY <1>6 DEF RestoreBinary
  <2>3. notice' = [restoreFailed |-> FALSE] \/ notice' = [restoreFailed |-> TRUE]
    BY <1>6 DEF RestoreBinary
  <2>4. notice' \in [restoreFailed : BOOLEAN]
    <3>1. \A b \in BOOLEAN : [restoreFailed |-> b] \in [restoreFailed : BOOLEAN]  OBVIOUS
    <3>. QED  BY <2>3, <3>1, Zenon
  <2>. QED  BY <2>1, <2>2, <2>4
<1>7. CASE RestoreDatabase
  <2>1. PICK how \in {"failed", "exited"} : Ends(how)  BY <1>7 DEF RestoreDatabase
  <2>2. /\ lockFile' \in LockRecord \cup {None} /\ stage' \in [Updaters -> Stages]
        /\ service' \in ServiceType /\ stolen' \in BOOLEAN
    BY <2>1, ProcessEnds
  <2>3. notice' \in [restoreFailed : BOOLEAN] /\ delayed' \in BOOLEAN
    BY <1>7 DEF RestoreDatabase
  <2>4. UNCHANGED <<bin, backup, dump, tree, marker, armed, unready>>
    BY <1>7 DEF RestoreDatabase
  <2>. QED  BY <2>2, <2>3, <2>4
<1>8. CASE BecomesReady  BY <1>8 DEF BecomesReady, ServiceType
<1>9. ASSUME Ends("failed"), UNCHANGED <<files, marker, armed, delayed>>, unready' \in BOOLEAN
      PROVE  FileTypes'
  <2>1. /\ lockFile' \in LockRecord \cup {None} /\ stage' \in [Updaters -> Stages]
        /\ service' \in ServiceType /\ stolen' \in BOOLEAN
    BY <1>9, ProcessEnds
  <2>. QED  BY <1>9, <2>1
<1>10. CASE Dies  BY <1>9, <1>10 DEF Dies
<1>11. CASE WatchdogFires  BY <1>9, <1>11 DEF WatchdogFires
<1>12. CASE DiesCounting
  BY <1>12 DEF DiesCounting, CleanupStale, ServiceType
<1>. QED
  BY <1>1, <1>2, <1>4, <1>5, <1>6, <1>7, <1>8, <1>10, <1>11, <1>12 DEF Boot

\* Types are kept by every step.
LEMMA UpdateTypeStep == UpdateTypeOK /\ [UpdateNext]_updateVars => UpdateTypeOK'
<1>1. UpdateTypeOK <=> BoundTypes /\ FileTypes
  BY DEF UpdateTypeOK, BoundTypes, FileTypes, ServiceType
<1>2. (UpdateTypeOK <=> BoundTypes /\ FileTypes)'
  BY DEF UpdateTypeOK, BoundTypes, FileTypes, ServiceType
<1>3. FileTypes /\ UNCHANGED updateVars => FileTypes'  BY DEF FileTypes, updateVars
<1>. QED  BY <1>1, <1>2, <1>3, BoundStep, CommandTypes, ProcessTypes DEF UpdateNext

-----------------------------------------------------------------------------
\* The lock and what its command does stay together when the process ends.
LEMMA EndsUnlocks ==
  ASSUME FileTypes, CommandsEnd, service'.at \notin {"up", "waiting"}
  PROVE  LockInd'
<1>1. CommandsNeedTheProcess' /\ LockSaysWhat'
  BY DEF CommandsEnd, CommandsNeedTheProcess, LockSaysWhat, Holding
<1>2. lockFile' # None => lockFile'.text # "live"
  BY DEF CommandsEnd, FileTypes, LockRecord
<1>. QED  BY <1>1, <1>2 DEF LockInd, FileHasItsCommand, NoneIsLive

\* The lock is kept by every step of a command.  Until one was stolen, what a command
\* writes or removes is its own file; afterwards a file still has its own command.
LEMMA CommandLocks ==
  ASSUME UpdateTypeOK, LockInd, NEW u \in Updaters,
         \/ CreateLock(u) \/ FindDead(u) \/ UpdateStep(u)
         \/ WriteLockFails(u) \/ ScheduleFails(u) \/ StepFails(u)
  PROVE  LockInd'
<1>0. /\ FileTypes /\ stage \in [Updaters -> Stages] /\ stolen \in BOOLEAN
      /\ lockFile \in LockRecord \cup {None}
      /\ CommandsNeedTheProcess /\ LockSaysWhat /\ FileHasItsCommand /\ NoneIsLive
  BY DEF UpdateTypeOK, FileTypes, ServiceType, LockInd
<1>r. \A f \in LockRecord : f.by \in Updaters \cup {None} /\ f.text \in LockText
  BY DEF LockRecord
<1>. USE <1>0 DEF LockInd, CommandsNeedTheProcess, LockSaysWhat, FileHasItsCommand, NoneIsLive,
                  Holding, Locking
<1>1. CASE CreateLock(u)
  <2>1. lockFile' = LockOf(u, "empty") /\ lockFile' # None
        /\ lockFile'.by = u /\ lockFile'.text = "empty"
    BY <1>1, LockRecords DEF CreateLock, LockOf, LockText
  <2>2. /\ service' = service /\ service.at = "up" /\ stolen' = stolen
        /\ stage' = [stage EXCEPT ![u] = "creating"] /\ lockFile = None
    BY <1>1 DEF CreateLock
  <2>3. ~stolen => \A v \in Updaters : stage[v] \in {"none", "stale"}
    BY <2>2, LockRecords DEF LockText
  <2>. QED  BY <2>1, <2>2, <2>3
<1>2. CASE FindDead(u)
  <2>1. /\ service' = service /\ service.at = "up" /\ stolen' = stolen
        /\ stage[u] = "none" /\ stage' = [stage EXCEPT ![u] = "stale"]
        /\ lockFile' = lockFile
    BY <1>2 DEF FindDead
  <2>. QED  BY <2>1, <1>r
<1>3. CASE RemoveStale(u)
  <2>1. /\ service' = service /\ service.at = "up"
        /\ stage[u] = "stale" /\ stage' = [stage EXCEPT ![u] = "none"] /\ lockFile' = None
    BY <1>3 DEF RemoveStale
  <2>2. ~stolen' => ~stolen /\ (lockFile = None \/ lockFile.text = "dead")
    BY <1>3 DEF RemoveStale
  <2>3. ~stolen' => \A v \in Updaters : stage[v] \in {"none", "stale"}
    BY <2>2, LockRecords DEF LockText
  <2>. QED  BY <2>1, <2>3
<1>4. CASE WriteLock(u)
  <2>0. /\ service' = service /\ service.at = "up" /\ stolen' = stolen /\ stage[u] = "creating"
    BY <1>4 DEF WriteLock
  <2>1. CASE lockFile # None /\ lockFile.by = u
    <3>1. lockFile' = LockOf(u, "live")
      BY <1>4, <2>1, <1>r DEF WriteLock, LockRecord, LockOf
    <3>2. lockFile' # None /\ lockFile'.by = u /\ lockFile'.text = "live"
      BY <3>1, LockRecords DEF LockText
    <3>3. stage' = [stage EXCEPT ![u] = "locked"]  BY <1>4, <3>2 DEF WriteLock
    <3>4. ~stolen => lockFile = LockOf(u, "empty")  BY <2>0
    <3>5. ~stolen => \A v \in Updaters : v # u => stage[v] \in {"none", "stale"}
      BY <3>4, LockRecords DEF LockText
    <3>. QED  BY <2>0, <3>1, <3>2, <3>3, <3>5
  <2>2. CASE ~(lockFile # None /\ lockFile.by = u)
    <3>1. stolen
      BY <2>0, <2>2, LockRecords DEF LockText
    <3>2. lockFile' = lockFile  BY <1>4, <2>2 DEF WriteLock
    <3>3. PICK s \in {"none", "locked"} : stage' = [stage EXCEPT ![u] = s]
      BY <1>4 DEF WriteLock
    <3>4. lockFile # None => lockFile.by # u /\ lockFile.by \in Updaters \cup {None}
      BY <2>2, <1>r
    <3>. QED  BY <2>0, <3>1, <3>2, <3>3, <3>4
  <2>. QED  BY <2>1, <2>2
<1>5. CASE WriteLockFails(u)
  <2>0. /\ service' = service /\ service.at = "up" /\ stolen' = stolen /\ stage[u] = "creating"
        /\ stage' = [stage EXCEPT ![u] = "none"]
    BY <1>5 DEF WriteLockFails
  <2>1. ~stolen => lockFile = LockOf(u, "empty")  BY <2>0
  <2>2. ~stolen => \A v \in Updaters : v # u => stage[v] \in {"none", "stale"}
    BY <2>1, LockRecords DEF LockText
  <2>3. lockFile' # None => lockFile'.by = None \/ (lockFile' = lockFile /\ lockFile.by # u)
    BY <1>5, LockRecords DEF WriteLockFails
  <2>4. lockFile # None => lockFile.by \in Updaters \cup {None}  BY <1>r
  <2>. QED  BY <2>0, <2>2, <2>3, <2>4
<1>6. ASSUME UNCHANGED <<service, lockFile, stolen>>,
             NEW s \in Stages \ {"none", "stale", "creating"}, Holding(u),
             stage' = [stage EXCEPT ![u] = s]
      PROVE  LockInd'
  BY <1>6, <1>r
<1>7. CASE Checkout(u) \/ BackupBinary(u) \/ BeginDump(u)
  BY <1>6, <1>7 DEF Checkout, BackupBinary, BeginDump, Advance, Stages
<1>8. CASE EndDump(u) \/ Build(u) \/ CreateMarker(u)
  BY <1>6, <1>8 DEF EndDump, Build, CreateMarker, Advance, Stages
<1>9. ASSUME UNCHANGED <<service, stolen>>, lockFile' \in {Unlocked, StillLocked}, Holding(u),
             stage' = [stage EXCEPT ![u] = "none"]
      PROVE  LockInd'
  <2>1. ~stolen => lockFile = LockOf(u, "live")  BY <1>9
  <2>2. ~stolen => \A v \in Updaters : v # u => stage[v] \in {"none", "stale"}
    BY <2>1, LockRecords DEF LockText
  <2>3. lockFile' # None => lockFile'.by = None \/ (lockFile' = lockFile /\ lockFile.text # "live")
    BY <1>9, LockRecords DEF Unlocked, StillLocked
  <2>4. lockFile # None => lockFile.by \in Updaters \cup {None}  BY <1>r
  <2>5. service.at = "up" /\ service'.at = "up"  BY <1>9
  <2>. QED  BY <1>9, <2>2, <2>3, <2>4, <2>5
<1>10. CASE ScheduleRestart(u)  BY <1>9, <1>10 DEF ScheduleRestart, Advance
<1>11. CASE ScheduleFails(u) \/ StepFails(u)  BY <1>9, <1>11 DEF ScheduleFails, StepFails
<1>. QED
  BY <1>1, <1>2, <1>3, <1>4, <1>5, <1>7, <1>8, <1>10, <1>11 DEF UpdateStep

\* So it is by the end of the process and by the boots.
LEMMA ProcessLocks ==
  ASSUME UpdateTypeOK, LockInd, Boot \/ Dies \/ DiesCounting \/ WatchdogFires
  PROVE  LockInd'
<1>0. /\ FileTypes /\ lockFile \in LockRecord \cup {None}
      /\ CommandsNeedTheProcess /\ LockSaysWhat /\ FileHasItsCommand /\ NoneIsLive
  BY DEF UpdateTypeOK, FileTypes, ServiceType, LockInd
<1>. USE DEF LockInd, CommandsNeedTheProcess, LockSaysWhat, FileHasItsCommand, NoneIsLive, Holding
<1>1. ASSUME service.at # "up", service'.at \notin {"up", "waiting"}, stage' = stage,
             stolen' = stolen, lockFile' \in {lockFile, None}
      PROVE  LockInd'
  BY <1>0, <1>1
<1>2. ASSUME service.at = "starting", service'.at # "up", stage' = stage, stolen' = stolen,
             \/ lockFile' = CleanupStale
             \/ lockFile # None /\ lockFile' = [lockFile EXCEPT !.by = None]
      PROVE  LockInd'
  <2>1. lockFile' # None => lockFile'.by = None /\ lockFile'.text # "live"
    BY <1>0, <1>2 DEF CleanupStale, LockRecord
  <2>. QED  BY <1>0, <1>2, <2>1
<1>3. CASE RestartOnFailure  BY <1>1, <1>3 DEF RestartOnFailure
<1>4. CASE DelayedRestart  BY <1>0, <1>4, EndsUnlocks DEF DelayedRestart
<1>5. CASE BootsNormally \/ BootsRolling \/ DiesCounting
  <2>1. /\ service.at = "starting" /\ stage' = stage /\ stolen' = stolen
        /\ \/ lockFile' = CleanupStale
           \/ lockFile # None /\ lockFile' = [lockFile EXCEPT !.by = None]
    BY <1>5 DEF BootsNormally, BootsRolling, DiesCounting, Boots
  <2>2. service'.at # "up"
    BY <1>0, <1>5 DEF BootsNormally, BootsRolling, DiesCounting, Boots, FileTypes, ServiceType
  <2>. QED  BY <1>2, <2>1, <2>2
<1>6. CASE RestoreBinary
  BY <1>0, <1>1, <1>6 DEF RestoreBinary, FileTypes, ServiceType
<1>7. ASSUME NEW how \in {"failed", "exited"}, Ends(how) PROVE LockInd'
  <2>1. service'.at = how  BY <1>0, <1>7 DEF Ends, FileTypes, ServiceType
  <2>. QED  BY <1>0, <1>7, <2>1, EndsUnlocks DEF Ends
<1>8. CASE RestoreDatabase  BY <1>7, <1>8 DEF RestoreDatabase
<1>9. CASE Dies \/ WatchdogFires  BY <1>7, <1>9 DEF Dies, WatchdogFires
<1>10. CASE BecomesReady
  <2>1. /\ service.at = "waiting" /\ service'.at = "up" /\ stage' = stage
        /\ lockFile' = lockFile /\ stolen' = stolen
    BY <1>0, <1>10 DEF BecomesReady, FileTypes, ServiceType
  <2>. QED  BY <1>0, <2>1
<1>. QED  BY <1>3, <1>4, <1>5, <1>6, <1>8, <1>9, <1>10 DEF Boot

\* What an update has made for its rollback stays until a boot spends it.
LEMMA BackupStep ==
  UpdateTypeOK /\ LockInd /\ BackupInd /\ [UpdateNext]_updateVars => BackupInd'
<1>. SUFFICES ASSUME UpdateTypeOK, LockInd, BackupInd, [UpdateNext]_updateVars PROVE BackupInd'
  OBVIOUS
<1>0. /\ FileTypes /\ CommandsNeedTheProcess
      /\ BackupStands /\ RollbackIsCounted /\ RollbackHasABinary
  BY DEF UpdateTypeOK, FileTypes, ServiceType, LockInd, BackupInd
<1>. USE <1>0 DEF BackupInd, BackupStands, RollbackIsCounted, RollbackHasABinary, MarkerPending
<1>1. ASSUME backup' = backup, marker' \in {marker, None, Corrupt},
             service' = service \/ service'.at # "rolling",
             \A v \in Updaters : stage'[v] \in {"none", "stale"} \/ stage'[v] = "creating" \/ stage'[v] = "locked" \/ stage'[v] = stage[v]
      PROVE  BackupInd'
  BY <1>1
<1>2. ASSUME NEW u \in Updaters,
             CreateLock(u) \/ FindDead(u) \/ RemoveStale(u) \/ WriteLock(u) \/ WriteLockFails(u)
      PROVE  BackupInd'
  BY <1>1, <1>2 DEF CreateLock, FindDead, RemoveStale, WriteLock, WriteLockFails, files, FileTypes
<1>3. ASSUME NEW u \in Updaters, ScheduleRestart(u) \/ ScheduleFails(u) \/ StepFails(u)
      PROVE  BackupInd'
  BY <1>1, <1>3 DEF ScheduleRestart, ScheduleFails, StepFails, Advance, files, FileTypes
<1>4. ASSUME NEW u \in Updaters, Checkout(u) PROVE BackupInd'
  BY <1>4 DEF Checkout, Advance, FileTypes
<1>5. ASSUME NEW u \in Updaters, BackupBinary(u) PROVE BackupInd'
  BY <1>5, UpdateAssumption DEF BackupBinary, Advance, FileTypes
<1>6. ASSUME NEW u \in Updaters, BeginDump(u) \/ EndDump(u) \/ Build(u) PROVE BackupInd'
  BY <1>6 DEF BeginDump, EndDump, Build, Advance, FileTypes
<1>7. ASSUME NEW u \in Updaters, CreateMarker(u) PROVE BackupInd'
  BY <1>7 DEF CreateMarker, CommandsNeedTheProcess, files, FileTypes
<1>8. CASE RestartOnFailure \/ DelayedRestart
  BY <1>1, <1>8 DEF RestartOnFailure, DelayedRestart, CommandsEnd, files
<1>9. CASE BootsNormally  BY <1>1, <1>9 DEF BootsNormally, Boots, files
<1>10. CASE BootsRolling
  <2>1. marker'.attempts > 0
    BY <1>10 DEF BootsRolling, Boots, MustRollBack, FileTypes, MarkerFile
  <2>. QED  BY <1>10, <2>1 DEF BootsRolling, Boots, files
<1>11. CASE RestoreBinary
  <2>1. stage' = stage /\ \A v \in Updaters : stage[v] = "none"
    BY <1>11 DEF RestoreBinary, CommandsNeedTheProcess
  <2>2. service'.at = "restored"  BY <1>11 DEF RestoreBinary, FileTypes, ServiceType
  <2>. QED  BY <1>11, <2>1, <2>2 DEF RestoreBinary
<1>12. ASSUME NEW how \in {"failed", "exited"}, Ends(how), UNCHANGED <<backup, marker>>
       PROVE  BackupInd'
  <2>1. service'.at = how  BY <1>12 DEF Ends, FileTypes, ServiceType
  <2>. QED  BY <1>1, <1>12, <2>1 DEF Ends, CommandsEnd
<1>13. CASE RestoreDatabase \/ Dies \/ WatchdogFires
  BY <1>12, <1>13 DEF RestoreDatabase, Dies, WatchdogFires, files
<1>14. CASE DiesCounting \/ BecomesReady
  BY <1>1, <1>14 DEF DiesCounting, BecomesReady, files, FileTypes, ServiceType
<1>15. CASE UNCHANGED updateVars  BY <1>1, <1>15 DEF updateVars
<1>. QED
  BY <1>2, <1>3, <1>4, <1>5, <1>6, <1>7, <1>8, <1>9, <1>10, <1>11, <1>13, <1>14, <1>15
  DEF UpdateNext, UpdateStep, Boot

\* The invariant is inductive.
LEMMA UpdateInvStep == UpdateInd /\ [UpdateNext]_updateVars => UpdateInd'
<1>1. LockInd /\ UNCHANGED updateVars => LockInd'
  BY DEF LockInd, CommandsNeedTheProcess, LockSaysWhat, FileHasItsCommand, NoneIsLive, Holding,
         Locking, updateVars
<1>. QED
  BY <1>1, UpdateTypeStep, CommandLocks, ProcessLocks, BackupStep DEF UpdateInd, UpdateNext

\* The inductive invariant holds in every state, for any number of updates,
\* versions and failures.
THEOREM UpdateInvariant == UpdateSpec => []UpdateInd
BY UpdateInitial, UpdateInvStep, PTL DEF UpdateSpec

\* For any number of invocations of /update, failures, deaths and boots: never two of
\* them are past the lock, unless a caller removed a lock that had replaced the dead one
\* it read, and a lock file met by a process that is up belongs to a command of it that
\* is creating or holding it, unless a failed write, drop or clean-up left it behind.
THEOREM OneUpdateAtATime == UpdateSpec => []LockIsOneUpdate
<1>1. ASSUME UpdateInd PROVE LockIsOneUpdate
  <2>1. /\ LockSaysWhat /\ FileHasItsCommand /\ stage \in [Updaters -> Stages]
        /\ lockFile \in LockRecord \cup {None}
    BY <1>1 DEF UpdateInd, LockInd, UpdateTypeOK
  <2>2. \A u, v \in Updaters : Holding(u) /\ Holding(v) => u = v \/ stolen
    BY <2>1, LockRecords DEF LockSaysWhat, LockText
  <2>3. service.at = "up" /\ lockFile # None =>
          \/ lockFile.by = None
          \/ Locking(lockFile.by) /\ (Holding(lockFile.by) <=> lockFile.text = "live")
    BY <2>1 DEF FileHasItsCommand, Holding, Locking, LockRecord
  <2>. QED  BY <2>2, <2>3 DEF LockIsOneUpdate
<1>. QED  BY <1>1, UpdateInvariant, PTL

\* For any versions and any order of failures: a marker that no boot has counted
\* yet has a backup of the binary beside it.
THEOREM RollbackFindsABinary == UpdateSpec => []RollbackHasABinary
<1>1. UpdateInd => RollbackHasABinary  BY DEF UpdateInd, BackupInd
<1>. QED  BY <1>1, UpdateInvariant, PTL

\* Type correctness of the update, its files and the service.
THEOREM UpdateTypes == UpdateSpec => []UpdateTypeOK
<1>1. UpdateInd => UpdateTypeOK  BY DEF UpdateInd
<1>. QED  BY <1>1, UpdateInvariant, PTL
-----------------------------------------------------------------------------
\* The six components of MCServices.

\* A step of the services is one of each of these five, or leaves it alone.
LEMMA ServicesMove ==
  ASSUME [ServicesNext]_allVars
  PROVE  /\ [RegistryNext]_registryVars /\ [UpdateNext]_updateVars /\ [BranchNext]_branchVars
         /\ [TasksNext]_tasksVars /\ [RulesNext]_rulesVars
<1>1. CASE UNCHANGED allVars  BY <1>1 DEF allVars
<1>2. CASE ServicesNext
  <2>1. [RegistryNext]_registryVars  BY <1>2 DEF ServicesNext, Moves, Rests
  <2>2. [UpdateNext]_updateVars  BY <1>2 DEF ServicesNext, Moves, Rests
  <2>3. [BranchNext]_branchVars  BY <1>2 DEF ServicesNext, Moves, Rests
  <2>4. [TasksNext]_tasksVars  BY <1>2 DEF ServicesNext, Moves, Rests
  <2>5. [RulesNext]_rulesVars  BY <1>2 DEF ServicesNext, Moves, Rests
  <2>. QED  BY <2>1, <2>2, <2>3, <2>4, <2>5
<1>. QED  BY <1>1, <1>2

\* Whichever of them moves, the sessions, the update, /branch, the background tasks and the
\* saved rules keep to the values their modules name (session_manager.rs, update.rs,
\* branch.rs, task_tracker.rs, rule.rs).
THEOREM ServicesAreTyped == ServicesSpec => []ServicesTypeOK
<1>1. ServicesInit => RegistryInit /\ UpdateInit /\ BranchInit /\ TasksInit /\ RulesInit
  BY DEF ServicesInit
<1>2. [ServicesNext]_allVars =>
        /\ [RegistryNext]_registryVars /\ [UpdateNext]_updateVars /\ [BranchNext]_branchVars
        /\ [TasksNext]_tasksVars /\ [RulesNext]_rulesVars
  BY ServicesMove
<1>3. ServicesSpec => RegistrySpec /\ UpdateSpec /\ BranchSpec /\ TasksSpec /\ RulesSpec
  BY <1>1, <1>2, PTL DEF ServicesSpec, RegistrySpec, UpdateSpec, BranchSpec, TasksSpec, RulesSpec
<1>4. RegistryInd => RegistryTypeOK  BY DEF RegistryInd
<1>5. TasksInd => TasksTypeOK  BY DEF TasksInd
<1>6. TasksSpec => []TasksInd  BY TasksInitial, TasksStepKeeps, PTL DEF TasksSpec
<1>. QED
  BY <1>3, <1>4, <1>5, <1>6, RegistryKeepsInd, UpdateTypes, BranchTypes, RulesStayTyped, PTL
     DEF ServicesTypeOK
=============================================================================
