------------------------ MODULE DispatchLocksProofs ------------------------
(***************************************************************************)
(* Proofs about DispatchLocks for any number of threads, tasks and cells:  *)
(* the inductive invariant, exclusion per thread, and that the map of      *)
(* reference-counted mutexes implements ThreadMutex.                       *)
(***************************************************************************)
EXTENDS DispatchLocks, TLAPS, FiniteSetTheorems

\* The clones of a cell are a finite set of tasks, so they can be counted.
LEMMA ClonesFinite ==
    ASSUME NEW a
    PROVE  IsFiniteSet(Clones(a)) /\ Cardinality(Clones(a)) \in Nat
<1>1. Clones(a) \subseteq Tasks
  BY DEF Clones
<1>2. IsFiniteSet(Clones(a))
  BY <1>1, ConstantsAssumption, FS_Subset
<1>3. QED
  BY <1>2, FS_CardinalityType

\* A count of zero means that no task owns a clone.
LEMMA NoClones ==
    ASSUME NEW a, Cardinality(Clones(a)) = 0
    PROVE  \A k \in Tasks : ref[k] # a
<1>1. Clones(a) = {}
  BY ClonesFinite, FS_EmptySet
<1>2. QED
  BY <1>1 DEF Clones

\* get_or_create adds exactly one clone, of the mutex it returns.
LEMMA CloneAdded ==
    ASSUME TypeOK, NEW k \in Tasks, NEW a \in Arcs, ref[k] = NoArc,
           ref' = [ref EXCEPT ![k] = a]
    PROVE  \A b \in Arcs : Cardinality(Clones(b))' =
              IF b = a THEN Cardinality(Clones(b)) + 1 ELSE Cardinality(Clones(b))
<1> SUFFICES ASSUME NEW b \in Arcs
             PROVE  Cardinality(Clones(b))' =
                      IF b = a THEN Cardinality(Clones(b)) + 1 ELSE Cardinality(Clones(b))
  OBVIOUS
<1>1. CASE b = a
  <2>1. Clones(b)' = Clones(b) \cup {k} /\ k \notin Clones(b)
    BY <1>1, ConstantsAssumption DEF Clones, TypeOK
  <2>2. QED
    BY <1>1, <2>1, ClonesFinite, FS_AddElement
<1>2. CASE b # a
  <2>1. Clones(b)' = Clones(b)
    BY <1>2, ConstantsAssumption DEF Clones, TypeOK
  <2>2. QED
    BY <1>2, <2>1
<1>3. QED
  BY <1>1, <1>2

\* Dropping the Arc removes exactly one clone, the dropping task's own.
LEMMA CloneDropped ==
    ASSUME TypeOK, NEW k \in Tasks, ref[k] \in Arcs,
           ref' = [ref EXCEPT ![k] = NoArc]
    PROVE  \A b \in Arcs :
              /\ Cardinality(Clones(b))' =
                   IF b = ref[k] THEN Cardinality(Clones(b)) - 1 ELSE Cardinality(Clones(b))
              /\ b = ref[k] => Cardinality(Clones(b)) > 0
<1> SUFFICES ASSUME NEW b \in Arcs
             PROVE  /\ Cardinality(Clones(b))' =
                        IF b = ref[k] THEN Cardinality(Clones(b)) - 1
                                      ELSE Cardinality(Clones(b))
                    /\ b = ref[k] => Cardinality(Clones(b)) > 0
  OBVIOUS
<1>1. CASE b = ref[k]
  <2>1. Clones(b)' = Clones(b) \ {k} /\ k \in Clones(b)
    BY <1>1, ConstantsAssumption DEF Clones, TypeOK
  <2>2. Cardinality(Clones(b)) # 0
    BY <2>1, NoClones, <1>1
  <2>3. QED
    BY <1>1, <2>1, <2>2, ClonesFinite, FS_RemoveElement
<1>2. CASE b # ref[k]
  <2>1. Clones(b)' = Clones(b)
    BY <1>2, ConstantsAssumption DEF Clones, TypeOK
  <2>2. QED
    BY <1>2, <2>1
<1>3. QED
  BY <1>1, <1>2

\* An empty map has nothing to count.
LEMMA InitInv == Init => IInv
<1> SUFFICES ASSUME Init PROVE IInv
  OBVIOUS
<1>1. TypeOK /\ CloneIsCurrent /\ MapInjective /\ QueueOwners
  BY DEF Init, TypeOK, CloneIsCurrent, MapInjective, QueueOwners
<1>2. CountExact
  <2> SUFFICES ASSUME NEW a \in Arcs
               PROVE  strong[a] = Cardinality(Clones(a)) + Stored(a)
    BY DEF CountExact
  <2>1. Clones(a) = {}
    BY ConstantsAssumption DEF Init, Clones
  <2>2. Stored(a) = 0
    BY ConstantsAssumption DEF Init, Stored
  <2>3. QED
    BY <2>1, <2>2, FS_EmptySet DEF Init
<1>3. QED
  BY <1>1, <1>2 DEF IInv

\* get_or_create of a live entry: one more clone of the current mutex.
LEMMA GetExistingInv ==
    ASSUME IInv, NEW k \in Tasks, NEW t \in Threads, GetExisting(k, t)
    PROVE  IInv'
<1> USE ConstantsAssumption DEF IInv, GetExisting, CloneFor
<1>1. map[t] \in Arcs /\ ref[k] = NoArc
  BY DEF TypeOK, CloneIsCurrent
<1>2. TypeOK'
  BY <1>1 DEF TypeOK
<1>3. CloneIsCurrent' /\ MapInjective'
  BY <1>1 DEF TypeOK, CloneIsCurrent, MapInjective
<1>4. QueueOwners'
  BY <1>1 DEF TypeOK, QueueOwners
<1>5. CountExact'
  <2> SUFFICES ASSUME NEW a \in Arcs
               PROVE  strong'[a] = Cardinality(Clones(a))' + Stored(a)'
    BY DEF CountExact
  <2>1. Stored(a)' = Stored(a) /\ Stored(a) \in Nat
    BY DEF Stored
  <2>2. Cardinality(Clones(a))' =
          IF a = map[t] THEN Cardinality(Clones(a)) + 1 ELSE Cardinality(Clones(a))
    BY <1>1, CloneAdded
  <2>3. strong[a] = Cardinality(Clones(a)) + Stored(a)
    BY DEF CountExact
  <2>4. strong'[a] = IF a = map[t] THEN strong[a] + 1 ELSE strong[a]
    BY <1>1 DEF TypeOK
  <2>5. QED
    BY <2>1, <2>2, <2>3, <2>4, ClonesFinite
<1>6. QED
  BY <1>2, <1>3, <1>4, <1>5

\* get_or_create of a fresh entry: a freed cell is stored nowhere and queued for
\* by nobody, so giving it to the thread disturbs no other thread.
LEMMA CreateEntryInv ==
    ASSUME IInv, NEW k \in Tasks, NEW t \in Threads, CreateEntry(k, t)
    PROVE  IInv'
<1> USE ConstantsAssumption DEF IInv, CreateEntry, CloneFor
<1>1. PICK a \in Arcs :
          /\ strong[a] = 0
          /\ map' = [map EXCEPT ![t] = a]
          /\ strong' = [strong EXCEPT ![a] = 2]
          /\ queue' = [queue EXCEPT ![a] = <<>>]
          /\ CloneFor(k, t, a)
  OBVIOUS
<1>2. ref[k] = NoArc
  BY DEF CloneIsCurrent
<1>3. strong[a] = Cardinality(Clones(a)) + Stored(a)
  BY DEF CountExact
<1>4. Cardinality(Clones(a)) = 0 /\ Stored(a) = 0
  BY <1>1, <1>3, ClonesFinite DEF Stored
<1>5. (\A j \in Tasks : ref[j] # a) /\ (\A u \in Threads : map[u] # a)
  BY <1>4, NoClones DEF Stored
<1>6. TypeOK'
  BY <1>1 DEF TypeOK
<1>7. CloneIsCurrent'
  BY <1>1, <1>2, <1>5 DEF TypeOK, CloneIsCurrent
<1>8. MapInjective'
  BY <1>1, <1>5 DEF TypeOK, MapInjective
<1>9. QueueOwners'
  BY <1>1, <1>2, <1>5 DEF TypeOK, QueueOwners
<1>10. CountExact'
  <2> SUFFICES ASSUME NEW b \in Arcs
               PROVE  strong'[b] = Cardinality(Clones(b))' + Stored(b)'
    BY DEF CountExact
  <2>1. Cardinality(Clones(b))' =
          IF b = a THEN Cardinality(Clones(b)) + 1 ELSE Cardinality(Clones(b))
    <3>1. TypeOK /\ ref' = [ref EXCEPT ![k] = a]
      BY <1>1
    <3>2. QED
      BY <1>2, <3>1, CloneAdded
  <2>2. strong[b] = Cardinality(Clones(b)) + Stored(b)
    BY DEF CountExact
  <2>3. CASE b = a
    <3>1. Stored(b)' = 1
      BY <1>1, <2>3 DEF Stored, TypeOK
    <3>2. QED
      BY <1>1, <1>4, <2>1, <2>3, <3>1 DEF TypeOK
  <2>4. CASE b # a
    <3>1. Stored(b)' = Stored(b)
      BY <1>1, <2>4 DEF Stored, TypeOK
    <3>2. strong'[b] = strong[b]
      BY <1>1, <2>4 DEF TypeOK
    <3>3. QED
      BY <2>1, <2>2, <2>4, <3>1, <3>2
  <2>5. QED
    BY <2>3, <2>4
<1>11. QED
  BY <1>6, <1>7, <1>8, <1>9, <1>10

\* Neither lock() nor the guard's drop touches the map or a reference count.
LEMMA CountUntouched ==
    ASSUME IInv, UNCHANGED <<map, strong, ref>>
    PROVE  CountExact' /\ MapInjective'
BY DEF IInv, CountExact, Clones, Stored, MapInjective

\* A task joins the queue of the mutex it has cloned; counts and clones stay.
LEMMA LockInv ==
    ASSUME IInv, NEW k \in Tasks, Lock(k)
    PROVE  IInv'
<1> USE ConstantsAssumption DEF IInv, Lock
<1>1. ref[k] \in Arcs
  BY DEF CloneIsCurrent
<1>2. TypeOK'
  BY <1>1 DEF TypeOK
<1>3. CloneIsCurrent'
  BY DEF TypeOK, CloneIsCurrent
<1>4. QueueOwners'
  <2> SUFFICES ASSUME NEW a \in Arcs, NEW i \in 1..Len(queue'[a])
               PROVE  /\ pc'[queue'[a][i]] = "locking"
                      /\ ref'[queue'[a][i]] = a
                      /\ \A j \in 1..Len(queue'[a]) : queue'[a][j] = queue'[a][i] => j = i
    BY DEF QueueOwners
  <2>1. queue[a] \in Seq(Tasks) /\ \A j \in 1..Len(queue[a]) : queue[a][j] # k
    BY DEF TypeOK, QueueOwners
  <2>2. CASE a = ref[k]
    <3>1. queue'[a] = Append(queue[a], k)
      BY <1>1, <2>2 DEF TypeOK
    <3>2. /\ Len(queue'[a]) = Len(queue[a]) + 1
          /\ queue'[a][Len(queue[a]) + 1] = k
          /\ \A j \in 1..Len(queue[a]) : queue'[a][j] = queue[a][j]
      BY <2>1, <3>1
    <3>3. \A j \in 1..Len(queue[a]) : queue[a][j] \in Tasks
      BY <2>1
    <3>4. i \in 1..Len(queue[a]) \/ i = Len(queue[a]) + 1
      BY <2>1, <3>2
    <3>5. CASE i = Len(queue[a]) + 1
      BY <2>1, <2>2, <3>2, <3>5 DEF TypeOK
    <3>6. CASE i \in 1..Len(queue[a])
      BY <2>1, <2>2, <3>2, <3>3, <3>6 DEF TypeOK, QueueOwners
    <3>7. QED
      BY <3>4, <3>5, <3>6
  <2>3. CASE a # ref[k]
    <3>1. queue'[a] = queue[a]
      BY <1>1, <2>3 DEF TypeOK
    <3>2. QED
      BY <2>1, <3>1 DEF TypeOK, QueueOwners
  <2>4. QED
    BY <2>2, <2>3
<1>5. QED
  BY <1>2, <1>3, <1>4, CountUntouched


\* The guard goes to the next in the queue; the clone is kept until the scope ends.
LEMMA UnlockInv ==
    ASSUME IInv, NEW k \in Tasks, Unlock(k)
    PROVE  IInv'
<1> USE ConstantsAssumption DEF IInv, Unlock, Holds
<1>1. ref[k] \in Arcs
  BY DEF CloneIsCurrent
<1>2. queue[ref[k]] \in Seq(Tasks)
  BY <1>1 DEF TypeOK
<1>3. TypeOK'
  <2>1. Tail(queue[ref[k]]) \in Seq(Tasks)
    BY <1>2
  <2>2. QED
    BY <1>1, <2>1 DEF TypeOK
<1>4. CloneIsCurrent'
  BY DEF TypeOK, CloneIsCurrent
<1>5. QueueOwners'
  <2> SUFFICES ASSUME NEW a \in Arcs, NEW i \in 1..Len(queue'[a])
               PROVE  /\ pc'[queue'[a][i]] = "locking"
                      /\ ref'[queue'[a][i]] = a
                      /\ \A j \in 1..Len(queue'[a]) : queue'[a][j] = queue'[a][i] => j = i
    BY DEF QueueOwners
  <2>1. queue[a] \in Seq(Tasks)
    BY DEF TypeOK
  <2>2. CASE a = ref[k]
    <3>1. queue'[a] = Tail(queue[a])
      BY <1>1, <2>2 DEF TypeOK
    <3>2. /\ Len(queue'[a]) = Len(queue[a]) - 1
          /\ \A j \in 1..Len(queue'[a]) : queue'[a][j] = queue[a][j + 1]
      <4>1. queue[a] # <<>>
        BY <2>2
      <4>2. Len(Tail(queue[a])) = Len(queue[a]) - 1
        BY <2>1, <4>1
      <4>3. \A j \in 1..Len(Tail(queue[a])) : Tail(queue[a])[j] = queue[a][j + 1]
        BY <2>1, <4>1
      <4>4. QED
        BY <3>1, <4>2, <4>3
    <3>3. /\ queue[a][1] = k
          /\ \A j \in 1..Len(queue'[a]) : j + 1 \in 1..Len(queue[a]) /\ j + 1 # 1
      BY <2>1, <2>2, <3>2
    <3>4. queue'[a][i] = queue[a][i + 1] /\ queue[a][i + 1] # k
      <4>1. 1 \in 1..Len(queue[a]) /\ i + 1 \in 1..Len(queue[a]) /\ i + 1 # 1
        BY <2>1, <3>3
      <4>2. queue[a][i + 1] = queue[a][1] => i + 1 = 1
        BY <4>1 DEF QueueOwners
      <4>3. QED
        BY <3>2, <3>3, <4>1, <4>2
    <3>5. pc'[queue'[a][i]] = "locking" /\ ref'[queue'[a][i]] = a
      BY <2>1, <3>2, <3>3, <3>4 DEF TypeOK, QueueOwners
    <3>6. ASSUME NEW j \in 1..Len(queue'[a]), queue'[a][j] = queue'[a][i]
          PROVE  j = i
      <4>1. queue[a][j + 1] = queue[a][i + 1]
        BY <3>2, <3>6
      <4>2. j + 1 = i + 1
        BY <3>3, <4>1 DEF QueueOwners
      <4>3. QED
        BY <4>2
    <3>7. QED
      BY <3>5, <3>6
  <2>3. CASE a # ref[k]
    <3>1. queue'[a] = queue[a]
      BY <1>1, <2>3 DEF TypeOK
    <3>2. \A j \in 1..Len(queue[a]) : queue[a][j] # k
      BY <2>3 DEF QueueOwners
    <3>3. QED
      BY <2>1, <3>1, <3>2 DEF TypeOK, QueueOwners
  <2>4. QED
    BY <2>2, <2>3
<1>6. QED
  BY <1>3, <1>4, <1>5, CountUntouched

\* The dropping task has left every queue, and its count goes with its clone.
LEMMA DropArcInv ==
    ASSUME IInv, NEW k \in Tasks, DropArc(k)
    PROVE  IInv'
<1> USE ConstantsAssumption DEF IInv, DropArc
<1>1. ref[k] \in Arcs
  BY DEF CloneIsCurrent
<1>2. \A b \in Arcs :
         /\ Cardinality(Clones(b))' =
              IF b = ref[k] THEN Cardinality(Clones(b)) - 1 ELSE Cardinality(Clones(b))
         /\ b = ref[k] => Cardinality(Clones(b)) > 0
  BY <1>1, CloneDropped
<1>3. \A b \in Arcs : /\ Stored(b)' = Stored(b)
                      /\ Stored(b) \in Nat
                      /\ strong[b] = Cardinality(Clones(b)) + Stored(b)
                      /\ Cardinality(Clones(b)) \in Nat
  BY ClonesFinite DEF Stored, CountExact
<1>4. strong[ref[k]] > 0
  BY <1>1, <1>2, <1>3
<1>5. TypeOK'
  BY <1>1, <1>4 DEF TypeOK
<1>6. CloneIsCurrent' /\ MapInjective'
  BY DEF TypeOK, CloneIsCurrent, MapInjective
<1>7. QueueOwners'
  BY DEF TypeOK, QueueOwners
<1>8. CountExact'
  <2> SUFFICES ASSUME NEW b \in Arcs
               PROVE  strong'[b] = Cardinality(Clones(b))' + Stored(b)'
    BY DEF CountExact
  <2>1. strong'[b] = IF b = ref[k] THEN strong[b] - 1 ELSE strong[b]
    BY <1>1 DEF TypeOK
  <2>2. QED
    BY <1>2, <1>3, <2>1
<1>9. QED
  BY <1>5, <1>6, <1>7, <1>8

\* A count of 1 is the map's own reference: nobody has a clone of the entry.
LEMMA RemovableIsUnused ==
    ASSUME IInv, NEW t \in Threads, MayRemove(t)
    PROVE  /\ map[t] \in Arcs
           /\ \A k \in Tasks : ref[k] # map[t]
           /\ queue[map[t]] = <<>>
<1> USE DEF IInv, MayRemove
<1>1. map[t] \in Arcs
  BY DEF TypeOK
<1>2. Stored(map[t]) = 1
  BY DEF Stored
<1>3. strong[map[t]] = Cardinality(Clones(map[t])) + Stored(map[t])
  BY <1>1 DEF CountExact
<1>4. Cardinality(Clones(map[t])) = 0
  BY <1>2, <1>3, ClonesFinite
<1>5. \A k \in Tasks : ref[k] # map[t]
  BY <1>4, NoClones
<1>6. queue[map[t]] = <<>>
  <2>1. queue[map[t]] \in Seq(Tasks)
    BY <1>1 DEF TypeOK
  <2>2. \A i \in 1..Len(queue[map[t]]) : queue[map[t]][i] \in Tasks
    BY <2>1
  <2>3. Len(queue[map[t]]) = 0
    BY <1>1, <1>5, <2>1, <2>2 DEF QueueOwners
  <2>4. QED
    BY <2>1, <2>3
<1>7. QED
  BY <1>1, <1>5, <1>6

\* A removal takes a mutex nobody has cloned, so no count is left behind.
LEMMA RemoveInv ==
    ASSUME IInv, NEW t \in Threads, Remove(t)
    PROVE  IInv'
<1> USE ConstantsAssumption DEF IInv, Remove
<1>1. map[t] \in Arcs /\ (\A k \in Tasks : ref[k] # map[t])
  BY RemovableIsUnused
<1>2. strong[map[t]] = 1
  BY DEF MayRemove
<1>3. TypeOK'
  BY <1>1, <1>2 DEF TypeOK
<1>4. CloneIsCurrent'
  <2> SUFFICES ASSUME NEW k \in Tasks, pc[k] # "idle"
               PROVE  target[k] # t
    BY <1>1 DEF TypeOK, CloneIsCurrent
  <2>1. map[target[k]] = ref[k]
    BY DEF CloneIsCurrent
  <2>2. QED
    BY <1>1, <2>1
<1>5. MapInjective' /\ QueueOwners'
  BY <1>1 DEF TypeOK, MapInjective, QueueOwners
<1>6. CountExact'
  <2> SUFFICES ASSUME NEW b \in Arcs
               PROVE  strong'[b] = Cardinality(Clones(b))' + Stored(b)'
    BY DEF CountExact
  <2>1. Clones(b)' = Clones(b)
    BY DEF Clones
  <2>2. strong[b] = Cardinality(Clones(b)) + Stored(b)
    BY DEF CountExact
  <2>3. CASE b = map[t]
    <3>1. Stored(b) = 1
      BY <2>3 DEF Stored
    <3>2. Stored(b)' = 0
      BY <1>1, <2>3 DEF Stored, TypeOK, MapInjective
    <3>3. strong'[b] = strong[b] - 1
      BY <1>1, <2>3 DEF TypeOK
    <3>4. QED
      BY <2>1, <2>2, <3>1, <3>2, <3>3, ClonesFinite
  <2>4. CASE b # map[t]
    <3>1. Stored(b)' = Stored(b)
      BY <1>1, <2>4 DEF Stored, TypeOK
    <3>2. strong'[b] = strong[b]
      BY <1>1, <2>4 DEF TypeOK
    <3>3. QED
      BY <2>1, <2>2, <3>1, <3>2
  <2>5. QED
    BY <2>3, <2>4
<1>7. QED
  BY <1>3, <1>4, <1>5, <1>6

\* Every step keeps the invariant.
LEMMA StepInv == IInv /\ [Next]_vars => IInv'
<1> SUFFICES ASSUME IInv, [Next]_vars PROVE IInv'
  OBVIOUS
<1>1. ASSUME NEW k \in Tasks, NEW t \in Threads, GetOrCreate(k, t)
      PROVE  IInv'
  BY <1>1, GetExistingInv, CreateEntryInv DEF GetOrCreate
<1>2. ASSUME NEW k \in Tasks, Lock(k)
      PROVE  IInv'
  BY <1>2, LockInv
<1>3. ASSUME NEW k \in Tasks, Unlock(k)
      PROVE  IInv'
  BY <1>3, UnlockInv
<1>4. ASSUME NEW k \in Tasks, DropArc(k)
      PROVE  IInv'
  BY <1>4, DropArcInv
<1>5. ASSUME NEW t \in Threads, Remove(t)
      PROVE  IInv'
  BY <1>5, RemoveInv
<1>6. CASE UNCHANGED vars
  BY <1>6 DEF vars, IInv, TypeOK, CloneIsCurrent, MapInjective, QueueOwners,
              CountExact, Clones, Stored
<1>7. QED
  BY <1>1, <1>2, <1>3, <1>4, <1>5, <1>6 DEF Next

\* The inductive invariant, type correctness included, holds in every reachable
\* state: reference counts are exact and every clone is its thread's current mutex.
THEOREM CountsAndClones == Spec => []IInv
<1>1. QED
  BY InitInv, StepInv, PTL DEF Spec

\* Two holders for one thread would be the head of one queue.
LEMMA InvExclusion == IInv => SameThreadExclusion
<1> SUFFICES ASSUME IInv, NEW j \in Tasks, NEW k \in Tasks,
                    Holds(j), Holds(k), target[j] = target[k]
             PROVE  j = k
  BY DEF SameThreadExclusion
<1>1. ref[j] = ref[k]
  BY DEF IInv, CloneIsCurrent, Holds
<1>2. QED
  BY <1>1 DEF Holds

\* Two tasks never dispatch on the same thread at once, for any number of tasks
\* and threads and however cleanup interleaves with them.
THEOREM Exclusion == Spec => []SameThreadExclusion
<1>1. QED
  BY CountsAndClones, InvExclusion, PTL

\* An empty map stands for threads without a line.
LEMMA RefinesInit == Init => Mutex!Init
BY DEF Init, Mutex!Init, line

\* The queues of the other threads' mutexes are untouched by a step on one mutex.
LEMMA LineOfOne ==
    ASSUME IInv, NEW t \in Threads, map[t] \in Arcs, NEW q,
           UNCHANGED map, queue' = [queue EXCEPT ![map[t]] = q]
    PROVE  line' = [line EXCEPT ![t] = q]
<1>1. \A u \in Threads : u # t => map[u] # map[t]
  BY ConstantsAssumption DEF IInv, MapInjective
<1>2. QED
  BY <1>1, ConstantsAssumption DEF line, IInv, TypeOK

\* get_or_create is invisible: a fresh mutex starts with an empty queue.
LEMMA GetRefines ==
    ASSUME IInv, NEW k \in Tasks, NEW t \in Threads, GetOrCreate(k, t)
    PROVE  UNCHANGED line
<1>1. CASE GetExisting(k, t)
  BY <1>1 DEF GetExisting, line
<1>2. CASE CreateEntry(k, t)
  <2>1. PICK a \in Arcs : /\ strong[a] = 0
                          /\ map' = [map EXCEPT ![t] = a]
                          /\ queue' = [queue EXCEPT ![a] = <<>>]
    BY <1>2 DEF CreateEntry
  <2>2. \A u \in Threads : map[u] # a
    <3>1. 0 = Cardinality(Clones(a)) + Stored(a)
      BY <2>1 DEF IInv, CountExact
    <3>2. QED
      BY <3>1, ClonesFinite DEF Stored
  <2>3. map[t] = NoArc
    BY <1>2 DEF CreateEntry
  <2>4. QED
    BY <2>1, <2>2, <2>3, ConstantsAssumption DEF line, IInv, TypeOK
<1>3. QED
  BY <1>1, <1>2 DEF GetOrCreate

\* lock() appends the task to the line of its thread, where it does not stand yet.
LEMMA LockRefines ==
    ASSUME IInv, NEW k \in Tasks, Lock(k)
    PROVE  Mutex!Enter(k, target[k])
<1>1. /\ target[k] \in Threads
      /\ ref[k] \in Arcs
      /\ map[target[k]] = ref[k]
  BY DEF Lock, IInv, TypeOK, CloneIsCurrent
<1>2. \A u \in Threads : \A i \in 1..Len(line[u]) : line[u][i] # k
  <2> SUFFICES ASSUME NEW u \in Threads, NEW i \in 1..Len(line[u])
               PROVE  line[u][i] # k
    OBVIOUS
  <2>1. map[u] \in Arcs /\ line[u] = queue[map[u]]
    BY DEF line, IInv, TypeOK
  <2>2. pc[line[u][i]] = "locking"
    BY <2>1 DEF IInv, QueueOwners
  <2>3. QED
    BY <2>2 DEF Lock
<1>3. line[target[k]] = queue[ref[k]]
  BY <1>1, ConstantsAssumption DEF line
<1>4. line' = [line EXCEPT ![target[k]] = Append(queue[ref[k]], k)]
  <2>1. queue' = [queue EXCEPT ![map[target[k]]] = Append(queue[ref[k]], k)]
    BY <1>1 DEF Lock
  <2>2. UNCHANGED map
    BY DEF Lock
  <2>3. QED
    BY <1>1, <2>1, <2>2, LineOfOne
<1>5. QED
  BY <1>2, <1>3, <1>4 DEF Mutex!Enter

\* The guard's drop takes the head off the line of the task's thread.
LEMMA UnlockRefines ==
    ASSUME IInv, NEW k \in Tasks, Unlock(k)
    PROVE  Mutex!Leave(k, target[k])
<1>1. /\ target[k] \in Threads
      /\ ref[k] \in Arcs
      /\ map[target[k]] = ref[k]
  BY DEF Unlock, Holds, IInv, TypeOK, CloneIsCurrent
<1>2. line[target[k]] = queue[ref[k]]
  BY <1>1, ConstantsAssumption DEF line
<1>3. line' = [line EXCEPT ![target[k]] = Tail(queue[ref[k]])]
  <2>1. queue' = [queue EXCEPT ![map[target[k]]] = Tail(queue[ref[k]])]
    BY <1>1 DEF Unlock
  <2>2. UNCHANGED map
    BY DEF Unlock
  <2>3. QED
    BY <1>1, <2>1, <2>2, LineOfOne
<1>4. QED
  BY <1>2, <1>3 DEF Mutex!Leave, Unlock, Holds

\* Removal is invisible: the removed mutex has nobody in its queue.
LEMMA RemoveRefines ==
    ASSUME IInv, NEW t \in Threads, Remove(t)
    PROVE  UNCHANGED line
<1>1. map[t] \in Arcs /\ queue[map[t]] = <<>>
  BY RemovableIsUnused DEF Remove
<1>2. QED
  BY <1>1, ConstantsAssumption DEF Remove, line, IInv, TypeOK

\* Every behaviour of the map of reference-counted mutexes is a behaviour of one
\* first-come first-served mutex per thread, which is what callers rely on.
THEOREM ImplementsMutex == Spec => MutexSpec
<1>1. IInv /\ [Next]_vars => [Mutex!Next]_line
  <2> SUFFICES ASSUME IInv, [Next]_vars PROVE [Mutex!Next]_line
    OBVIOUS
  <2>1. ASSUME NEW k \in Tasks, NEW t \in Threads, GetOrCreate(k, t)
        PROVE  [Mutex!Next]_line
    BY <2>1, GetRefines
  <2>2. ASSUME NEW k \in Tasks, Lock(k)
        PROVE  [Mutex!Next]_line
    <3>1. target[k] \in Threads
      BY DEF IInv, TypeOK
    <3>2. QED
      BY <2>2, <3>1, LockRefines DEF Mutex!Next
  <2>3. ASSUME NEW k \in Tasks, Unlock(k)
        PROVE  [Mutex!Next]_line
    <3>1. target[k] \in Threads
      BY DEF IInv, TypeOK
    <3>2. QED
      BY <2>3, <3>1, UnlockRefines DEF Mutex!Next
  <2>4. ASSUME NEW k \in Tasks, DropArc(k)
        PROVE  [Mutex!Next]_line
    BY <2>4 DEF DropArc, line
  <2>5. ASSUME NEW t \in Threads, Remove(t)
        PROVE  [Mutex!Next]_line
    BY <2>5, RemoveRefines
  <2>6. CASE UNCHANGED vars
    BY <2>6 DEF vars, line
  <2>7. QED
    BY <2>1, <2>2, <2>3, <2>4, <2>5, <2>6 DEF Next
<1>2. QED
  BY <1>1, RefinesInit, CountsAndClones, PTL DEF Spec, MutexSpec, Mutex!Spec
=============================================================================
