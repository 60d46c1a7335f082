--------------------------- MODULE DispatchLocks ---------------------------
(***************************************************************************)
(* ThreadDispatchLocks (src/src/handler/dispatch_locks.rs): a map from     *)
(* thread id to Arc<Mutex<()>>.  A task that dispatches a message clones   *)
(* the Arc of its thread, waits for the mutex, drops the guard after       *)
(* send_message and keeps its clone until the handler returns, which may   *)
(* be a whole Claude turn later.  Cleanup drops a map entry only when the  *)
(* map holds the last reference (Arc::strong_count == 1).                  *)
(*                                                                         *)
(* An Arc is an identity from Arcs; one whose strong count is 0 is freed   *)
(* and the allocator may hand it out again.  tokio's Mutex is fair: the    *)
(* tasks that asked for it form a queue and its head owns the guard.       *)
(***************************************************************************)
EXTENDS Naturals, Sequences, FiniteSets

CONSTANTS Threads, \* the Discord threads
          Tasks,   \* dispatching tasks (a branch command counts as two)
          Arcs,    \* heap cells a mutex may be allocated in
          NoArc    \* the absence of an Arc

ASSUME ConstantsAssumption ==
    /\ IsFiniteSet(Tasks)
    /\ NoArc \notin Arcs

VARIABLES map,    \* map[t]: the Arc stored for thread t, or NoArc
          strong, \* strong[a]: the Arc's strong reference count
          queue,  \* queue[a]: the tasks that called lock() and did not unlock
          pc,     \* idle, ready (Arc cloned), locking (in the queue), draining
          ref,    \* ref[k]: the task's clone, or NoArc
          target  \* target[k]: the thread task k last asked about

vars == <<map, strong, queue, pc, ref, target>>

Init ==
    /\ map = [t \in Threads |-> NoArc]
    /\ strong = [a \in Arcs |-> 0]
    /\ queue = [a \in Arcs |-> <<>>]
    /\ pc = [k \in Tasks |-> "idle"]
    /\ ref = [k \in Tasks |-> NoArc]
    /\ target \in [Tasks -> Threads]
-----------------------------------------------------------------------------
\* Mutation: remove() without its strong_count check.
MayRemoveAny(t) == map[t] # NoArc

\* The entry exists and the map holds its only reference.
MayRemove(t) == map[t] # NoArc /\ strong[map[t]] = 1

Holds(k) ==
    /\ pc[k] = "locking"
    /\ queue[ref[k]] # <<>>
    /\ Head(queue[ref[k]]) = k

CloneFor(k, t, a) ==
    /\ ref' = [ref EXCEPT ![k] = a]
    /\ target' = [target EXCEPT ![k] = t]
    /\ pc' = [pc EXCEPT ![k] = "ready"]

\* get_or_create finds the thread's entry and clones it.
GetExisting(k, t) ==
    /\ pc[k] = "idle"
    /\ map[t] # NoArc
    /\ strong' = [strong EXCEPT ![map[t]] = @ + 1]
    /\ CloneFor(k, t, map[t])
    /\ UNCHANGED <<map, queue>>

\* get_or_create allocates a mutex, stores one reference and returns another.
CreateEntry(k, t) ==
    /\ pc[k] = "idle"
    /\ map[t] = NoArc
    /\ \E a \in Arcs :
          /\ strong[a] = 0
          /\ map' = [map EXCEPT ![t] = a]
          /\ strong' = [strong EXCEPT ![a] = 2]
          /\ queue' = [queue EXCEPT ![a] = <<>>]
          /\ CloneFor(k, t, a)

GetOrCreate(k, t) == GetExisting(k, t) \/ CreateEntry(k, t)

\* lock().await: the task joins the mutex's queue.
Lock(k) ==
    /\ pc[k] = "ready"
    /\ queue' = [queue EXCEPT ![ref[k]] = Append(@, k)]
    /\ pc' = [pc EXCEPT ![k] = "locking"]
    /\ UNCHANGED <<map, strong, ref, target>>

\* Mutation: a guard drop that wakes a later waiter instead of the next one.
UnlockLosingWaiter(k) ==
    /\ Holds(k)
    /\ queue' = [queue EXCEPT ![ref[k]] = IF Len(@) > 1 THEN Tail(Tail(@)) ELSE <<>>]
    /\ pc' = [pc EXCEPT ![k] = "draining"]
    /\ UNCHANGED <<map, strong, ref, target>>

\* The guard is dropped; the Arc clone lives on in the handler's frame.
Unlock(k) ==
    /\ Holds(k)
    /\ queue' = [queue EXCEPT ![ref[k]] = Tail(@)]
    /\ pc' = [pc EXCEPT ![k] = "draining"]
    /\ UNCHANGED <<map, strong, ref, target>>

\* Mutation: an Arc clone that gives back two references.
DropTwice(k) ==
    /\ pc[k] = "draining"
    /\ strong' = [strong EXCEPT ![ref[k]] = IF @ > 1 THEN @ - 2 ELSE 0]
    /\ ref' = [ref EXCEPT ![k] = NoArc]
    /\ pc' = [pc EXCEPT ![k] = "idle"]
    /\ UNCHANGED <<map, queue, target>>

\* The handler returns and drops its clone.
DropArc(k) ==
    /\ pc[k] = "draining"
    /\ strong' = [strong EXCEPT ![ref[k]] = @ - 1]
    /\ ref' = [ref EXCEPT ![k] = NoArc]
    /\ pc' = [pc EXCEPT ![k] = "idle"]
    /\ UNCHANGED <<map, queue, target>>

\* remove(): check and removal are one step, the outer mutex is held across them.
Remove(t) ==
    /\ MayRemove(t)
    /\ strong' = [strong EXCEPT ![map[t]] = @ - 1]
    /\ map' = [map EXCEPT ![t] = NoArc]
    /\ UNCHANGED <<queue, pc, ref, target>>

Next ==
    \/ \E k \in Tasks, t \in Threads : GetOrCreate(k, t)
    \/ \E k \in Tasks : Lock(k) \/ Unlock(k) \/ DropArc(k)
    \/ \E t \in Threads : Remove(t)

Spec == Init /\ [][Next]_vars

\* A task that cloned an Arc locks it, and the work done under the guard and
\* after it (database queries, a spawn, a turn) ends.  Nobody owes a cleanup.
FairSpec == Spec /\ \A k \in Tasks : WF_vars(Lock(k) \/ Unlock(k) \/ DropArc(k))
-----------------------------------------------------------------------------
TypeOK ==
    /\ map \in [Threads -> Arcs \cup {NoArc}]
    /\ strong \in [Arcs -> Nat]
    /\ queue \in [Arcs -> Seq(Tasks)]
    /\ pc \in [Tasks -> {"idle", "ready", "locking", "draining"}]
    /\ ref \in [Tasks -> Arcs \cup {NoArc}]
    /\ target \in [Tasks -> Threads]

\* At most one task dispatches on a thread at a time, whatever cleanup does
\* meanwhile: the teardown race of the type's documentation cannot happen.
SameThreadExclusion ==
    \A j, k \in Tasks : (Holds(j) /\ Holds(k) /\ target[j] = target[k]) => j = k

Clones(a) == {k \in Tasks : ref[k] = a}

Stored(a) == IF \E t \in Threads : map[t] = a THEN 1 ELSE 0

\* Distinct threads have distinct mutexes.
MapInjective ==
    \A t, u \in Threads : (map[t] = map[u] /\ map[t] # NoArc) => t = u

\* Who queues for a mutex is waiting for it through a clone of its own, once.
QueueOwners ==
    \A a \in Arcs : \A i \in 1..Len(queue[a]) :
        /\ pc[queue[a][i]] = "locking"
        /\ ref[queue[a][i]] = a
        /\ \A j \in 1..Len(queue[a]) : queue[a][j] = queue[a][i] => j = i

\* The strong count that remove() trusts is the number of clones tasks still
\* own plus the map's own reference, so 1 really means nobody else.
CountExact == \A a \in Arcs : strong[a] = Cardinality(Clones(a)) + Stored(a)

\* Every task past get_or_create, the ones that wait and the ones that only
\* drain included, refers to the entry a newcomer of its thread would get.
CloneIsCurrent ==
    \A k \in Tasks : IF pc[k] = "idle" THEN ref[k] = NoArc
                     ELSE ref[k] \in Arcs /\ map[target[k]] = ref[k]

\* The inductive invariant: exclusion per thread is not inductive by itself, it
\* rests on the exact count and on every clone being the thread's current mutex.
IInv == TypeOK /\ CloneIsCurrent /\ MapInjective /\ QueueOwners /\ CountExact

\* The abstract view: the queue of a thread is its current mutex's queue.
line == [t \in Threads |-> IF map[t] = NoArc THEN <<>> ELSE queue[map[t]]]

Mutex == INSTANCE ThreadMutex WITH Threads <- Threads, Tasks <- Tasks, line <- line

\* The map of reference-counted mutexes behaves as one mutex per thread.
MutexSpec == Mutex!Spec

\* A dispatcher that waits for the guard of its thread gets it.
EveryWaiterServed == \A k \in Tasks : (pc[k] = "locking") ~> Holds(k)
=============================================================================
