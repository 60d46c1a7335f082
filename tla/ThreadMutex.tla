---------------------------- MODULE ThreadMutex ----------------------------
(***************************************************************************)
(* What ThreadDispatchLocks promises its callers: one first-come           *)
(* first-served mutex per Discord thread, whatever happens to the map that *)
(* stores the mutexes.  line[t] is the queue of tasks that asked for the   *)
(* mutex of thread t; the task at its head holds the guard.                *)
(***************************************************************************)
EXTENDS Naturals, Sequences

CONSTANTS Threads, \* the Discord threads
          Tasks    \* the dispatching tasks

VARIABLE line

Init == line = [t \in Threads |-> <<>>]

\* Task k queues up for the guard of t (it holds it at once if nobody is in line).
Enter(k, t) ==
    /\ \A u \in Threads : \A i \in 1..Len(line[u]) : line[u][i] # k
    /\ line' = [line EXCEPT ![t] = Append(@, k)]

\* The holder of the guard of t drops it; the next in line holds it from then on.
Leave(k, t) ==
    /\ line[t] # <<>>
    /\ Head(line[t]) = k
    /\ line' = [line EXCEPT ![t] = Tail(@)]

Next == \E k \in Tasks, t \in Threads : Enter(k, t) \/ Leave(k, t)

Spec == Init /\ [][Next]_line
=============================================================================
