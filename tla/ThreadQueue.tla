---------------------------- MODULE ThreadQueue ----------------------------
(***************************************************************************)
(* What a Discord thread promises the authors of its messages: one bounded *)
(* first-in first-out line to Claude.  A message that is accepted is       *)
(* delivered at most once and in its turn, or withdrawn by /recall and     *)
(* then never delivered, or lost with the session; a handler that waits    *)
(* for an answer gets one only after its message was delivered, and is     *)
(* let go in the step that loses the message.                              *)
(*                                                                         *)
(* Locks, channels, counters, the worker's turns and the process are not   *)
(* seen here.                                                              *)
(***************************************************************************)
EXTENDS Naturals, Sequences

CONSTANTS Msgs,    \* the messages posted in the thread
          Capacity \* how many may be in line

VARIABLES line,      \* accepted and neither delivered nor dropped
          delivered, \* written to Claude
          withdrawn, \* their authors were told of the recall
          answer     \* per message: none (nobody waits), open, result, closed

queueVars == <<line, delivered, withdrawn, answer>>

Init ==
    /\ line = <<>>
    /\ delivered = {}
    /\ withdrawn = {}
    /\ answer = [m \in Msgs |-> "none"]

InLine == {line[i] : i \in 1..Len(line)}

\* Whoever waits for one of S learns that no answer will come.
LetGo(S) ==
    answer' = [m \in Msgs |-> IF m \in S /\ answer[m] = "open" THEN "closed" ELSE answer[m]]

\* A new message gets in line, and its handler waits or does not.
Accept(m, wait) ==
    /\ Len(line) < Capacity
    /\ m \notin InLine \cup delivered \cup withdrawn
    /\ answer[m] = "none"
    /\ line' = Append(line, m)
    /\ answer' = [answer EXCEPT ![m] = wait]
    /\ UNCHANGED <<delivered, withdrawn>>

\* The first in line is written; as a part of another turn, it gets no answer of its own.
Deliver ==
    /\ line # <<>>
    /\ Head(line) \notin withdrawn
    /\ line' = Tail(line)
    /\ delivered' = delivered \cup {Head(line)}
    /\ UNCHANGED answer \/ LetGo({Head(line)})
    /\ UNCHANGED withdrawn

\* The first in line is withdrawn, or cannot be written, which may end a turn.
Drop ==
    /\ line # <<>>
    /\ line' = Tail(line)
    /\ \E ended \in SUBSET delivered : LetGo(ended \cup {Head(line)})
    /\ UNCHANGED <<delivered, withdrawn>>

\* /recall, as long as the message was not delivered.
Withdraw(m) ==
    /\ m \notin delivered
    /\ withdrawn' = withdrawn \cup {m}
    /\ UNCHANGED <<line, delivered, answer>>

\* The turn of a delivered message has its result ...
Reply(m) ==
    /\ m \in delivered
    /\ answer[m] = "open"
    /\ answer' = [answer EXCEPT ![m] = "result"]
    /\ UNCHANGED <<line, delivered, withdrawn>>

\* ... or ends without.
BreakOff ==
    /\ \E ended \in SUBSET delivered : LetGo(ended)
    /\ UNCHANGED <<line, delivered, withdrawn>>

\* The session ends: nothing stays in line, and nobody is left waiting.
Lose ==
    /\ line' = <<>>
    /\ LetGo(Msgs)
    /\ UNCHANGED <<delivered, withdrawn>>

Next ==
    \/ \E m \in Msgs : (\E wait \in {"none", "open"} : Accept(m, wait)) \/ Withdraw(m) \/ Reply(m)
    \/ Deliver \/ Drop \/ BreakOff \/ Lose

Spec == Init /\ [][Next]_queueVars
=============================================================================
