------------------------- MODULE ThreadTurnsProofs -------------------------
(***************************************************************************)
(* Proofs about ThreadTurns for every number of messages, requests, queue  *)
(* slots and bounds: TurnInv is inductive, and the safety properties of    *)
(* the thread follow from it; and the thread implements ThreadQueue.       *)
(* Types first, then the steps that leave the queue and the handlers       *)
(* alone, then one step per action that does not, then the refinement.     *)
(***************************************************************************)
EXTENDS ThreadTurns, FiniteSetTheorems, TLAPS

\* Two abbreviations of the UNCHANGED lists.
USE DEF history, SameProcess

\* The lines the worker and the process write to each other.
LEMMA LineType ==
    /\ \A S \in SUBSET Msgs : Line("user", S) \in Inputs /\ Line("result", S) \in Lines
    /\ \A S \in SUBSET Requests : Line("answer", S) \in Inputs /\ Line("request", S) \in Lines
    /\ Line("user", {}) \in Inputs /\ Line("interrupt", {}) \in Inputs
    /\ Line("notice", {}) \in Lines
BY DEF Line, Inputs, Lines

\* The empty sequence, as the start of every queue.
LEMMA Empty == ASSUME NEW S PROVE <<>> \in Seq(S)
OBVIOUS

\* A sequence of S with an element of S at its end.
LEMMA AppendType == ASSUME NEW S, NEW s \in Seq(S), NEW e \in S PROVE Append(s, e) \in Seq(S)
OBVIOUS

\* What the process reads first, and what is left for it.
LEMMA HeadOfInbox ==
    ASSUME CliTypeOK, inbox # <<>>
    PROVE  /\ Tail(inbox) \in Seq(Inputs)
           /\ Head(inbox).kind = "user" => Head(inbox).of \subseteq Msgs
<1>1. Head(inbox) \in Inputs /\ Tail(inbox) \in Seq(Inputs)
  BY DEF CliTypeOK
<1> QED BY <1>1 DEF Inputs

\* What the worker reads first, and what is left for it.
LEMMA HeadOfStdout ==
    ASSUME CliTypeOK, stdout # <<>>
    PROVE  /\ Tail(stdout) \in Seq(Lines)
           /\ Head(stdout).kind = "request" => Head(stdout).of \subseteq Requests
<1>1. Head(stdout) \in Lines /\ Tail(stdout) \in Seq(Lines)
  BY DEF CliTypeOK
<1> QED BY <1>1 DEF Lines

\* The process reads and writes lines of the protocol only.
LEMMA CliStepType ==
    ASSUME CliTypeOK, CliStep
    PROVE  CliTypeOK'
<1>1. CASE ReadUser
  BY <1>1, HeadOfInbox DEF ReadUser, CliTypeOK
<1>2. CASE ReadAnswer
  BY <1>2, HeadOfInbox DEF ReadAnswer, CliTypeOK
<1>3. CASE ReadInterrupt
  <2>1. Tail(inbox) \in Seq(Inputs) /\ Line("result", serving) \in Lines
    BY <1>3, HeadOfInbox, LineType DEF ReadInterrupt, CliTypeOK
  <2>2. Append(stdout, Line("result", serving)) \in Seq(Lines)
    BY <2>1, AppendType DEF CliTypeOK
  <2> QED BY <1>3, <2>1, <2>2 DEF ReadInterrupt, CanPrint, CliTypeOK
<1>4. CASE FinishTurn
  <2>1. Line("result", serving) \in Lines
    BY LineType DEF CliTypeOK
  <2>2. Append(stdout, Line("result", serving)) \in Seq(Lines)
    BY <2>1, AppendType DEF CliTypeOK
  <2> QED BY <1>4, <2>2 DEF FinishTurn, CanPrint, CliTypeOK
<1>5. CASE Announce
  BY <1>5, LineType DEF Announce, CanPrint, CliTypeOK
<1>6. CASE Exit
  BY <1>6, Empty DEF Exit, CliTypeOK
<1>7. ASSUME NEW c \in Requests, Ask(c) PROVE CliTypeOK'
  <2>1. Line("request", {c}) \in Lines
    BY LineType
  <2> QED BY <1>7, <2>1 DEF Ask, CanPrint, CliTypeOK
<1> QED BY <1>1, <1>2, <1>3, <1>4, <1>5, <1>6, <1>7 DEF CliStep

\* A process that starts or is killed has empty pipes.
LEMMA CliReset ==
    ASSUME CliTypeOK, CliSpawn \/ CliKill
    PROVE  CliTypeOK'
BY Empty DEF CliTypeOK, CliSpawn, CliKill

\* What the worker does to the pipes: it writes one line, or reads one.
LEMMA WriteType ==
    ASSUME CliTypeOK, NEW l \in Inputs, Write(l), Untouched
    PROVE  CliTypeOK'
BY DEF CliTypeOK, Write, Untouched

\* The worker reads a line.
LEMMA ReadType ==
    ASSUME CliTypeOK, NEW kind, Reads(kind), inbox' \in Seq(Inputs),
           UNCHANGED <<alive, busy, serving, waiting, asked, notices>>
    PROVE  CliTypeOK'
BY HeadOfStdout DEF CliTypeOK, Reads
\* A line half read may be lost when another branch of the select wins.
LEMMA DropReadType ==
    ASSUME CliTypeOK, lost \subseteq Lines, DropRead, SameProcess, inbox' \in Seq(Inputs)
    PROVE  CliTypeOK' /\ lost' \subseteq Lines
<1>1. CASE UNCHANGED <<stdout, lost>>
  BY <1>1 DEF CliTypeOK
<1>2. CASE stdout # <<>> /\ stdout' = Tail(stdout) /\ lost' = lost \cup {Head(stdout)}
  <2>1. Tail(stdout) \in Seq(Lines) /\ Head(stdout) \in Lines
    BY <1>2 DEF CliTypeOK
  <2> QED BY <1>2, <2>1 DEF CliTypeOK
<1> QED BY <1>1, <1>2 DEF DropRead

\* A branch of a select that drops a read and perhaps writes one line.
LEMMA BranchType ==
    ASSUME TypeOK, DropRead, SameProcess,
           inbox' = inbox \/ \E l \in Inputs : Write(l)
    PROVE  CliTypeOK' /\ lost' \subseteq Lines
<1>1. inbox' \in Seq(Inputs)
  BY AppendType DEF TypeOK, CliTypeOK, Write
<1> QED BY <1>1, DropReadType DEF TypeOK, WorkerTypeOK
-----------------------------------------------------------------------------
\* The worker's own state.
Sent == [Msgs -> {"none", "open", "result", "closed"}]

\* Event senders that are dropped leave senders of known messages.
LEMMA DropType ==
    ASSUME WorkerTypeOK, NEW S, DropSenders(S)
    PROVE  events' \in Sent
BY DEF WorkerTypeOK, DropSenders, Sent

\* A turn that is given up leaves no request pending.
LEMMA AbandonType ==
    ASSUME WorkerTypeOK, NEW d, AbandonTurn(d)
    PROVE  /\ pending' = {} /\ nudged' = FALSE /\ turnOf' = NoMsg
           /\ mode' \in {"none", "between", "bg", "bgdone", "exiting"}
           /\ mode' = "none" <=> mode = "none"
           /\ mode' = "bgdone" <=> mode \in {"bg", "bgdone"}
           /\ mode' # "bg"
           /\ events' \in Sent
<1>1. events' \in Sent
  BY DropType DEF AbandonTurn
<1> QED BY <1>1 DEF AbandonTurn, WorkerTypeOK

\* The worker starts, injects or skips the message it took.
LEMMA SettleType ==
    ASSUME TypeOK, Settle
    PROVE  CliTypeOK' /\ WorkerTypeOK'
<1> USE CliAssumption, WorkerAssumption
<1>1. ASSUME NEW m \in Msgs PROVE Line("user", {m}) \in Inputs
  BY LineType
<1>2. ASSUME Uncount, hand # NoMsg
      PROVE  qsize' \in 0..(QueueMod - 1) /\ recalls' \subseteq Msgs /\ hand' = NoMsg
  BY <1>2 DEF TypeOK, WorkerTypeOK, Uncount, Down
<1>3. CASE SkipRecalled
  <2>1. events' \in Sent
    BY <1>3, DropType DEF SkipRecalled, TypeOK
  <2> QED BY <1>2, <1>3, <2>1 DEF SkipRecalled, TypeOK, CliTypeOK, WorkerTypeOK, cliVars, Sent
<1>4. CASE StartTurn
  <2>1. CliTypeOK'
    BY <1>1, <1>4, WriteType DEF StartTurn, TypeOK, WorkerTypeOK
  <2>2. WorkerTypeOK'
    BY <1>2, <1>4 DEF StartTurn, TypeOK, WorkerTypeOK
  <2> QED BY <2>1, <2>2
<1>5. CASE Inject
  <2>1. CliTypeOK'
    BY <1>1, <1>5, WriteType DEF Inject, TypeOK, WorkerTypeOK
  <2>2. events' \in Sent
    BY <1>5, DropType DEF Inject, TypeOK
  <2>3. WorkerTypeOK'
    BY <1>2, <1>5, <2>2 DEF Inject, TypeOK, WorkerTypeOK, Sent
  <2> QED BY <2>1, <2>3
<1>6. CASE SettleBroken
  <2>1. CliTypeOK'
    BY <1>6 DEF SettleBroken, TypeOK, CliTypeOK, cliVars
  <2>2. CASE mode = "between" /\ ~Asking
    <3>1. events' \in Sent
      BY <1>6, <2>2, DropType DEF SettleBroken, TypeOK
    <3> QED BY <1>2, <1>6, <2>1, <2>2, <3>1 DEF SettleBroken, TypeOK, WorkerTypeOK, Sent
  <2>3. CASE ~(mode = "between" /\ ~Asking)
    <3>1. AbandonTurn(hand)
      BY <1>6, <2>3 DEF SettleBroken
    <3> QED BY <1>2, <1>6, <2>1, <3>1, AbandonType DEF SettleBroken, TypeOK, WorkerTypeOK, Sent
  <2> QED BY <2>2, <2>3
<1> QED BY <1>3, <1>4, <1>5, <1>6 DEF Settle

\* An interrupt denies every pending request, one answer each.
LEMMA DenialType ==
    ASSUME NEW denial \in [1..Cardinality(pending) -> pending], TypeOK
    PROVE  inbox \o [i \in DOMAIN denial |-> Line("answer", {denial[i]})] \in Seq(Inputs)
<1>1. Cardinality(pending) \in Nat
  <2>1. IsFiniteSet(pending)
    BY CliAssumption, FS_Subset DEF TypeOK, WorkerTypeOK
  <2> QED BY <2>1, FS_CardinalityType
<1>2. ASSUME NEW i \in DOMAIN denial PROVE Line("answer", {denial[i]}) \in Inputs
  <2>1. {denial[i]} \in SUBSET Requests
    BY DEF TypeOK, WorkerTypeOK
  <2> QED BY <2>1, LineType
<1> DEFINE answers == [i \in DOMAIN denial |-> Line("answer", {denial[i]})]
<1>3. answers \in [1..Cardinality(pending) -> Inputs]
  <2>1. DOMAIN denial = 1..Cardinality(pending)
    OBVIOUS
  <2>2. answers = [i \in 1..Cardinality(pending) |-> Line("answer", {denial[i]})]
    BY <2>1
  <2> HIDE DEF answers
  <2>3. ASSUME NEW i \in 1..Cardinality(pending) PROVE Line("answer", {denial[i]}) \in Inputs
    BY <1>2, <2>1
  <2> QED BY <2>2, <2>3
<1> HIDE DEF answers
<1>4. answers \in Seq(Inputs)
  BY <1>1, <1>3
<1>5. inbox \o answers \in Seq(Inputs)
  BY <1>4 DEF TypeOK, CliTypeOK
<1> QED BY <1>5 DEF answers

\* The three places where an interrupt is taken.
LEMMA InterruptType ==
    ASSUME TypeOK, DropStaleInterrupt \/ ForwardInterrupt \/ InterruptWait
    PROVE  CliTypeOK' /\ WorkerTypeOK'
<1>1. CASE DropStaleInterrupt
  <2>1. CliTypeOK' /\ lost' \subseteq Lines
    BY <1>1, BranchType DEF DropStaleInterrupt
  <2> QED BY <1>1, <2>1 DEF DropStaleInterrupt, TypeOK, WorkerTypeOK, loopVars, queueVars,
                            recallVars
<1>2. CASE ForwardInterrupt
  <2>1. CliTypeOK' /\ lost' \subseteq Lines
    BY <1>2, BranchType, LineType DEF ForwardInterrupt
  <2>2. CASE UNCHANGED <<loopVars, events>>
    BY <1>2, <2>1, <2>2 DEF ForwardInterrupt, TypeOK, WorkerTypeOK, loopVars, queueVars,
                            recallVars
  <2>3. CASE AbandonTurn(NoMsg) /\ UNCHANGED hand
    BY <1>2, <2>1, <2>3, AbandonType DEF ForwardInterrupt, TypeOK, WorkerTypeOK, queueVars,
                                         recallVars, Sent
  <2> QED BY <1>2, <2>2, <2>3 DEF ForwardInterrupt
<1>3. CASE InterruptWait
  <2>1. CliTypeOK' /\ lost' \subseteq Lines
    <3>1. inbox' \in Seq(Inputs)
      BY <1>3, DenialType DEF InterruptWait, TypeOK, CliTypeOK
    <3> QED BY <1>3, <3>1, DropReadType DEF InterruptWait, TypeOK, WorkerTypeOK
  <2>2. WorkerTypeOK'
    BY <1>3, <2>1, AbandonType DEF InterruptWait, TypeOK, WorkerTypeOK, queueVars,
                                   recallVars, Sent
  <2> QED BY <2>1, <2>2
<1> QED BY <1>1, <1>2, <1>3

\* The steps that read one line.
LEMMA ReadsType ==
    ASSUME TypeOK,
           \/ EndActiveTurn \/ EndBgTurn \/ PassResult \/ ReadNotice
           \/ Prompt \/ AutoAnswer \/ AutoAnswerBroken
    PROVE  CliTypeOK' /\ WorkerTypeOK'
<1> USE DEF TypeOK
<1>1. ASSUME NEW kind, Reads(kind), UNCHANGED inbox,
             UNCHANGED <<alive, busy, serving, waiting, asked, notices>>
      PROVE  CliTypeOK'
  BY <1>1, ReadType DEF CliTypeOK
<1>2. CASE EndActiveTurn
  <2>1. CliTypeOK'
    BY <1>1, <1>2 DEF EndActiveTurn
  <2> QED BY <1>2, <2>1 DEF EndActiveTurn, WorkerTypeOK, queueVars, recallVars
<1>3. CASE EndBgTurn
  <2>1. CliTypeOK'
    BY <1>1, <1>3 DEF EndBgTurn
  <2> QED BY <1>3, <2>1 DEF EndBgTurn, WorkerTypeOK, queueVars, recallVars
<1>4. CASE PassResult
  <2>1. CliTypeOK'
    BY <1>1, <1>4 DEF PassResult
  <2> QED BY <1>4, <2>1 DEF PassResult, WorkerTypeOK, loopVars, queueVars, recallVars
<1>5. CASE ReadNotice
  <2>1. CliTypeOK'
    BY <1>1, <1>5 DEF ReadNotice
  <2> QED BY <1>5, <2>1 DEF ReadNotice, WorkerTypeOK, queueVars, recallVars
<1>6. ASSUME Reads("request") PROVE Head(stdout).of \subseteq Requests
  BY <1>6, HeadOfStdout DEF Reads
<1>7. CASE Prompt
  <2>1. CliTypeOK'
    BY <1>1, <1>7 DEF Prompt
  <2>2. Head(stdout).of \subseteq Requests
    BY <1>6, <1>7 DEF Prompt
  <2> QED BY <1>7, <2>1, <2>2 DEF Prompt, WorkerTypeOK, queueVars, recallVars
<1>8. CASE AutoAnswer
  <2>1. Line("answer", Head(stdout).of) \in Inputs
    BY <1>6, <1>8, LineType DEF AutoAnswer
  <2>2. inbox' \in Seq(Inputs)
    BY <1>8, <2>1, AppendType DEF AutoAnswer, Write, CliTypeOK
  <2>3. CliTypeOK'
    BY <1>8, <2>2, ReadType DEF AutoAnswer
  <2> QED BY <1>8, <2>3 DEF AutoAnswer, WorkerTypeOK, loopVars, queueVars, recallVars
<1>9. CASE AutoAnswerBroken
  <2>1. CliTypeOK'
    BY <1>1, <1>9 DEF AutoAnswerBroken
  <2> QED BY <1>9, <2>1, AbandonType DEF AutoAnswerBroken, WorkerTypeOK, queueVars,
                                         recallVars, Sent
<1> QED BY <1>2, <1>3, <1>4, <1>5, <1>7, <1>8, <1>9

\* The steps that end a wait or a turn.
LEMMA EndsType ==
    ASSUME TypeOK,
           \/ BgStatus \/ EndOfOutput \/ SoftTimeout \/ HardTimeout
           \/ \E c \in pending : Resolve(c)
    PROVE  CliTypeOK' /\ WorkerTypeOK'
<1> USE DEF TypeOK
<1>1. CASE BgStatus
  <2>1. CliTypeOK'
    BY <1>1 DEF BgStatus, CliTypeOK, cliVars
  <2> QED BY <1>1, <2>1 DEF BgStatus, WorkerTypeOK, queueVars, recallVars
<1>2. CASE EndOfOutput
  <2>1. CliTypeOK'
    BY <1>2 DEF EndOfOutput, CliTypeOK, cliVars
  <2>2. CASE Asking \/ mode = "bg"
    <3>1. AbandonTurn(NoMsg) /\ closed' = (closed \/ Asking)
      BY <1>2, <2>2 DEF EndOfOutput
    <3> QED BY <1>2, <2>1, <3>1, AbandonType DEF EndOfOutput, WorkerTypeOK, recallVars, Sent
  <2>3. CASE ~(Asking \/ mode = "bg")
    <3>1. events' \in Sent
      BY <1>2, <2>3, DropType DEF EndOfOutput
    <3> QED BY <1>2, <2>1, <2>3, <3>1 DEF EndOfOutput, WorkerTypeOK, recallVars, Sent
  <2> QED BY <2>2, <2>3
<1>3. CASE SoftTimeout
  <2>1. CliTypeOK' /\ lost' \subseteq Lines
    BY <1>3, LineType, BranchType DEF SoftTimeout
  <2> QED BY <1>3, <2>1 DEF SoftTimeout, WorkerTypeOK, queueVars, recallVars
<1>4. CASE HardTimeout
  <2>1. CliTypeOK' /\ lost' \subseteq Lines
    BY <1>4, BranchType DEF HardTimeout
  <2>2. events' \in Sent
    BY <1>4, DropType DEF HardTimeout
  <2> QED BY <1>4, <2>1, <2>2 DEF HardTimeout, WorkerTypeOK, recallVars, Sent
<1>5. ASSUME NEW c \in pending, Resolve(c) PROVE CliTypeOK' /\ WorkerTypeOK'
  <2>1. Line("answer", {c}) \in Inputs
    BY LineType DEF WorkerTypeOK
  <2>2. CliTypeOK' /\ lost' \subseteq Lines
    BY <1>5, <2>1, BranchType DEF Resolve
  <2>3. CASE pending' = pending \ {c} /\ UNCHANGED <<mode, turnOf, nudged, events>>
    BY <1>5, <2>2, <2>3 DEF Resolve, WorkerTypeOK, queueVars, recallVars
  <2>4. CASE AbandonTurn(NoMsg)
    BY <1>5, <2>2, <2>4, AbandonType DEF Resolve, WorkerTypeOK, queueVars, recallVars, Sent
  <2> QED BY <1>5, <2>3, <2>4 DEF Resolve
<1> QED BY <1>1, <1>2, <1>3, <1>4, <1>5

\* The worker takes the first message of its queue.
LEMMA ReceiveType ==
    ASSUME TypeOK, Receive
    PROVE  CliTypeOK' /\ WorkerTypeOK' /\ hand' = Head(queue) /\ hand' \in Msgs
<1>1. CliTypeOK' /\ lost' \subseteq Lines
  BY BranchType DEF Receive
<1>2. Head(queue) \in Msgs /\ Tail(queue) \in Seq(Msgs)
  BY DEF TypeOK, WorkerTypeOK, Receive
<1> QED BY <1>1, <1>2 DEF TypeOK, WorkerTypeOK, Receive, recallVars

\* The session leaves the map with its queue, its waits and its process.
LEMMA EndSessionType ==
    ASSUME TypeOK, EndSession, recalls' \subseteq Msgs, UNCHANGED <<cancelled, db, history>>
    PROVE  CliTypeOK' /\ WorkerTypeOK'
<1>1. CliTypeOK'
  BY CliReset DEF TypeOK, EndSession
<1>2. events' \in Sent
  BY DropType DEF TypeOK, EndSession
<1>3. qsize' \in 0..(QueueMod - 1) /\ queue' \in Seq(Msgs)
  BY WorkerAssumption, Empty DEF EndSession
<1> QED BY <1>1, <1>2, <1>3 DEF TypeOK, WorkerTypeOK, EndSession, Sent

\* A kill ends the session and forgets its recalls.
LEMMA KillType ==
    ASSUME TypeOK, KillSession
    PROVE  CliTypeOK' /\ WorkerTypeOK'
<1>1. recalls' \subseteq Msgs
  BY DEF KillSession, TypeOK, WorkerTypeOK
<1> QED BY <1>1, EndSessionType DEF KillSession

\* Nothing runs at first.
LEMMA TypeInit == Init => TypeOK
<1> SUFFICES ASSUME Init PROVE TypeOK
  OBVIOUS
<1>1. <<>> \in Seq(Inputs) /\ <<>> \in Seq(Lines) /\ <<>> \in Seq(Msgs)
  BY Empty
<1>2. CliTypeOK
  BY <1>1 DEF Init, CliInit, CliTypeOK
<1>3. WorkerTypeOK
  <2>1. qsize \in 0..(QueueMod - 1)
    BY WorkerAssumption DEF Init, WorkerInit
  <2>2. events \in Sent /\ queue \in Seq(Msgs)
    BY <1>1 DEF Init, WorkerInit, Sent
  <2> QED BY <2>1, <2>2 DEF Init, WorkerInit, WorkerTypeOK, Sent
<1> QED BY <1>2, <1>3 DEF Init, TypeOK

\* The steps of a message's handler.
LEMMA HandlerType ==
    ASSUME TypeOK, NEW m \in Msgs, Handler(m)
    PROVE  TypeOK'
<1>1. CASE OpenExisting(m) \/ OpenFails(m) \/ OpenDirect(m)
  BY <1>1 DEF OpenExisting, OpenFails, OpenDirect, Move, TypeOK, CliTypeOK, WorkerTypeOK, cliVars,
              workerVars, loopVars, queueVars, recallVars
<1>2. CASE OpenSpawning(m)
  <2>1. CliTypeOK'
    BY <1>2, CliReset DEF OpenSpawning, TypeOK
  <2> QED BY <1>2, <2>1 DEF OpenSpawning, Move, TypeOK, WorkerTypeOK, queueVars, recallVars
<1>3. CASE Acquire(m) \/ AcquireToReload(m) \/ EnqueueFails(m) \/ Finish(m)
  <2>1. CliTypeOK'
    BY <1>3 DEF Acquire, AcquireToReload, EnqueueFails, Finish, TypeOK, CliTypeOK, cliVars
  <2>2. WorkerTypeOK'
    BY <1>3 DEF Acquire, AcquireToReload, EnqueueFails, Finish, TypeOK, WorkerTypeOK, loopVars,
                queueVars, recallVars
  <2>3. primary' \subseteq Msgs /\ reload' \in BOOLEAN
    BY <1>3 DEF Acquire, AcquireToReload, EnqueueFails, Finish, TypeOK
  <2> QED BY <1>3, <2>1, <2>2, <2>3 DEF Acquire, AcquireToReload, EnqueueFails, Finish, Move, TypeOK
<1>4. CASE Enqueue(m)
  <2>1. CliTypeOK' /\ Append(queue, m) \in Seq(Msgs)
    BY <1>4, AppendType DEF Enqueue, TypeOK, CliTypeOK, WorkerTypeOK, cliVars
  <2> QED BY <1>4, <2>1 DEF Enqueue, Move, TypeOK, WorkerTypeOK, loopVars
<1>5. CASE Count(m)
  <2>1. CliTypeOK'
    BY <1>5 DEF Count, TypeOK, CliTypeOK, cliVars
  <2>2. qsize' \in 0..(QueueMod - 1)
    BY <1>5, WorkerAssumption DEF Count, Up, TypeOK, WorkerTypeOK
  <2> QED BY <1>5, <2>1, <2>2 DEF Count, Move, TypeOK, WorkerTypeOK, loopVars, recallVars
<1>6. CASE ReloadKill(m)
  <2>1. CliTypeOK' /\ WorkerTypeOK'
    BY <1>6, KillType DEF ReloadKill
  <2> QED BY <1>6, <2>1 DEF ReloadKill, Move, TypeOK
<1>7. CASE Respawn(m)
  <2>1. CliTypeOK'
    BY <1>7, CliReset DEF Respawn, TypeOK
  <2> QED BY <1>7, <2>1 DEF Respawn, Move, TypeOK, WorkerTypeOK, queueVars, recallVars
<1>8. CASE RespawnFails(m)
  BY <1>8 DEF RespawnFails, Move, TypeOK, CliTypeOK, WorkerTypeOK, cliVars, workerVars,
              loopVars, queueVars, recallVars
<1> QED BY <1>1, <1>2, <1>3, <1>4, <1>5, <1>6, <1>7, <1>8 DEF Handler

\* Every step keeps the types.
LEMMA TypeStep ==
    ASSUME TypeOK, [Next]_vars
    PROVE  TypeOK'
<1> USE DEF handlerVars
<1>1. ASSUME NEW m \in Msgs, Handler(m) PROVE TypeOK'
  BY <1>1, HandlerType
<1>2. ASSUME NEW m \in Msgs, Recall(m) PROVE TypeOK'
  <2>1. CliTypeOK'
    BY <1>2 DEF Recall, TypeOK, CliTypeOK, cliVars
  <2> QED BY <1>2, <2>1 DEF Recall, TypeOK, WorkerTypeOK, loopVars, queueVars
<1>3. CASE Worker /\ UNCHANGED handlerVars
  <2>1. CASE WorkerStep
    <3>1. CliTypeOK' /\ WorkerTypeOK'
      BY <2>1, ReceiveType, SettleType, InterruptType, ReadsType, EndsType DEF WorkerStep
    <3> QED BY <1>3, <3>1 DEF TypeOK
  <2>2. CASE WorkerExit
    <3>1. CliTypeOK' /\ WorkerTypeOK'
      BY <2>2, EndSessionType DEF WorkerExit, recallVars, TypeOK, WorkerTypeOK
    <3> QED BY <1>3, <3>1 DEF TypeOK
  <2> QED BY <1>3, <2>1, <2>2 DEF Worker
<1>4. CASE (\E c \in pending : Resolve(c)) /\ UNCHANGED handlerVars
  BY <1>4, EndsType DEF TypeOK
<1>5. CASE CliStep /\ UNCHANGED <<workerVars, handlerVars>>
  <2>1. CliTypeOK'
    BY <1>5, CliStepType DEF TypeOK
  <2> QED BY <1>5, <2>1 DEF TypeOK, WorkerTypeOK, workerVars, loopVars, queueVars, recallVars
<1>6. CASE Stop
  <2>1. CliTypeOK'
    BY <1>6 DEF Stop, TypeOK, CliTypeOK, cliVars
  <2> QED BY <1>6, <2>1 DEF Stop, TypeOK, WorkerTypeOK, loopVars, queueVars, recallVars
<1>7. CASE Kill \/ KillSilently
  <2>1. CliTypeOK' /\ WorkerTypeOK'
    BY <1>7, KillType DEF Kill, KillSilently
  <2> QED BY <1>7, <2>1 DEF Kill, KillSilently, TypeOK
<1>8. CASE KillStatus
  <2>1. CliTypeOK'
    BY <1>8 DEF KillStatus, TypeOK, CliTypeOK, cliVars
  <2> QED BY <1>8, <2>1 DEF KillStatus, TypeOK, WorkerTypeOK, loopVars, queueVars, recallVars
<1>9. CASE AllowAlways
  <2>1. CliTypeOK'
    BY <1>9 DEF AllowAlways, TypeOK, CliTypeOK, cliVars
  <2>2. WorkerTypeOK'
    BY <1>9, <2>1 DEF AllowAlways, TypeOK, WorkerTypeOK, workerVars, loopVars, queueVars,
                      recallVars
  <2> QED BY <1>9, <2>1, <2>2 DEF AllowAlways, TypeOK
<1>10. CASE UNCHANGED vars
  BY <1>10 DEF vars, TypeOK, CliTypeOK, WorkerTypeOK, cliVars, workerVars, loopVars, queueVars,
               recallVars
<1> QED BY <1>1, <1>2, <1>3, <1>4, <1>5, <1>6, <1>7, <1>8, <1>9, <1>10 DEF Next
-----------------------------------------------------------------------------
\* The steps that leave the queue, the recalls and the handlers alone.
Quiet ==
    /\ UNCHANGED <<queue, hand, qsize, recalls, cancelled, delivered, stage, primary>>
    /\ mode' = "none" <=> mode = "none"

\* Most steps of the worker touch neither the queue nor its count.
LEMMA QuietSteps ==
    ASSUME TypeOK,
           \/ DropStaleInterrupt \/ ForwardInterrupt \/ InterruptWait
           \/ EndActiveTurn \/ EndBgTurn \/ BgStatus \/ PassResult
           \/ ReadNotice \/ Prompt \/ AutoAnswer \/ AutoAnswerBroken
           \/ EndOfOutput \/ SoftTimeout \/ HardTimeout
           \/ \E c \in pending : Resolve(c),
           UNCHANGED handlerVars
    PROVE  Quiet
<1> USE DEF Quiet, handlerVars, loopVars, queueVars, recallVars, InLoop
<1>1. CASE DropStaleInterrupt
  BY <1>1 DEF DropStaleInterrupt
<1>2. CASE ForwardInterrupt
  BY <1>2, AbandonType DEF ForwardInterrupt, TypeOK
<1>3. CASE InterruptWait
  BY <1>3, AbandonType DEF InterruptWait, TypeOK
<1>4. CASE EndActiveTurn \/ EndBgTurn \/ BgStatus
  BY <1>4 DEF EndActiveTurn, EndBgTurn, BgStatus
<1>5. CASE PassResult \/ ReadNotice \/ Prompt \/ AutoAnswer
  BY <1>5 DEF PassResult, ReadNotice, Prompt, AutoAnswer, Reads
<1>6. CASE AutoAnswerBroken
  BY <1>6, AbandonType DEF AutoAnswerBroken, TypeOK
<1>7. CASE EndOfOutput
  BY <1>7, AbandonType DEF EndOfOutput, TypeOK
<1>8. CASE SoftTimeout \/ HardTimeout
  BY <1>8 DEF SoftTimeout, HardTimeout
<1>9. ASSUME NEW c \in pending, Resolve(c) PROVE Quiet
  BY <1>9, AbandonType DEF Resolve, TypeOK
<1> QED BY <1>1, <1>2, <1>3, <1>4, <1>5, <1>6, <1>7, <1>8, <1>9

\* Every step is quiet or one of these.
LEMMA StepKinds ==
    ASSUME TypeOK, [Next]_vars
    PROVE  \/ Quiet
           \/ (Receive \/ Settle) /\ UNCHANGED handlerVars
           \/ SessionsFree /\ WorkerExit /\ UNCHANGED handlerVars
           \/ KillSession /\ UNCHANGED <<stage, primary>>
           \/ \E m \in Msgs : Handler(m) \/ Recall(m)
<1> USE DEF Quiet
<1>1. CASE Worker /\ UNCHANGED handlerVars
  BY <1>1, QuietSteps DEF Worker, WorkerStep
<1>2. CASE (\E c \in pending : Resolve(c)) /\ UNCHANGED handlerVars
  BY <1>2, QuietSteps
<1>3. CASE CliStep /\ UNCHANGED <<workerVars, handlerVars>>
  BY <1>3 DEF workerVars, handlerVars, loopVars, queueVars, recallVars
<1>4. CASE Stop \/ KillStatus \/ AllowAlways
  BY <1>4 DEF Stop, KillStatus, AllowAlways, workerVars, loopVars, queueVars, recallVars
<1>5. CASE UNCHANGED vars
  BY <1>5 DEF vars, workerVars, handlerVars, loopVars, queueVars, recallVars
<1>6. CASE Kill \/ KillSilently
  BY <1>6 DEF Kill, KillSilently
<1> QED BY <1>1, <1>2, <1>3, <1>4, <1>5, <1>6 DEF Next
-----------------------------------------------------------------------------
\* The stages of the handlers.
LEMMA MoveStage ==
    ASSUME TypeOK, NEW m \in Msgs, NEW to, Move(m, to)
    PROVE  /\ stage'[m] = to
           /\ \A n \in Msgs \ {m} : stage'[n] = stage[n]
BY DEF TypeOK, Move

\* What a step of a handler does to its stage, the queue and the recalls.
LEMMA HandlerMoves ==
    ASSUME TypeOK, NEW m \in Msgs, Handler(m)
    PROVE  /\ \A n \in Msgs \ {m} : stage'[n] = stage[n]
           /\ UNCHANGED <<cancelled, delivered>>
           /\ ~ReloadKill(m) => UNCHANGED hand
           /\ \/ /\ stage[m] = "new" /\ stage'[m] \in {"opened", "done"}
                 /\ Dispatching = {} /\ UNCHANGED <<queue, qsize, recalls>>
              \/ /\ stage[m] = "opened" /\ stage'[m] \in {"acquired", "reloading"}
                 /\ UNCHANGED <<queue, qsize, recalls, mode>>
              \/ ReloadKill(m) /\ stage[m] = "reloading" /\ stage'[m] = "respawning"
              \/ Respawn(m) /\ stage[m] = "respawning" /\ stage'[m] = "acquired"
                 /\ UNCHANGED <<queue, qsize, recalls>>
              \/ Enqueue(m) /\ stage'[m] = "counting"
              \/ /\ stage[m] \in {"respawning", "acquired", "waiting"} /\ stage'[m] = "done"
                 /\ UNCHANGED <<queue, qsize, recalls, mode>>
              \/ Count(m) /\ stage'[m] \in {"waiting", "done"}
<1> USE MoveStage DEF workerVars, loopVars, queueVars, recallVars
<1>1. CASE OpenExisting(m) \/ OpenFails(m) \/ OpenDirect(m)
  BY <1>1 DEF OpenExisting, OpenFails, OpenDirect
<1>2. CASE OpenSpawning(m)
  BY <1>2 DEF OpenSpawning
<1>3. CASE Acquire(m) \/ AcquireToReload(m)
  BY <1>3 DEF Acquire, AcquireToReload
<1>4. CASE EnqueueFails(m) \/ Finish(m)
  BY <1>4 DEF EnqueueFails, Finish
<1>5. CASE Enqueue(m)
  BY <1>5 DEF Enqueue
<1>6. CASE Count(m)
  BY <1>6 DEF Count
<1>7. CASE ReloadKill(m)
  BY <1>7 DEF ReloadKill, KillSession
<1>8. CASE Respawn(m)
  BY <1>8 DEF Respawn
<1>9. CASE RespawnFails(m)
  BY <1>9 DEF RespawnFails
<1> QED BY <1>1, <1>2, <1>3, <1>4, <1>5, <1>6, <1>7, <1>8, <1>9 DEF Handler

\* What the worker does to the queue when it settles its message.
LEMMA SettleMoves ==
    ASSUME TypeOK, Settle
    PROVE  /\ hand # NoMsg /\ Uncount
           /\ UNCHANGED <<queue, cancelled>>
           /\ mode' = "none" <=> mode = "none"
           /\ \/ delivered' = delivered
              \/ hand \notin cancelled /\ delivered' = delivered \cup {hand}
<1> USE DEF queueVars
<1>1. CASE SkipRecalled
  BY <1>1 DEF SkipRecalled
<1>2. CASE StartTurn \/ Inject
  BY <1>2 DEF StartTurn, Inject
<1>3. CASE SettleBroken
  BY <1>3, AbandonType DEF SettleBroken, TypeOK
<1> QED BY <1>1, <1>2, <1>3 DEF Settle
-----------------------------------------------------------------------------
\* The dispatch guard lets one handler at a time reach the session.
LEMMA OneDispatchStep ==
    ASSUME TypeOK, OneDispatch, [Next]_vars
    PROVE  OneDispatch'
<1>1. CASE UNCHANGED stage
  BY <1>1 DEF OneDispatch, Dispatching
<1>2. ASSUME NEW m \in Msgs, Handler(m) PROVE OneDispatch'
  <2>1. \A n \in Msgs \ {m} : stage'[n] = stage[n]
    BY <1>2, HandlerMoves
  <2>2. CASE stage[m] = "new" /\ Dispatching = {}
    BY <2>1, <2>2 DEF OneDispatch, Dispatching
  <2>3. CASE m \in Dispatching
    BY <2>1, <2>3 DEF OneDispatch, Dispatching
  <2>4. CASE stage[m] = "waiting"
    <3>1. stage'[m] = "done"
      BY <1>2, <2>4, HandlerMoves DEF Enqueue, Count
    <3> QED BY <2>1, <3>1 DEF OneDispatch, Dispatching
  <2> QED BY <1>2, <2>2, <2>3, <2>4, HandlerMoves DEF Dispatching, Enqueue, Count
<1>3. ASSUME NEW m \in Msgs, Recall(m) PROVE UNCHANGED stage
  BY <1>3 DEF Recall, handlerVars
<1> QED BY <1>1, <1>2, <1>3, StepKinds DEF Quiet, handlerVars

\* Only a handler that acquired the thread restarts its session.
LEMMA ReloadersStep ==
    ASSUME TypeOK, ReloadersArePrimary, [Next]_vars
    PROVE  ReloadersArePrimary'
<1> USE DEF ReloadersArePrimary
<1>1. CASE UNCHANGED <<stage, primary>>
  BY <1>1
<1>2. ASSUME NEW m \in Msgs, Handler(m) PROVE ReloadersArePrimary'
  <2>1. \A n \in Msgs \ {m} : stage'[n] = stage[n]
    BY <1>2, HandlerMoves
  <2>2. primary \subseteq primary'
    BY <1>2 DEF Handler, OpenExisting, OpenSpawning, OpenFails, OpenDirect, Acquire,
                AcquireToReload, ReloadKill, Respawn, RespawnFails, Enqueue, EnqueueFails,
                Count, Finish
  <2>3. CASE AcquireToReload(m)
    BY <2>1, <2>2, <2>3 DEF AcquireToReload
  <2>4. CASE ReloadKill(m)
    <3>1. m \in primary
      BY <2>4 DEF ReloadKill
    <3> QED BY <2>1, <2>2, <3>1
  <2>5. CASE ~AcquireToReload(m) /\ ~ReloadKill(m)
    <3>1. CASE OpenExisting(m) \/ OpenSpawning(m) \/ OpenFails(m) \/ OpenDirect(m)
      BY <2>1, <2>2, <3>1, MoveStage DEF OpenExisting, OpenSpawning, OpenFails, OpenDirect
    <3>2. CASE Acquire(m) \/ Respawn(m) \/ RespawnFails(m)
      BY <2>1, <2>2, <3>2, MoveStage DEF Acquire, Respawn, RespawnFails
    <3>3. CASE Enqueue(m) \/ EnqueueFails(m) \/ Count(m) \/ Finish(m)
      BY <2>1, <2>2, <3>3, MoveStage DEF Enqueue, EnqueueFails, Count, Finish
    <3> QED BY <1>2, <2>5, <3>1, <3>2, <3>3 DEF Handler
  <2> QED BY <2>3, <2>4, <2>5
<1>3. ASSUME NEW m \in Msgs, Recall(m) PROVE UNCHANGED <<stage, primary>>
  BY <1>3 DEF Recall, handlerVars
<1> QED BY <1>1, <1>2, <1>3, StepKinds DEF Quiet, handlerVars

\* Who is in send_message, after a handler's step.
LEMMA FreeMoves ==
    ASSUME TypeOK, OneDispatch, NEW m \in Msgs, Handler(m)
    PROVE  /\ Enqueue(m) => SessionsFree /\ ~SessionsFree'
           /\ Count(m) => ~SessionsFree /\ SessionsFree'
           /\ ~Enqueue(m) /\ ~Count(m) => SessionsFree' = SessionsFree
<1>1. \A n \in Msgs \ {m} : stage'[n] = stage[n]
  BY HandlerMoves
<1>2. CASE Enqueue(m)
  <2>1. stage[m] = "acquired" /\ stage'[m] = "counting"
    BY <1>2, MoveStage DEF Enqueue
  <2>2. \A n \in Msgs : stage[n] # "counting"
    BY <2>1 DEF OneDispatch, Dispatching
  <2> QED BY <1>2, <2>1, <2>2 DEF SessionsFree, Count
<1>3. CASE Count(m)
  <2>1. stage[m] = "counting" /\ stage'[m] # "counting"
    BY <1>3, MoveStage DEF Count
  <2>2. \A n \in Msgs \ {m} : stage[n] # "counting"
    BY <2>1 DEF OneDispatch, Dispatching
  <2> QED BY <1>1, <1>3, <2>1, <2>2 DEF SessionsFree, Enqueue
<1>4. CASE ~Enqueue(m) /\ ~Count(m)
  <2>1. stage[m] # "counting" /\ stage'[m] # "counting"
    BY <1>4, HandlerMoves
  <2> QED BY <1>1, <1>4, <2>1 DEF SessionsFree
<1> QED BY <1>2, <1>3, <1>4

\* The steps of a handler that touch neither the session nor its queue.
LEMMA StageOnly ==
    ASSUME TypeOK, NEW m \in Msgs,
           \/ OpenExisting(m) \/ OpenFails(m) \/ OpenDirect(m) \/ Acquire(m)
           \/ AcquireToReload(m) \/ RespawnFails(m) \/ EnqueueFails(m) \/ Finish(m)
    PROVE  ~Enqueue(m) /\ ~Count(m) /\ UNCHANGED <<mode, queue, hand, qsize>>
<1>1. ~Enqueue(m) /\ ~Count(m)
  BY DEF OpenExisting, OpenFails, OpenDirect, Acquire, AcquireToReload, RespawnFails,
         EnqueueFails, Finish, Enqueue, Count, Move, TypeOK
<1>2. UNCHANGED <<mode, queue, hand, qsize>>
  BY DEF OpenExisting, OpenFails, OpenDirect, Acquire, AcquireToReload, RespawnFails,
         EnqueueFails, Finish, workerVars, loopVars, queueVars
<1> QED BY <1>1, <1>2

\* A session that has ended has nothing queued.
LEMMA NoSessionStep ==
    ASSUME TypeOK, OneDispatch, NoSessionIsEmpty, [Next]_vars
    PROVE  NoSessionIsEmpty'
<1> USE DEF NoSessionIsEmpty
<1>1. CASE Quiet
  BY <1>1 DEF Quiet, SessionsFree
<1>2. CASE Receive
  BY <1>2 DEF Receive, InLoop
<1>3. CASE Settle
  BY <1>3, SettleMoves
<1>4. CASE SessionsFree /\ EndSession /\ UNCHANGED stage
  BY <1>4 DEF EndSession, SessionsFree
<1>5. ASSUME NEW m \in Msgs, Handler(m) PROVE NoSessionIsEmpty'
  <2>1. CASE Enqueue(m)
    BY <2>1 DEF Enqueue, loopVars
  <2>2. CASE Count(m)
    BY <1>5, <2>2, FreeMoves DEF Count, loopVars
  <2>3. CASE OpenSpawning(m)
    BY <2>3 DEF OpenSpawning
  <2>4. CASE ReloadKill(m)
    <3>1. ~Enqueue(m) /\ ~Count(m)
      BY <2>4 DEF ReloadKill, Enqueue, Count
    <3>2. SessionsFree'
      BY <1>5, <2>4, <3>1, FreeMoves DEF ReloadKill, KillSession
    <3> QED BY <2>4, <3>2 DEF ReloadKill, KillSession, EndSession
  <2>5. CASE Respawn(m)
    BY <2>5 DEF Respawn
  <2>6. CASE \/ OpenExisting(m) \/ OpenFails(m) \/ OpenDirect(m) \/ Acquire(m)
             \/ AcquireToReload(m) \/ RespawnFails(m) \/ EnqueueFails(m) \/ Finish(m)
    <3>1. ~Enqueue(m) /\ ~Count(m)
      BY <2>6, StageOnly
    <3>2. UNCHANGED <<mode, queue, hand, qsize>>
      BY <2>6, StageOnly
    <3> QED BY <1>5, <3>1, <3>2, FreeMoves
  <2> QED BY <1>5, <2>1, <2>2, <2>3, <2>6, <2>4, <2>5 DEF Handler
<1>6. ASSUME NEW m \in Msgs, Recall(m) PROVE NoSessionIsEmpty'
  BY <1>6 DEF Recall, handlerVars, loopVars, queueVars, SessionsFree
<1> QED BY <1>1, <1>2, <1>3, <1>4, <1>5, <1>6, StepKinds DEF WorkerExit, KillSession, handlerVars
-----------------------------------------------------------------------------
\* Recalls.
LEMMA QueuedType ==
    ASSUME TypeOK
    PROVE  /\ Queued \subseteq Msgs
           /\ Receive => Queued' \subseteq Queued /\ hand' \in Queued
           /\ \A m \in Msgs : queue' = Append(queue, m) => Queued' \subseteq Queued \cup {m}
<1>1. queue \in Seq(Msgs)
  BY DEF TypeOK, WorkerTypeOK
<1>2. Queued \subseteq Msgs
  BY <1>1 DEF Queued
<1>3. ASSUME Receive PROVE Queued' \subseteq Queued /\ hand' \in Queued
  <2>1. queue # <<>> /\ queue' = Tail(queue) /\ hand' = Head(queue)
    BY <1>3 DEF Receive
  <2>2. hand' = queue[1] /\ 1 \in 1..Len(queue)
    BY <1>1, <2>1
  <2>3. ASSUME NEW i \in 1..Len(queue') PROVE queue'[i] = queue[i + 1] /\ i + 1 \in 1..Len(queue)
    BY <1>1, <2>1
  <2> QED BY <2>2, <2>3 DEF Queued
<1>4. ASSUME NEW m \in Msgs, queue' = Append(queue, m)
      PROVE  Queued' \subseteq Queued \cup {m}
  <2>1. ASSUME NEW i \in 1..Len(queue')
        PROVE  queue'[i] = m \/ (i \in 1..Len(queue) /\ queue'[i] = queue[i])
    BY <1>1, <1>4
  <2> QED BY <2>1 DEF Queued
<1> QED BY <1>2, <1>3, <1>4

\* What the worker takes was counted, or its sender is about to count it.
LEMMA SentStep ==
    ASSUME TypeOK, SentBeforeTaken, [Next]_vars
    PROVE  SentBeforeTaken'
<1> DEFINE taken == Queued \cup {hand} \cup delivered
<1>1. CASE Quiet
  BY <1>1 DEF Quiet, SentBeforeTaken, Queued
<1>2. CASE Receive /\ UNCHANGED handlerVars
  BY <1>2, QueuedType DEF Receive, SentBeforeTaken, handlerVars
<1>3. CASE Settle /\ UNCHANGED handlerVars
  <2>1. Queued' = Queued /\ hand' = NoMsg /\ delivered' \subseteq delivered \cup {hand}
    BY <1>3, SettleMoves DEF Uncount, Queued
  <2> QED BY <1>3, <2>1, CliAssumption DEF SentBeforeTaken, handlerVars
<1>4. CASE EndSession /\ UNCHANGED <<delivered, stage>>
  <2>1. Queued' = {} /\ hand' = NoMsg
    BY <1>4 DEF EndSession, Queued
  <2> QED BY <1>4, <2>1, CliAssumption DEF SentBeforeTaken
<1>5. ASSUME NEW m \in Msgs, Handler(m) PROVE SentBeforeTaken'
  <2>1. /\ \A n \in Msgs \ {m} : stage'[n] = stage[n]
        /\ UNCHANGED delivered
        /\ ~ReloadKill(m) => UNCHANGED hand
    BY <1>5, HandlerMoves
  <2>2. CASE ReloadKill(m)
    <3>1. Queued' = {} /\ hand' = NoMsg
      BY <2>2 DEF ReloadKill, KillSession, EndSession, Queued
    <3>2. stage[m] = "reloading"
      BY <2>2 DEF ReloadKill
    <3> QED BY <2>1, <3>1, <3>2, CliAssumption DEF SentBeforeTaken
  <2>3. CASE Enqueue(m)
    <3>1. Queued' \subseteq Queued \cup {m} /\ stage'[m] = "counting" /\ hand' = hand
      BY <2>3, QueuedType, MoveStage DEF Enqueue, loopVars
    <3> QED BY <2>1, <3>1 DEF SentBeforeTaken
  <2>4. CASE ~Enqueue(m) /\ ~ReloadKill(m)
    <3>1. queue' = queue
      BY <1>5, <2>4, HandlerMoves DEF Count
    <3>2. Queued' = Queued
      BY <3>1 DEF Queued
    <3>3. stage[m] \in {"counting", "waiting", "done"}
            => stage'[m] \in {"counting", "waiting", "done"}
      BY <1>5, <2>4, HandlerMoves
    <3> QED BY <2>1, <2>4, <3>2, <3>3 DEF SentBeforeTaken
  <2> QED BY <2>3, <2>4, <2>2
<1>6. ASSUME NEW m \in Msgs, Recall(m) PROVE SentBeforeTaken'
  BY <1>6 DEF Recall, SentBeforeTaken, Queued, handlerVars, loopVars, queueVars
<1> QED BY <1>1, <1>2, <1>3, <1>4, <1>5, <1>6, StepKinds DEF WorkerExit, KillSession, handlerVars

\* A confirmed recall is skipped, and what was delivered is not confirmed.
LEMMA RecallStep ==
    ASSUME TypeOK, SentBeforeTaken, RecallIsFinal, [Next]_vars
    PROVE  RecallIsFinal'
<1> USE DEF RecallIsFinal
<1>1. CASE Quiet
  BY <1>1 DEF Quiet
<1>2. CASE Receive
  BY <1>2 DEF Receive, recallVars
<1>3. CASE Settle
  BY <1>3, SettleMoves DEF Uncount
<1>4. CASE WorkerExit \/ KillSession
  BY <1>4 DEF WorkerExit, KillSession, recallVars
<1>5. ASSUME NEW m \in Msgs, Handler(m) PROVE RecallIsFinal'
  <2>1. CASE Enqueue(m)
    <3>1. m \notin delivered
      BY <2>1 DEF Enqueue, SentBeforeTaken
    <3> QED BY <2>1, <3>1 DEF Enqueue
  <2>2. CASE ReloadKill(m)
    BY <2>2 DEF ReloadKill, KillSession
  <2>3. CASE ~Enqueue(m) /\ ~ReloadKill(m)
    <3>1. UNCHANGED <<recalls, cancelled, delivered>>
      BY <1>5, <2>3, HandlerMoves DEF Count, recallVars
    <3> QED BY <3>1
  <2> QED BY <2>1, <2>2, <2>3
<1>6. ASSUME NEW m \in Msgs, Recall(m) PROVE RecallIsFinal'
  BY <1>6 DEF Recall
<1> QED BY <1>1, <1>2, <1>3, <1>4, <1>5, <1>6, StepKinds
-----------------------------------------------------------------------------
\* queue_size.
LEMMA LoadType ==
    ASSUME TypeOK
    PROVE  Load \in Nat /\ (hand # NoMsg => Load >= 1)
BY DEF TypeOK, WorkerTypeOK, Load

\* The count follows the queue, whichever of the two additions comes first.
LEMMA AccountingStep ==
    ASSUME TypeOK, OneDispatch, NoSessionIsEmpty, QueueAccounting, [Next]_vars
    PROVE  QueueAccounting'
<1> USE LoadType, WorkerAssumption
<1>1. ASSUME UNCHANGED <<queue, hand, qsize>>, SessionsFree' = SessionsFree,
             mode' = "none" <=> mode = "none"
      PROVE  QueueAccounting'
  BY <1>1 DEF QueueAccounting, Load
<1>2. CASE Quiet
  BY <1>1, <1>2 DEF Quiet, SessionsFree
<1>3. CASE Receive /\ UNCHANGED handlerVars
  <2>1. Load' = Load
    <3>1. hand = NoMsg /\ hand' # NoMsg
      BY <1>3, ReceiveType, CliAssumption DEF Receive, InLoop
    <3>2. Len(queue') + 1 = Len(queue)
      BY <1>3 DEF Receive, TypeOK, WorkerTypeOK
    <3> QED BY <3>1, <3>2 DEF Load
  <2> QED BY <1>3, <2>1 DEF Receive, QueueAccounting, SessionsFree, handlerVars
<1>4. CASE Settle /\ UNCHANGED handlerVars
  <2>1. hand # NoMsg /\ hand' = NoMsg /\ queue' = queue /\ qsize' = Down(qsize)
    BY <1>4, SettleMoves DEF Uncount
  <2>2. Load' = Load - 1 /\ Load >= 1
    BY <2>1 DEF Load, TypeOK, WorkerTypeOK
  <2>3. SessionsFree' = SessionsFree /\ mode # "none"
    BY <1>4, <2>1 DEF SessionsFree, handlerVars, NoSessionIsEmpty
  <2>4. CASE SessionsFree
    BY <2>1, <2>2, <2>3, <2>4 DEF QueueAccounting, Down
  <2>5. CASE ~SessionsFree
    <3>1. qsize = Load - 1
      BY <2>2, <2>3, <2>5 DEF QueueAccounting, Down
    <3>2. qsize' = Down(Load')
      BY <2>1, <2>2, <3>1
    <3> QED BY <2>2, <2>3, <2>5, <3>2 DEF QueueAccounting
  <2> QED BY <2>4, <2>5
<1>5. CASE EndSession
  BY <1>5 DEF EndSession, QueueAccounting, Load
<1>6. ASSUME NEW m \in Msgs, Handler(m) PROVE QueueAccounting'
  <2>1. CASE Enqueue(m)
    <3>1. SessionsFree /\ ~SessionsFree' /\ mode # "none"
      BY <1>6, <2>1, FreeMoves DEF Enqueue
    <3>2. Load' = Load + 1
      BY <2>1 DEF Enqueue, Load, loopVars, TypeOK, WorkerTypeOK
    <3>3. qsize = Load /\ qsize' = qsize /\ qsize < QueueCap
      BY <2>1, <3>1 DEF Enqueue, HasRoom, QueueAccounting
    <3> QED BY <3>1, <3>2, <3>3 DEF QueueAccounting, Down
  <2>2. CASE Count(m)
    <3>1. ~SessionsFree /\ SessionsFree'
      BY <1>6, <2>2, FreeMoves
    <3>2. Load' = Load /\ mode' = mode
      BY <2>2 DEF Count, Load, loopVars
    <3>3. mode # "none" => qsize' = Load
      BY <2>2, <3>1 DEF Count, QueueAccounting, Up, Down
    <3> QED BY <3>1, <3>2, <3>3 DEF QueueAccounting
  <2>3. CASE OpenSpawning(m)
    <3>1. SessionsFree' /\ UNCHANGED <<queue, hand, qsize>>
      <4>1. ~Enqueue(m) /\ ~Count(m)
        BY <2>3 DEF OpenSpawning, Enqueue, Count
      <4> QED BY <1>6, <2>3, <4>1, FreeMoves DEF OpenSpawning, NoSessionIsEmpty, queueVars
    <3>2. queue = <<>> /\ hand = NoMsg /\ qsize = 0
      BY <2>3 DEF OpenSpawning, NoSessionIsEmpty
    <3> QED BY <3>1, <3>2 DEF QueueAccounting, Load
  <2>4. CASE ReloadKill(m)
    BY <1>5, <2>4 DEF ReloadKill, KillSession
  <2>5. CASE Respawn(m)
    <3>1. SessionsFree' /\ UNCHANGED <<queue, hand, qsize>>
      <4>1. ~Enqueue(m) /\ ~Count(m)
        BY <2>5 DEF Respawn, Enqueue, Count
      <4> QED BY <1>6, <2>5, <4>1, FreeMoves DEF Respawn, NoSessionIsEmpty, queueVars
    <3>2. queue = <<>> /\ hand = NoMsg /\ qsize = 0
      BY <2>5 DEF Respawn, NoSessionIsEmpty
    <3> QED BY <3>1, <3>2 DEF QueueAccounting, Load
  <2>6. CASE \/ OpenExisting(m) \/ OpenFails(m) \/ OpenDirect(m) \/ Acquire(m)
             \/ AcquireToReload(m) \/ RespawnFails(m) \/ EnqueueFails(m) \/ Finish(m)
    <3>1. ~Enqueue(m) /\ ~Count(m)
      BY <2>6, StageOnly
    <3>2. UNCHANGED <<mode, queue, hand, qsize>>
      BY <2>6, StageOnly
    <3> QED BY <1>1, <1>6, <3>1, <3>2, FreeMoves
  <2> QED BY <1>6, <2>1, <2>2, <2>3, <2>6, <2>4, <2>5 DEF Handler
<1>7. ASSUME NEW m \in Msgs, Recall(m) PROVE QueueAccounting'
  <2>1. UNCHANGED <<mode, queue, hand, qsize, stage>>
    BY <1>7 DEF Recall, handlerVars, loopVars, queueVars
  <2> QED BY <1>1, <2>1 DEF SessionsFree
<1> QED BY <1>2, <1>3, <1>4, <1>5, <1>6, <1>7, StepKinds DEF WorkerExit, KillSession
-----------------------------------------------------------------------------
\* The status and who writes it back.
\* A worker's step leaves the status alone and a background turn running, or
\* settles the status.
LEMMA WorkerStatus ==
    ASSUME TypeOK, Worker \/ (\E c \in pending : Resolve(c))
    PROVE  \/ db' = "idle"
           \/ mode' = "bg"
           \/ db' = db /\ (mode \in {"bg", "bgdone"} => mode' \in {"bg", "bgdone"})
<1> USE DEF loopVars, queueVars, recallVars, InLoop
<1>1. CASE Receive
  BY <1>1 DEF Receive
<1>2. CASE SkipRecalled \/ StartTurn \/ Inject
  BY <1>2 DEF SkipRecalled, StartTurn, Inject
<1>3. CASE SettleBroken
  BY <1>3, AbandonType DEF SettleBroken, TypeOK
<1>4. CASE DropStaleInterrupt
  BY <1>4 DEF DropStaleInterrupt
<1>5. CASE ForwardInterrupt \/ InterruptWait
  BY <1>5, AbandonType DEF ForwardInterrupt, InterruptWait, TypeOK
<1>6. CASE EndActiveTurn \/ EndBgTurn \/ BgStatus
  BY <1>6 DEF EndActiveTurn, EndBgTurn, BgStatus
<1>7. CASE PassResult \/ ReadNotice \/ Prompt \/ AutoAnswer
  BY <1>7 DEF PassResult, ReadNotice, Prompt, AutoAnswer
<1>8. CASE AutoAnswerBroken
  BY <1>8, AbandonType DEF AutoAnswerBroken, TypeOK
<1>9. CASE EndOfOutput
  BY <1>9, AbandonType DEF EndOfOutput, TypeOK
<1>10. CASE SoftTimeout \/ HardTimeout \/ WorkerExit
  BY <1>10 DEF SoftTimeout, HardTimeout, WorkerExit
<1>11. ASSUME NEW c \in pending, Resolve(c)
       PROVE  db' = db /\ (mode \in {"bg", "bgdone"} => mode' \in {"bg", "bgdone"})
  BY <1>11, AbandonType DEF Resolve, TypeOK
<1> QED BY <1>1, <1>2, <1>3, <1>4, <1>5, <1>6, <1>7, <1>8, <1>9, <1>10, <1>11
        DEF Worker, WorkerStep, Settle

\* Every step that takes the owner of a running status away writes the status.
LEMMA StatusStep ==
    ASSUME TypeOK, ReloadersArePrimary, StatusOwned, [Next]_vars
    PROVE  StatusOwned'
<1> USE DEF StatusOwned, Owner
<1>1. CASE db' = "idle"
  BY <1>1
<1>2. ASSUME UNCHANGED handlerVars, Worker \/ \E c \in pending : Resolve(c)
      PROVE  StatusOwned'
  BY <1>2, WorkerStatus DEF handlerVars
<1>3. ASSUME UNCHANGED <<db, primary, stage, mode, owed, stranded>>
      PROVE  StatusOwned'
  BY <1>3
<1>4. ASSUME NEW m \in Msgs, Handler(m) PROVE StatusOwned'
  <2>1. \A n \in Msgs \ {m} : stage'[n] = stage[n]
    BY <1>4, HandlerMoves
  <2>2. CASE OpenExisting(m) \/ OpenFails(m) \/ OpenDirect(m) \/ OpenSpawning(m)
    <3>1. stage[m] = "new" /\ UNCHANGED <<db, primary, owed, stranded>>
      BY <2>2 DEF OpenExisting, OpenFails, OpenDirect, OpenSpawning, workerVars
    <3>2. mode \in {"bg", "bgdone"} => mode' = mode
      BY <2>2 DEF OpenExisting, OpenFails, OpenDirect, OpenSpawning, workerVars, loopVars
    <3> QED BY <2>1, <3>1, <3>2 DEF TypeOK
  <2>3. CASE Acquire(m)
    <3>1. stage[m] = "opened" /\ stage'[m] = "acquired" /\ UNCHANGED <<owed, stranded, mode>>
      BY <2>3, MoveStage DEF Acquire, loopVars
    <3>2. CASE db = "running"
      <4>1. primary' = primary
        BY <2>3, <3>2 DEF Acquire
      <4> QED BY <2>1, <3>1, <3>2, <4>1 DEF TypeOK
    <3>3. CASE db # "running"
      <4>1. m \in primary'
        BY <2>3, <3>3 DEF Acquire
      <4> QED BY <3>1, <4>1
    <3> QED BY <3>2, <3>3
  <2>4. CASE Enqueue(m)
    <3>1. stage'[m] = "counting" /\ UNCHANGED <<db, primary, owed, stranded, mode>>
      BY <2>4, MoveStage DEF Enqueue, loopVars
    <3> QED BY <2>1, <3>1 DEF TypeOK
  <2>5. CASE EnqueueFails(m)
    <3>1. CASE m \in primary
      BY <2>5, <3>1, <1>1 DEF EnqueueFails
    <3>2. CASE m \notin primary
      <4>1. UNCHANGED <<db, primary, owed, stranded, mode>>
        BY <2>5, <3>2 DEF EnqueueFails, loopVars
      <4> QED BY <2>1, <3>2, <4>1 DEF TypeOK
    <3> QED BY <3>1, <3>2
  <2>6. CASE Count(m)
    <3>1. m \in primary => stage'[m] = "waiting"
      BY <2>6, MoveStage DEF Count
    <3>2. UNCHANGED <<db, primary, owed, stranded, mode>>
      BY <2>6 DEF Count, loopVars
    <3> QED BY <2>1, <3>1, <3>2 DEF TypeOK
  <2>7. CASE Finish(m)
    BY <2>7, <1>1 DEF Finish
  <2>8. CASE AcquireToReload(m)
    <3>1. stage'[m] = "reloading" /\ m \in primary'
      BY <2>8, MoveStage DEF AcquireToReload
    <3> QED BY <3>1
  <2>9. CASE ReloadKill(m) \/ Respawn(m)
    <3>1. stage'[m] \in {"respawning", "acquired"}
      BY <2>9, MoveStage DEF ReloadKill, Respawn
    <3>2. m \in primary /\ primary' = primary
      BY <2>9 DEF ReloadKill, Respawn, ReloadersArePrimary
    <3> QED BY <3>1, <3>2
  <2>10. CASE RespawnFails(m)
    BY <2>10 DEF RespawnFails
  <2> QED BY <1>4, <2>2, <2>3, <2>4, <2>5, <2>6, <2>7, <2>8, <2>9, <2>10 DEF Handler
<1>5. ASSUME NEW m \in Msgs, Recall(m) PROVE StatusOwned'
  BY <1>3, <1>5 DEF Recall, handlerVars, loopVars
<1>6. CASE Stop
  BY <1>3, <1>6 DEF Stop, loopVars
<1>7. CASE Kill \/ KillSilently
  BY <1>7 DEF Kill, KillSilently, KillSession
<1>8. CASE KillStatus
  BY <1>1, <1>8 DEF KillStatus
<1>9. CASE AllowAlways \/ (CliStep /\ UNCHANGED <<workerVars, handlerVars>>)
  BY <1>3, <1>9 DEF AllowAlways, workerVars, handlerVars, loopVars
<1>10. CASE UNCHANGED vars
  BY <1>3, <1>10 DEF vars, workerVars, handlerVars, loopVars
<1>11. CASE Worker /\ UNCHANGED handlerVars
  BY <1>2, <1>11
<1>12. CASE (\E c \in pending : Resolve(c)) /\ UNCHANGED handlerVars
  BY <1>2, <1>12
<1> QED BY <1>4, <1>5, <1>6, <1>7, <1>8, <1>9, <1>10, <1>11, <1>12 DEF Next
-----------------------------------------------------------------------------
(***************************************************************************)
(* No request is forgotten: where it is, line by line.                     *)
(***************************************************************************)
Has(q, l) == \E i \in 1..Len(q) : q[i] = l

Asked(c) == Has(stdout, Line("request", {c}))
Answered(c) == Has(inbox, Line("answer", {c}))
Seen(c) == c \in pending \/ Asked(c) \/ Answered(c) \/ Line("request", {c}) \in lost

\* Only a living process waits, and for nothing that is out of sight.
Living == waiting # {} => alive
SightInv == Living /\ \A c \in waiting : Seen(c)

\* A line that is added to a pipe is in it, with all that was there.
LEMMA HasAppend ==
    ASSUME NEW S, NEW q \in Seq(S), NEW e \in S, NEW l
    PROVE  /\ Has(Append(q, e), e)
           /\ Has(q, l) => Has(Append(q, e), l)
<1>1. Append(q, e)[Len(q) + 1] = e /\ Len(Append(q, e)) = Len(q) + 1 /\ Len(q) \in Nat
  OBVIOUS
<1>2. ASSUME NEW i \in 1..Len(q) PROVE i \in 1..Len(Append(q, e)) /\ Append(q, e)[i] = q[i]
  OBVIOUS
<1>3. Len(q) + 1 \in 1..Len(Append(q, e))
  BY <1>1
<1> QED BY <1>1, <1>2, <1>3 DEF Has

\* So it is with several lines.
LEMMA HasConcat ==
    ASSUME NEW S, NEW q \in Seq(S), NEW r \in Seq(S), NEW l
    PROVE  (Has(q, l) \/ Has(r, l)) => Has(q \o r, l)
<1>1. Len(q \o r) = Len(q) + Len(r) /\ Len(q) \in Nat /\ Len(r) \in Nat
  OBVIOUS
<1>2. ASSUME NEW i \in 1..Len(q) PROVE i \in 1..Len(q \o r) /\ (q \o r)[i] = q[i]
  OBVIOUS
<1>3. ASSUME NEW i \in 1..Len(r)
      PROVE  Len(q) + i \in 1..Len(q \o r) /\ (q \o r)[Len(q) + i] = r[i]
  OBVIOUS
<1> QED BY <1>2, <1>3 DEF Has

\* Reading the head loses the head only.
LEMMA HasTail ==
    ASSUME NEW S, NEW q \in Seq(S), q # <<>>, NEW l, Has(q, l)
    PROVE  l = Head(q) \/ Has(Tail(q), l)
<1>1. PICK i \in 1..Len(q) : q[i] = l
  BY DEF Has
<1>2. CASE i = 1
  BY <1>1, <1>2
<1>3. CASE i # 1
  <2>1. i - 1 \in 1..Len(Tail(q)) /\ Tail(q)[i - 1] = q[i]
    BY <1>3
  <2> QED BY <1>1, <2>1 DEF Has
<1> QED BY <1>2, <1>3

\* A read that is dropped loses its line to the history.
LEMMA DropKeeps ==
    ASSUME CliTypeOK, DropRead, NEW c, Asked(c) \/ Line("request", {c}) \in lost
    PROVE  Asked(c)' \/ Line("request", {c}) \in lost'
<1>1. CASE UNCHANGED <<stdout, lost>>
  BY <1>1 DEF Asked
<1>2. CASE stdout # <<>> /\ stdout' = Tail(stdout) /\ lost' = lost \cup {Head(stdout)}
  BY <1>2, HasTail DEF CliTypeOK, Asked
<1> QED BY <1>1, <1>2 DEF DropRead

\* A read that is not takes that one line.
LEMMA ReadKeeps ==
    ASSUME CliTypeOK, NEW kind, Reads(kind), NEW c, Asked(c)
    PROVE  Asked(c)' \/ (kind = "request" /\ Head(stdout).of = {c})
<1>1. Line("request", {c}) = Head(stdout) => kind = "request" /\ Head(stdout).of = {c}
  BY DEF Reads, Line
<1> QED BY <1>1, HasTail DEF CliTypeOK, Asked, Reads

\* What is written stays written.
LEMMA WriteKeeps ==
    ASSUME CliTypeOK, NEW l \in Inputs, Write(l), NEW c
    PROVE  /\ Answered(c) => Answered(c)'
           /\ l = Line("answer", {c}) => Answered(c)'
BY HasAppend DEF CliTypeOK, Answered, Write

\* The denials of an interrupted wait answer all that was pending.
LEMMA DenialsAnswer ==
    ASSUME TypeOK, NEW denial \in [1..Cardinality(pending) -> pending],
           {denial[i] : i \in DOMAIN denial} = pending,
           inbox' = inbox \o [i \in DOMAIN denial |-> Line("answer", {denial[i]})],
           NEW c, c \in pending \/ Answered(c)
    PROVE  Answered(c)'
<1> DEFINE answers == [i \in DOMAIN denial |-> Line("answer", {denial[i]})]
<1>1. Cardinality(pending) \in Nat
  <2>1. IsFiniteSet(pending)
    BY CliAssumption, FS_Subset DEF TypeOK, WorkerTypeOK
  <2> QED BY <2>1, FS_CardinalityType
<1>2. ASSUME NEW i \in DOMAIN denial PROVE Line("answer", {denial[i]}) \in Inputs
  <2>1. {denial[i]} \in SUBSET Requests
    BY DEF TypeOK, WorkerTypeOK
  <2> QED BY <2>1, LineType
<1>3. DOMAIN denial = 1..Cardinality(pending)
  OBVIOUS
<1>4. answers \in [1..Cardinality(pending) -> Inputs]
  BY <1>2, <1>3
<1>5. answers \in Seq(Inputs) /\ Len(answers) = Cardinality(pending)
  <2> HIDE DEF answers
  <2> QED BY <1>1, <1>4
<1>6. c \in pending => Has(answers, Line("answer", {c}))
  <2>1. SUFFICES ASSUME c \in pending PROVE Has(answers, Line("answer", {c}))
    OBVIOUS
  <2>2. PICK i \in DOMAIN denial : denial[i] = c
    BY <2>1
  <2>3. answers[i] = Line("answer", {c}) /\ i \in 1..Len(answers)
    BY <1>3, <1>5, <2>2
  <2> QED BY <2>3 DEF Has
<1>7. inbox \in Seq(Inputs) /\ inbox' = inbox \o answers
  BY DEF TypeOK, CliTypeOK
<1> HIDE DEF answers
<1>8. Has(inbox, Line("answer", {c})) \/ Has(answers, Line("answer", {c}))
  BY <1>6 DEF Answered
<1>9. Has(inbox \o answers, Line("answer", {c}))
  BY <1>5, <1>7, <1>8, HasConcat
<1> QED BY <1>7, <1>9 DEF Answered

\* The worker lets go of a request only when it has answered it.
LEMMA WorkerSees ==
    ASSUME TypeOK, alive, NEW c, Seen(c), WorkerStep \/ \E d \in pending : Resolve(d)
    PROVE  Seen(c)'
<1> USE DEF TypeOK
<1>1. ASSUME UNCHANGED <<pending, stdout, lost>>,
             inbox' = inbox \/ \E l \in Inputs : Write(l)
      PROVE  Seen(c)'
  BY <1>1, WriteKeeps DEF Seen, Asked, Answered
<1>2. ASSUME pending \subseteq pending', DropRead,
             inbox' = inbox \/ \E l \in Inputs : Write(l)
      PROVE  Seen(c)'
  <2>1. Answered(c) => Answered(c)'
    BY <1>2, WriteKeeps DEF Answered
  <2> QED BY <1>2, <2>1, DropKeeps DEF Seen
<1>3. ASSUME NEW kind, Reads(kind), kind # "request", UNCHANGED <<pending, inbox, lost>>
      PROVE  Seen(c)'
  <2>1. Asked(c) => Asked(c)'
    BY <1>3, ReadKeeps
  <2> QED BY <1>3, <2>1 DEF Seen, Answered
<1>4. CASE Receive \/ DropStaleInterrupt
  BY <1>2, <1>4 DEF Receive, DropStaleInterrupt, loopVars
<1>5. CASE Settle
  <2>1. CASE SkipRecalled \/ SettleBroken
    BY <1>1, <2>1 DEF SkipRecalled, SettleBroken, cliVars, history
  <2>2. CASE StartTurn \/ Inject
    <3>1. hand \in Msgs
      BY <2>2 DEF StartTurn, Inject, WorkerTypeOK
    <3>2. Line("user", {hand}) \in Inputs
      BY <3>1, LineType
    <3> QED BY <1>1, <2>2, <3>2 DEF StartTurn, Inject, Untouched
  <2> QED BY <1>5, <2>1, <2>2 DEF Settle
<1>6. CASE ForwardInterrupt
  BY <1>2, <1>6, LineType DEF ForwardInterrupt, loopVars
<1>7. CASE InterruptWait
  <2>1. DropRead
    BY <1>7 DEF InterruptWait
  <2>2. PICK denial \in [1..Cardinality(pending) -> pending] :
          /\ {denial[i] : i \in DOMAIN denial} = pending
          /\ inbox' = inbox \o [i \in DOMAIN denial |-> Line("answer", {denial[i]})]
    BY <1>7 DEF InterruptWait
  <2>3. c \in pending \/ Answered(c) => Answered(c)'
    BY <2>2, DenialsAnswer
  <2> QED BY <2>1, <2>3, DropKeeps DEF Seen
<1>8. CASE EndActiveTurn \/ EndBgTurn \/ PassResult \/ ReadNotice
  BY <1>3, <1>8 DEF EndActiveTurn, EndBgTurn, PassResult, ReadNotice, loopVars, history
<1>9. CASE BgStatus
  BY <1>1, <1>9 DEF BgStatus, cliVars, history
<1>10. CASE Prompt
  <2>1. UNCHANGED <<inbox, lost>> /\ pending' = pending \cup Head(stdout).of
    BY <1>10 DEF Prompt, history
  <2>2. Asked(c) => Asked(c)' \/ c \in pending'
    BY <1>10, <2>1, ReadKeeps DEF Prompt
  <2> QED BY <2>1, <2>2 DEF Seen, Answered
<1>11. CASE AutoAnswer
  <2>1. Line("answer", Head(stdout).of) \in Inputs
    BY <1>11, HeadOfStdout, LineType DEF AutoAnswer, Reads
  <2>2. Asked(c) => Asked(c)' \/ Head(stdout).of = {c}
    BY <1>11, ReadKeeps DEF AutoAnswer
  <2>3. /\ Answered(c) => Answered(c)'
        /\ Head(stdout).of = {c} => Answered(c)'
    BY <1>11, <2>1, WriteKeeps DEF AutoAnswer
  <2>4. UNCHANGED <<pending, lost>>
    BY <1>11 DEF AutoAnswer, loopVars, history
  <2> QED BY <2>2, <2>3, <2>4 DEF Seen
<1>12. CASE AutoAnswerBroken \/ EndOfOutput
  BY <1>12 DEF AutoAnswerBroken, EndOfOutput
<1>13. CASE SoftTimeout \/ HardTimeout
  BY <1>2, <1>13, LineType DEF SoftTimeout, HardTimeout
<1>14. ASSUME NEW d \in pending, Resolve(d) PROVE Seen(c)'
  <2>1. DropRead /\ Write(Line("answer", {d})) /\ pending' = pending \ {d}
    BY <1>14 DEF Resolve
  <2>2. Line("answer", {d}) \in Inputs
    BY LineType DEF WorkerTypeOK
  <2>3. (Answered(c) \/ c = d) => Answered(c)'
    BY <2>1, <2>2, WriteKeeps
  <2> QED BY <2>1, <2>3, DropKeeps DEF Seen
<1> QED BY <1>4, <1>5, <1>6, <1>7, <1>8, <1>9, <1>10, <1>11, <1>12, <1>13, <1>14 DEF WorkerStep

\* The process stops waiting when it reads the answer, and asks in its output.
LEMMA CliSees ==
    ASSUME TypeOK, SightInv, CliStep, UNCHANGED workerVars
    PROVE  SightInv'
<1> USE DEF TypeOK
<1>1. UNCHANGED <<pending, lost>>
  BY DEF workerVars, loopVars, history
<1>2. ASSUME NEW c, Asked(c), stdout' = stdout \/ \E l \in Lines : stdout' = Append(stdout, l)
      PROVE  Asked(c)'
  <2>1. CASE stdout' = stdout
    BY <1>2, <2>1 DEF Asked
  <2>2. ASSUME NEW l \in Lines, stdout' = Append(stdout, l) PROVE Asked(c)'
    BY <1>2, <2>2, HasAppend DEF Asked, CliTypeOK
  <2> QED BY <1>2, <2>1, <2>2
<1>3. ASSUME inbox # <<>>, inbox' = Tail(inbox), NEW c, Answered(c)
      PROVE  Answered(c)' \/ Head(inbox) = Line("answer", {c})
  BY <1>3, HasTail DEF Answered, CliTypeOK
<1>4. CASE ReadUser
  <2>1. \A c : Head(inbox) # Line("answer", {c})
    BY <1>4 DEF ReadUser, Line
  <2>2. ASSUME NEW c \in waiting PROVE Seen(c)'
    BY <1>1, <1>2, <1>3, <1>4, <2>1 DEF ReadUser, SightInv, Seen
  <2> QED BY <1>4, <2>2 DEF ReadUser, SightInv, Living
<1>5. CASE ReadAnswer
  <2>1. ASSUME NEW c \in waiting' PROVE Seen(c)'
    <3>1. Head(inbox) # Line("answer", {c}) /\ Seen(c)
      BY <1>5, <2>1 DEF ReadAnswer, Line, SightInv
    <3> QED BY <1>1, <1>2, <1>3, <1>5, <3>1 DEF ReadAnswer, Seen
  <2> QED BY <1>5, <2>1 DEF ReadAnswer, SightInv, Living
<1>6. CASE ReadInterrupt \/ Exit
  BY <1>6 DEF ReadInterrupt, Exit, SightInv, Living
<1>7. ASSUME NEW d \in Requests, Ask(d) PROVE SightInv'
  <2>1. alive /\ alive' = alive /\ inbox' = inbox /\ waiting' = waiting \cup {d}
    BY <1>7 DEF Ask, CanPrint
  <2>2. Line("request", {d}) \in Lines /\ stdout' = Append(stdout, Line("request", {d}))
    BY <1>7, LineType DEF Ask
  <2>3. Asked(d)'
    BY <2>2, HasAppend DEF Asked, CliTypeOK
  <2>4. ASSUME NEW c \in waiting PROVE Seen(c)'
    BY <1>1, <1>2, <2>1, <2>2 DEF SightInv, Seen, Answered
  <2> QED BY <2>1, <2>3, <2>4 DEF SightInv, Living, Seen
<1>8. CASE FinishTurn
  BY <1>8 DEF FinishTurn, SightInv, Living
<1>9. CASE Announce
  <2>1. alive /\ UNCHANGED <<alive, inbox, waiting>>
    BY <1>9 DEF Announce, CanPrint
  <2>2. Line("notice", {}) \in Lines /\ stdout' = Append(stdout, Line("notice", {}))
    BY <1>9, LineType DEF Announce
  <2>3. ASSUME NEW c \in waiting PROVE Seen(c)'
    BY <1>1, <1>2, <2>1, <2>2 DEF SightInv, Seen, Answered
  <2> QED BY <2>1, <2>3 DEF SightInv, Living
<1> QED BY <1>4, <1>5, <1>6, <1>7, <1>8, <1>9 DEF CliStep

\* Only the process itself, and its death, change what it waits for.
LEMMA WorkerWaits ==
    ASSUME WorkerStep \/ \E d \in pending : Resolve(d)
    PROVE  UNCHANGED <<alive, waiting>>
<1> USE DEF cliVars, Untouched
<1>1. CASE Receive \/ DropStaleInterrupt \/ ForwardInterrupt \/ InterruptWait
  BY <1>1 DEF Receive, DropStaleInterrupt, ForwardInterrupt, InterruptWait
<1>2. CASE Settle
  BY <1>2 DEF Settle, SkipRecalled, StartTurn, Inject, SettleBroken
<1>3. CASE EndActiveTurn \/ EndBgTurn \/ BgStatus \/ PassResult \/ ReadNotice
  BY <1>3 DEF EndActiveTurn, EndBgTurn, BgStatus, PassResult, ReadNotice
<1>4. CASE Prompt \/ AutoAnswer \/ AutoAnswerBroken
  BY <1>4 DEF Prompt, AutoAnswer, AutoAnswerBroken
<1>5. CASE EndOfOutput \/ SoftTimeout \/ HardTimeout
  BY <1>5 DEF EndOfOutput, SoftTimeout, HardTimeout
<1>6. ASSUME NEW d \in pending, Resolve(d) PROVE UNCHANGED <<alive, waiting>>
  BY <1>6 DEF Resolve
<1> QED BY <1>1, <1>2, <1>3, <1>4, <1>5, <1>6 DEF WorkerStep

\* Every step keeps the requests of a living process in sight.
LEMMA SightStep ==
    ASSUME TypeOK, SightInv, [Next]_vars
    PROVE  SightInv'
<1>1. ASSUME waiting' = {} PROVE SightInv'
  BY <1>1 DEF SightInv, Living
<1>2. ASSUME UNCHANGED <<alive, waiting, pending, stdout, inbox, lost>> PROVE SightInv'
  BY <1>2 DEF SightInv, Living, Seen, Asked, Answered
<1>3. ASSUME WorkerStep \/ \E d \in pending : Resolve(d) PROVE SightInv'
  <2>1. UNCHANGED <<alive, waiting>>
    BY <1>3, WorkerWaits
  <2>2. ASSUME NEW c \in waiting PROVE Seen(c)'
    BY <1>3, WorkerSees DEF SightInv, Living
  <2> QED BY <2>1, <2>2 DEF SightInv, Living
<1>4. CASE Worker /\ UNCHANGED handlerVars
  BY <1>1, <1>3, <1>4 DEF Worker, WorkerExit, EndSession, CliKill
<1>5. ASSUME NEW m \in Msgs, Handler(m) PROVE SightInv'
  <2> USE DEF cliVars, workerVars, loopVars, history
  <2>1. CASE OpenSpawning(m) \/ Respawn(m)
    BY <1>1, <2>1 DEF OpenSpawning, Respawn, CliSpawn
  <2>2. CASE ReloadKill(m)
    BY <1>1, <2>2 DEF ReloadKill, KillSession, EndSession, CliKill
  <2>3. CASE OpenExisting(m) \/ OpenFails(m) \/ OpenDirect(m) \/ RespawnFails(m)
    BY <1>2, <2>3 DEF OpenExisting, OpenFails, OpenDirect, RespawnFails
  <2>4. CASE Acquire(m) \/ AcquireToReload(m) \/ Finish(m)
    BY <1>2, <2>4 DEF Acquire, AcquireToReload, Finish
  <2>5. CASE Enqueue(m) \/ EnqueueFails(m) \/ Count(m)
    BY <1>2, <2>5 DEF Enqueue, EnqueueFails, Count
  <2> QED BY <1>5, <2>1, <2>2, <2>3, <2>4, <2>5 DEF Handler
<1>6. CASE Kill \/ KillSilently
  BY <1>1, <1>6 DEF Kill, KillSilently, KillSession, EndSession, CliKill
<1>7. CASE Stop \/ KillStatus \/ AllowAlways \/ (\E m \in Msgs : Recall(m)) \/ UNCHANGED vars
  BY <1>2, <1>7 DEF Stop, KillStatus, AllowAlways, Recall, vars, cliVars, workerVars,
                    loopVars, history
<1>8. CASE CliStep /\ UNCHANGED <<workerVars, handlerVars>>
  BY <1>8, CliSees
<1> QED BY <1>3, <1>4, <1>5, <1>6, <1>7, <1>8 DEF Next
-----------------------------------------------------------------------------
\* The invariant holds before the first message.
LEMMA TurnInvInit == Init => TurnInv
<1> SUFFICES ASSUME Init PROVE TurnInv
  OBVIOUS
<1>1. TypeOK
  BY TypeInit
<1>2. Dispatching = {} /\ SessionsFree
  BY DEF Init, Dispatching, SessionsFree
<1>3. OneDispatch /\ NoSessionIsEmpty /\ ReloadersArePrimary
  BY <1>2 DEF Init, WorkerInit, OneDispatch, NoSessionIsEmpty, ReloadersArePrimary
<1>4. SentBeforeTaken
  <2>1. Queued = {} /\ hand = NoMsg /\ delivered = {}
    BY DEF Init, WorkerInit, Queued
  <2> QED BY <2>1, CliAssumption DEF SentBeforeTaken
<1>5. QueueAccounting
  BY WorkerAssumption DEF Init, WorkerInit, QueueAccounting, Load
<1>6. RecallIsFinal /\ StatusOwned
  BY DEF Init, WorkerInit, RecallIsFinal, StatusOwned
<1> QED BY <1>1, <1>3, <1>4, <1>5, <1>6 DEF TurnInv

\* The inductive invariant holds in every reachable state of a thread: its
\* types, the single dispatch under the lock and the three guarantees below.
THEOREM TurnInvariant == Spec => []TurnInv
<1>1. TurnInv /\ [Next]_vars => TurnInv'
  BY TypeStep, OneDispatchStep, NoSessionStep, SentStep, ReloadersStep, AccountingStep,
     RecallStep, StatusStep DEF TurnInv
<1> QED BY <1>1, TurnInvInit, PTL DEF Spec

\* Whatever the worker, its process and the users do, queue_size agrees with
\* the queue for any sender that looks at it, although its decrement may come
\* before its increment and wrap below zero.
THEOREM QueueSizeIsRight == Spec => []QueueAccounting
<1>1. TurnInv => QueueAccounting
  BY DEF TurnInv
<1> QED BY <1>1, TurnInvariant, PTL

\* A message the user was told is recalled is never written to the process.
THEOREM RecallsAreFinal == Spec => []RecallIsFinal
<1>1. TurnInv => RecallIsFinal
  BY DEF TurnInv
<1> QED BY <1>1, TurnInvariant, PTL

\* A thread is left running with nobody to write its status back only by a
\* respawn that failed or by the silent kill of a background turn.
THEOREM StatusHasAnOwner == Spec => []StatusOwned
<1>1. TurnInv => StatusOwned
  BY DEF TurnInv
<1> QED BY <1>1, TurnInvariant, PTL

\* A living process never waits for a request the worker forgot: in whatever way
\* a wait is interrupted, broken off or ended, the worker answers what it leaves,
\* and only a request whose line was torn can be missing.
THEOREM RequestsStayInSight == Spec => []NoOrphanRequest
<1>1. Init => SightInv
  BY DEF Init, CliInit, SightInv, Living
<1>2. TypeOK /\ SightInv /\ [Next]_vars => SightInv'
  BY SightStep
<1>3. SightInv => NoOrphanRequest
  BY DEF SightInv, Seen, Asked, Answered, Has, NoOrphanRequest, InSight
<1>4. TurnInv => TypeOK
  BY DEF TurnInv
<1> QED BY <1>1, <1>2, <1>3, <1>4, TurnInvariant, PTL DEF Spec
-----------------------------------------------------------------------------
(***************************************************************************)
(* The line that the authors of the messages see (ThreadQueue).  First     *)
(* what every step does to it and to the answers, then the invariant that  *)
(* this needs, then the steps of the abstract line.                        *)
(***************************************************************************)

\* The answers of a step of the worker that is none of the line's: nothing, the end of
\* the active turn without a result, or its result.
TurnAnswers ==
    \/ UNCHANGED <<events, turnOf>>
    \/ turnOf' = NoMsg /\ DropSenders({turnOf})
    \/ /\ turnOf # NoMsg /\ turnOf' \in {turnOf, NoMsg}
       /\ events' = [events EXCEPT ![turnOf] = "result"]

\* What is in line is of the thread, and no longer than its load.
LEMMA LineTypes ==
    ASSUME TypeOK
    PROVE  /\ WaitingLine \in Seq(Msgs)
           /\ Len(WaitingLine) = Load
           /\ hand # NoMsg => Head(WaitingLine) = hand /\ Tail(WaitingLine) = queue
           /\ hand # NoMsg => WaitingLine # <<>>
           /\ hand = NoMsg => WaitingLine = queue
<1>1. queue \in Seq(Msgs) /\ hand \in Msgs \cup {NoMsg}
  BY DEF TypeOK, WorkerTypeOK
<1>2. CASE hand = NoMsg
  BY <1>1, <1>2 DEF WaitingLine, Load
<1>3. CASE hand # NoMsg
  <2>1. WaitingLine = <<hand>> \o queue /\ hand \in Msgs
    BY <1>1, <1>3 DEF WaitingLine
  <2>2. Len(WaitingLine) = Len(queue) + 1 /\ WaitingLine \in Seq(Msgs)
    BY <1>1, <2>1
  <2>3. Head(WaitingLine) = hand /\ Tail(WaitingLine) = queue
    BY <1>1, <2>1
  <2>4. WaitingLine # <<>>
    BY <1>1, <2>2
  <2> QED BY <1>3, <2>2, <2>3, <2>4 DEF Load
<1> QED BY <1>2, <1>3

\* An abandoned turn lets its own handler go, and that of a message that goes with it.
LEMMA AbandonAnswers ==
    ASSUME TypeOK, AbandonTurn(NoMsg)
    PROVE  TurnAnswers
<1>1. \A m \in Msgs : m \in {turnOf, NoMsg} <=> m \in {turnOf}
  BY CliAssumption
<1>2. DropSenders({turnOf})
  BY <1>1 DEF AbandonTurn, DropSenders
<1> QED BY <1>2 DEF AbandonTurn, TurnAnswers

\* Most steps of the worker only end the turn or answer it.
LEMMA QuietAnswers ==
    ASSUME TypeOK,
           \/ DropStaleInterrupt \/ ForwardInterrupt \/ InterruptWait
           \/ EndActiveTurn \/ EndBgTurn \/ BgStatus \/ PassResult
           \/ ReadNotice \/ Prompt \/ AutoAnswer \/ AutoAnswerBroken
           \/ EndOfOutput \/ SoftTimeout \/ HardTimeout
           \/ \E c \in pending : Resolve(c)
    PROVE  TurnAnswers
<1> USE DEF loopVars
<1>1. CASE DropStaleInterrupt \/ EndBgTurn \/ BgStatus \/ ReadNotice \/ Prompt \/ AutoAnswer
           \/ SoftTimeout
  BY <1>1 DEF DropStaleInterrupt, EndBgTurn, BgStatus, ReadNotice, Prompt, AutoAnswer,
              SoftTimeout, TurnAnswers
<1>2. CASE ForwardInterrupt
  <2>1. UNCHANGED <<loopVars, events>> \/ AbandonTurn(NoMsg)
    BY <1>2 DEF ForwardInterrupt
  <2> QED BY <2>1, AbandonAnswers DEF TurnAnswers
<1>3. CASE InterruptWait \/ AutoAnswerBroken
  BY <1>3, AbandonAnswers DEF InterruptWait, AutoAnswerBroken
<1>4. CASE EndActiveTurn
  <2>1. turnOf # NoMsg
    BY <1>4 DEF EndActiveTurn, TypeOK, WorkerTypeOK
  <2> QED BY <1>4, <2>1 DEF EndActiveTurn, TurnAnswers
<1>5. CASE PassResult
  <2>1. CASE mode = "active" /\ events[turnOf] = "open"
    <3>1. turnOf # NoMsg
      BY <2>1 DEF TypeOK, WorkerTypeOK
    <3> QED BY <1>5, <2>1, <3>1 DEF PassResult, TurnAnswers
  <2>2. CASE ~(mode = "active" /\ events[turnOf] = "open")
    BY <1>5, <2>2 DEF PassResult, TurnAnswers
  <2> QED BY <2>1, <2>2
<1>6. CASE EndOfOutput
  BY <1>6, AbandonAnswers DEF EndOfOutput, TurnAnswers
<1>7. CASE HardTimeout
  BY <1>7 DEF HardTimeout, TurnAnswers
<1>8. ASSUME NEW c \in pending, Resolve(c) PROVE TurnAnswers
  <2>1. UNCHANGED <<turnOf, events>> \/ AbandonTurn(NoMsg)
    BY <1>8 DEF Resolve
  <2> QED BY <2>1, AbandonAnswers DEF TurnAnswers
<1> QED BY <1>1, <1>2, <1>3, <1>4, <1>5, <1>6, <1>7, <1>8

\* Every step is one of these, as far as the line and the answers go.
Waits ==
    UNCHANGED <<queue, hand, delivered, recalls, cancelled>> /\ TurnAnswers
Ends ==
    /\ queue' = <<>> /\ hand' = NoMsg /\ turnOf' = NoMsg
    /\ DropSenders(Queued \cup {hand, turnOf})
    /\ recalls' \subseteq recalls /\ UNCHANGED <<delivered, cancelled>>

LEMMA LineSteps ==
    ASSUME TypeOK, [Next]_vars
    PROVE  \/ Waits /\ UNCHANGED stage
           \/ (Receive \/ Settle) /\ UNCHANGED stage
           \/ Ends /\ UNCHANGED stage
           \/ \E m \in Msgs : Recall(m)
           \/ \E m \in Msgs : Handler(m) /\ (Waits \/ Ends \/ Enqueue(m))
<1> USE DEF Waits, handlerVars
<1>1. CASE Worker /\ UNCHANGED handlerVars
  <2>1. CASE Receive \/ Settle
    BY <1>1, <2>1
  <2>2. CASE WorkerExit
    BY <1>1, <2>2 DEF WorkerExit, EndSession, Ends, recallVars
  <2>3. CASE ~(Receive \/ Settle \/ WorkerExit)
    <3>1. Quiet /\ TurnAnswers
      BY <1>1, <2>3, QuietSteps, QuietAnswers DEF Worker, WorkerStep
    <3> QED BY <1>1, <3>1 DEF Quiet
  <2> QED BY <2>1, <2>2, <2>3
<1>2. CASE (\E c \in pending : Resolve(c)) /\ UNCHANGED handlerVars
  <2>1. Quiet /\ TurnAnswers
    BY <1>2, QuietSteps, QuietAnswers
  <2> QED BY <1>2, <2>1 DEF Quiet
<1>3. CASE \/ CliStep /\ UNCHANGED <<workerVars, handlerVars>>
           \/ Stop \/ KillStatus \/ AllowAlways \/ UNCHANGED vars
  BY <1>3 DEF Stop, KillStatus, AllowAlways, vars, workerVars, loopVars, queueVars, recallVars,
              TurnAnswers
<1>4. KillSession => Ends
  BY DEF KillSession, EndSession, Ends
<1>5. CASE Kill \/ KillSilently
  BY <1>4, <1>5 DEF Kill, KillSilently
<1>6. ASSUME NEW m \in Msgs, Handler(m) PROVE Waits \/ Ends \/ Enqueue(m)
  <2> USE DEF loopVars, queueVars, recallVars, workerVars, TurnAnswers
  <2>1. CASE OpenExisting(m) \/ OpenSpawning(m) \/ OpenFails(m) \/ OpenDirect(m)
    BY <2>1 DEF OpenExisting, OpenSpawning, OpenFails, OpenDirect
  <2>2. CASE Acquire(m) \/ AcquireToReload(m) \/ Respawn(m) \/ RespawnFails(m)
    BY <2>2, CliAssumption DEF Acquire, AcquireToReload, Respawn, RespawnFails
  <2>3. CASE ReloadKill(m)
    BY <1>4, <2>3 DEF ReloadKill
  <2>4. CASE EnqueueFails(m) \/ Count(m) \/ Finish(m)
    BY <2>4 DEF EnqueueFails, Count, Finish
  <2> QED BY <1>6, <2>1, <2>2, <2>3, <2>4 DEF Handler
<1> QED BY <1>1, <1>2, <1>3, <1>5, <1>6 DEF Next
-----------------------------------------------------------------------------
\* Stages of the messages that were accepted.
SentStages == {"counting", "waiting", "done"}

\* The line holds each message once, and none that was delivered.
LineOnce ==
    /\ \A i, j \in 1..Len(WaitingLine) : WaitingLine[i] = WaitingLine[j] => i = j
    /\ \A i \in 1..Len(WaitingLine) : WaitingLine[i] \notin delivered

\* The turn that runs answers a message that was delivered and may still be answered.
TurnIsOwed ==
    turnOf # NoMsg => turnOf \in delivered /\ events[turnOf] \in {"open", "result"}

InWaiting(m) == \E i \in 1..Len(WaitingLine) : WaitingLine[i] = m

\* Whoever waits for an answer has a message in line or the turn that runs.
OpenIsHeld == \A m \in Msgs : events[m] = "open" => InWaiting(m) \/ m = turnOf

\* What was recalled or has an event channel was accepted.
AcceptedFirst ==
    \A m \in Msgs : m \in recalls \cup cancelled \/ events[m] # "none" => stage[m] \in SentStages

LineInd == LineOnce /\ TurnIsOwed /\ OpenIsHeld /\ AcceptedFirst

\* What the steps do to the line: a message that is received stays its first, one that
\* is settled leaves it, one that is enqueued is its last.
LEMMA LineMoves ==
    ASSUME TypeOK, TypeOK'
    PROVE  /\ Receive => WaitingLine' = WaitingLine
           /\ Settle => /\ hand \in Msgs /\ WaitingLine # <<>> /\ hand = Head(WaitingLine)
                        /\ WaitingLine' = Tail(WaitingLine)
           /\ \A m \in Msgs : Enqueue(m) => WaitingLine' = Append(WaitingLine, m)
           /\ queue' = <<>> /\ hand' = NoMsg => WaitingLine' = <<>>
           /\ UNCHANGED <<queue, hand>> => WaitingLine' = WaitingLine
<1>1. queue \in Seq(Msgs) /\ hand \in Msgs \cup {NoMsg}
  BY DEF TypeOK, WorkerTypeOK
<1>2. ASSUME Receive PROVE WaitingLine' = WaitingLine
  <2>1. hand = NoMsg /\ hand' = Head(queue) /\ hand' # NoMsg /\ queue' = Tail(queue) /\ queue # <<>>
    BY <1>2, ReceiveType, CliAssumption DEF Receive, InLoop
  <2>2. WaitingLine = queue /\ WaitingLine' = <<Head(queue)>> \o Tail(queue)
    BY <2>1 DEF WaitingLine
  <2>3. <<Head(queue)>> \o Tail(queue) = queue
    BY <1>1, <2>1
  <2> QED BY <2>2, <2>3
<1>3. ASSUME Settle
      PROVE  /\ hand \in Msgs /\ WaitingLine # <<>> /\ hand = Head(WaitingLine)
             /\ WaitingLine' = Tail(WaitingLine)
  <2>1. hand # NoMsg /\ hand' = NoMsg /\ queue' = queue
    BY <1>3, SettleMoves DEF Uncount
  <2>2. WaitingLine' = queue
    BY <2>1 DEF WaitingLine
  <2> QED BY <1>1, <2>1, <2>2, LineTypes
<1>4. ASSUME NEW m \in Msgs, Enqueue(m) PROVE WaitingLine' = Append(WaitingLine, m)
  <2>1. queue' = Append(queue, m) /\ hand' = hand
    BY <1>4 DEF Enqueue, loopVars
  <2>2. CASE hand = NoMsg
    BY <2>1, <2>2 DEF WaitingLine
  <2>3. CASE hand # NoMsg
    <3>1. WaitingLine' = <<hand>> \o Append(queue, m) /\ WaitingLine = <<hand>> \o queue
      BY <2>1, <2>3 DEF WaitingLine
    <3>2. hand \in Msgs
      BY <1>1, <2>3
    <3>3. <<hand>> \o Append(queue, m) = Append(<<hand>> \o queue, m)
      BY <1>1, <3>2
    <3> QED BY <3>1, <3>3
  <2> QED BY <2>2, <2>3
<1>5. queue' = <<>> /\ hand' = NoMsg => WaitingLine' = <<>>
  BY DEF WaitingLine
<1>6. UNCHANGED <<queue, hand>> => WaitingLine' = WaitingLine
  BY DEF WaitingLine
<1> QED BY <1>2, <1>3, <1>4, <1>5, <1>6

\* A settled message was skipped, starts a turn, joins what runs, or could not be written.
LEMMA SettleAnswers ==
    ASSUME TypeOK, Settle
    PROVE  /\ UNCHANGED cancelled /\ recalls' \subseteq recalls
           /\ \/ /\ UNCHANGED <<delivered, turnOf>> /\ DropSenders({hand})
              \/ /\ UNCHANGED delivered
                 /\ turnOf' = NoMsg /\ DropSenders({turnOf, hand})
              \/ /\ hand \notin cancelled /\ delivered' = delivered \cup {hand}
                 /\ UNCHANGED turnOf /\ DropSenders({hand})
              \/ /\ hand \notin cancelled /\ delivered' = delivered \cup {hand}
                 /\ turnOf = NoMsg /\ turnOf' = hand /\ UNCHANGED events
                 /\ events[hand] = "open"
<1>1. UNCHANGED cancelled /\ recalls' \subseteq recalls
  BY SettleMoves DEF Uncount
<1>2. CASE SkipRecalled
  BY <1>1, <1>2 DEF SkipRecalled
<1>3. CASE StartTurn
  <2>1. turnOf = NoMsg
    BY <1>3 DEF StartTurn, TypeOK, WorkerTypeOK
  <2> QED BY <1>1, <1>3, <2>1 DEF StartTurn
<1>4. CASE Inject
  BY <1>1, <1>4 DEF Inject
<1>5. CASE SettleBroken
  BY <1>1, <1>5 DEF SettleBroken, AbandonTurn
<1> QED BY <1>2, <1>3, <1>4, <1>5 DEF Settle

\* The first of a line and the rest of it, and a line with one more.
LEMMA LineParts ==
    ASSUME NEW w \in Seq(Msgs), NEW m \in Msgs
    PROVE  /\ w # <<>> =>
                /\ 1 \in 1..Len(w) /\ w[1] = Head(w)
                /\ Tail(w) \in Seq(Msgs) /\ Len(Tail(w)) = Len(w) - 1
                /\ \A i \in 1..Len(Tail(w)) : i + 1 \in 1..Len(w) /\ Tail(w)[i] = w[i + 1]
                /\ \A i \in 1..Len(w) : i # 1 => i - 1 \in 1..Len(Tail(w)) /\ Tail(w)[i - 1] = w[i]
           /\ Len(Append(w, m)) = Len(w) + 1 /\ Append(w, m)[Len(w) + 1] = m
           /\ \A i \in 1..Len(w) : Append(w, m)[i] = w[i]
OBVIOUS

\* Senders that are dropped.
LEMMA DropAnswers ==
    ASSUME TypeOK, NEW S, DropSenders(S)
    PROVE  /\ \A m \in Msgs : events'[m] = "open" => events[m] = "open" /\ m \notin S
           /\ \A m \in Msgs : m \notin S => events'[m] = events[m]
           /\ \A m \in Msgs : events'[m] # "none" => events[m] # "none"
BY DEF DropSenders
-----------------------------------------------------------------------------
\* No message gets in line twice, or after it was delivered.
LEMMA LineOnceStep ==
    ASSUME TypeOK, TypeOK', SentBeforeTaken, LineOnce, [Next]_vars
    PROVE  LineOnce'
<1> DEFINE w == WaitingLine
           v == WaitingLine'
<1>1. w \in Seq(Msgs)
  BY LineTypes
<1>2. ASSUME v = w, UNCHANGED delivered PROVE LineOnce'
  BY <1>2 DEF LineOnce
<1>3. CASE Receive
  BY <1>2, <1>3, LineMoves DEF Receive
<1>4. CASE Settle
  <2>1. hand \in Msgs /\ w # <<>> /\ hand = Head(w) /\ v = Tail(w)
    BY <1>4, LineMoves
  <2>2. delivered' \subseteq delivered \cup {w[1]}
    BY <1>1, <1>4, <2>1, SettleAnswers, LineParts
  <2>3. /\ 1 \in 1..Len(w)
        /\ \A i \in 1..Len(v) : i \in Nat /\ i + 1 # 1 /\ i + 1 \in 1..Len(w) /\ v[i] = w[i + 1]
    BY <1>1, <2>1, LineParts
  <2>4. /\ \A i, j \in 1..Len(w) : w[i] = w[j] => i = j
        /\ \A i \in 1..Len(w) : w[i] \notin delivered
    BY DEF LineOnce
  <2> HIDE DEF w, v
  <2>5. \A i, j \in 1..Len(v) : v[i] = v[j] => i = j
    <3> SUFFICES ASSUME NEW i \in 1..Len(v), NEW j \in 1..Len(v), v[i] = v[j] PROVE i = j
      OBVIOUS
    <3>1. i + 1 = j + 1
      BY <2>3, <2>4
    <3> QED BY <2>3, <3>1
  <2>6. \A i \in 1..Len(v) : v[i] \notin delivered'
    <3> SUFFICES ASSUME NEW i \in 1..Len(v), v[i] \in delivered' PROVE FALSE
      OBVIOUS
    <3>1. w[i + 1] # w[1] /\ w[i + 1] \notin delivered
      BY <2>3, <2>4
    <3> QED BY <2>2, <2>3, <3>1
  <2> QED BY <2>5, <2>6 DEF LineOnce, v
<1>5. ASSUME NEW m \in Msgs, Enqueue(m) PROVE LineOnce'
  <2>1. v = Append(w, m) /\ UNCHANGED delivered /\ stage[m] = "acquired"
    BY <1>5, LineMoves DEF Enqueue
  <2>2. \A i \in 1..Len(w) : w[i] # m
    <3> SUFFICES ASSUME NEW i \in 1..Len(w), w[i] = m PROVE FALSE
      OBVIOUS
    <3>1. m = hand \/ m \in Queued
      <4>1. CASE hand = NoMsg
        BY <4>1, LineTypes DEF Queued
      <4>2. CASE hand # NoMsg
        <5>1. w # <<>> /\ Head(w) = hand /\ Tail(w) = queue
          BY <4>2, LineTypes
        <5>2. i # 1 => i - 1 \in 1..Len(queue) /\ queue[i - 1] = m
          BY <1>1, <5>1, LineParts
        <5>3. i = 1 => m = hand
          BY <1>1, <5>1, LineParts
        <5> QED BY <5>2, <5>3 DEF Queued
      <4> QED BY <4>1, <4>2
    <3> QED BY <2>1, <3>1 DEF SentBeforeTaken
  <2>3. m \notin delivered
    BY <2>1 DEF SentBeforeTaken
  <2>4. /\ Len(v) = Len(w) + 1 /\ v[Len(w) + 1] = m /\ Len(w) \in Nat
        /\ \A i \in 1..Len(w) : v[i] = w[i]
    BY <1>1, <2>1, LineParts
  <2>5. /\ \A i, j \in 1..Len(w) : w[i] = w[j] => i = j
        /\ \A i \in 1..Len(w) : w[i] \notin delivered
    BY DEF LineOnce
  <2> HIDE DEF w, v
  <2>6. \A i \in 1..Len(v) : i \in 1..Len(w) \/ i = Len(w) + 1
    BY <2>4
  <2>7. \A i, j \in 1..Len(v) : v[i] = v[j] => i = j
    BY <2>2, <2>4, <2>5, <2>6
  <2>8. \A i \in 1..Len(v) : v[i] \notin delivered'
    BY <2>1, <2>3, <2>4, <2>5, <2>6
  <2> QED BY <2>7, <2>8 DEF LineOnce, v
<1>6. CASE Waits
  BY <1>2, <1>6, LineMoves DEF Waits
<1>7. CASE Ends
  <2>1. v = <<>>
    BY <1>7, LineMoves DEF Ends
  <2> QED BY <2>1 DEF LineOnce
<1>8. ASSUME NEW m \in Msgs, Recall(m) PROVE LineOnce'
  BY <1>2, <1>8, LineMoves DEF Recall, loopVars, queueVars
<1> QED BY <1>3, <1>4, <1>5, <1>6, <1>7, <1>8, LineSteps
-----------------------------------------------------------------------------
\* Who is in line is queued or in the worker's hand.
LEMMA WhoWaits ==
    ASSUME TypeOK, NEW m \in Msgs
    PROVE  InWaiting(m) <=> m \in Queued \/ m = hand
<1>1. WaitingLine \in Seq(Msgs)
  BY LineTypes
<1>2. CASE hand = NoMsg
  BY <1>2, LineTypes, CliAssumption DEF InWaiting, Queued
<1>3. CASE hand # NoMsg
  <2>1. WaitingLine # <<>> /\ Head(WaitingLine) = hand /\ Tail(WaitingLine) = queue
    BY <1>3, LineTypes
  <2> DEFINE w == WaitingLine
  <2>2. /\ 1 \in 1..Len(w) /\ w[1] = hand
        /\ \A i \in 1..Len(queue) : i + 1 \in 1..Len(w) /\ queue[i] = w[i + 1]
        /\ \A i \in 1..Len(w) : i # 1 => i - 1 \in 1..Len(queue) /\ queue[i - 1] = w[i]
    BY <1>1, <2>1, LineParts
  <2> HIDE DEF w
  <2>3. ASSUME NEW i \in 1..Len(w), w[i] = m PROVE m \in Queued \/ m = hand
    BY <2>2, <2>3 DEF Queued
  <2>4. ASSUME m \in Queued PROVE \E i \in 1..Len(w) : w[i] = m
    <3>1. PICK i \in 1..Len(queue) : queue[i] = m
      BY <2>4 DEF Queued
    <3> QED BY <2>2, <3>1
  <2>5. ASSUME m = hand PROVE \E i \in 1..Len(w) : w[i] = m
    BY <2>2, <2>5
  <2> QED BY <2>3, <2>4, <2>5 DEF InWaiting, w
<1> QED BY <1>2, <1>3

\* The same as a formula that can be used of the next state.
WaitersAreKnown == \A m \in Msgs : InWaiting(m) <=> m \in Queued \/ m = hand

LEMMA WaitersKnown == TypeOK => WaitersAreKnown
BY WhoWaits DEF WaitersAreKnown

\* The message in the worker's hand was not delivered, and so is not the turn's.
LEMMA HandIsNew ==
    ASSUME TypeOK, LineOnce, TurnIsOwed, hand # NoMsg
    PROVE  hand \in Msgs /\ hand \notin delivered /\ hand # turnOf
<1>1. hand \in Msgs
  BY DEF TypeOK, WorkerTypeOK
<1>2. InWaiting(hand)
  BY <1>1, WhoWaits
<1>3. hand \notin delivered
  BY <1>2 DEF InWaiting, LineOnce
<1> QED BY <1>1, <1>3 DEF TurnIsOwed

\* What the end of a turn, or its result, does to the answers.
LEMMA TurnAnswersKeep ==
    ASSUME TypeOK, TurnIsOwed, TurnAnswers
    PROVE  /\ \A m \in Msgs : events'[m] = "open" => events[m] = "open"
           /\ \A m \in Msgs : events'[m] # "none" => events[m] # "none"
           /\ turnOf' \in {turnOf, NoMsg}
           /\ turnOf' # NoMsg => events'[turnOf] \in {"open", "result"}
           /\ turnOf # NoMsg /\ turnOf' = NoMsg => events'[turnOf] # "open"
<1>1. CASE UNCHANGED <<events, turnOf>>
  BY <1>1 DEF TurnIsOwed
<1>2. CASE turnOf' = NoMsg /\ DropSenders({turnOf})
  <2>1. turnOf # NoMsg => turnOf \in Msgs
    BY DEF TypeOK, WorkerTypeOK
  <2>2. /\ \A m \in Msgs : events'[m] = "open" => events[m] = "open" /\ m \notin {turnOf}
        /\ \A m \in Msgs : events'[m] # "none" => events[m] # "none"
    BY <1>2, DropAnswers
  <2> QED BY <1>2, <2>1, <2>2
<1>3. CASE /\ turnOf # NoMsg /\ turnOf' \in {turnOf, NoMsg}
           /\ events' = [events EXCEPT ![turnOf] = "result"]
  <2>1. turnOf \in Msgs /\ events[turnOf] # "none" /\ events \in [Msgs -> {"none", "open", "result", "closed"}]
    BY <1>3 DEF TypeOK, WorkerTypeOK, TurnIsOwed
  <2>2. events'[turnOf] = "result" /\ \A m \in Msgs : m # turnOf => events'[m] = events[m]
    BY <1>3, <2>1
  <2> QED BY <1>3, <2>1, <2>2
<1> QED BY <1>1, <1>2, <1>3 DEF TurnAnswers

\* A message that is accepted opens at most its own channel.
LEMMA EnqueueAnswers ==
    ASSUME TypeOK, NEW m \in Msgs, Enqueue(m)
    PROVE  /\ Queued' = Queued \cup {m} /\ UNCHANGED <<hand, turnOf, delivered, cancelled>>
           /\ recalls' = recalls \cup {m}
           /\ stage[m] = "acquired" /\ stage'[m] = "counting"
           /\ \A n \in Msgs : n # m => events'[n] = events[n] /\ stage'[n] = stage[n]
           /\ events'[m] \in {events[m], "open"}
<1>1. Queued' = Queued \cup {m}
  <2>1. queue \in Seq(Msgs) /\ queue' = Append(queue, m)
    BY DEF Enqueue, TypeOK, WorkerTypeOK
  <2>2. /\ Len(queue') = Len(queue) + 1 /\ queue'[Len(queue) + 1] = m
        /\ \A i \in 1..Len(queue) : queue'[i] = queue[i]
    BY <2>1, LineParts
  <2>3. Len(queue) \in Nat
    BY <2>1
  <2> QED BY <2>2, <2>3 DEF Queued
<1>2. events \in [Msgs -> {"none", "open", "result", "closed"}]
  BY DEF TypeOK, WorkerTypeOK
<1> QED BY <1>1, <1>2, MoveStage DEF Enqueue, loopVars

\* An accepted message stays one.
LEMMA SentStays ==
    ASSUME TypeOK, [Next]_vars
    PROVE  \A m \in Msgs : stage[m] \in SentStages => stage'[m] \in SentStages
<1>1. ASSUME NEW n \in Msgs, Handler(n)
      PROVE  \A m \in Msgs : stage[m] \in SentStages => stage'[m] \in SentStages
  BY <1>1, HandlerMoves DEF SentStages
<1> QED BY <1>1, LineSteps DEF Recall, handlerVars, SentStages
-----------------------------------------------------------------------------
\* The turn that runs stays one of a delivered message.
LEMMA TurnOwedStep ==
    ASSUME TypeOK, SentBeforeTaken, LineOnce, TurnIsOwed, [Next]_vars
    PROVE  TurnIsOwed'
<1>1. CASE Waits
  <2>1. turnOf' \in {turnOf, NoMsg} /\ (turnOf' # NoMsg => events'[turnOf] \in {"open", "result"})
    BY <1>1, TurnAnswersKeep DEF Waits
  <2> QED BY <1>1, <2>1 DEF Waits, TurnIsOwed
<1>2. CASE Receive
  BY <1>2 DEF Receive, TurnIsOwed
<1>3. CASE Settle
  <2>1. hand \in Msgs /\ hand # turnOf
    BY <1>3, SettleMoves, HandIsNew
  <2>2. turnOf # NoMsg => turnOf \in Msgs
    BY DEF TypeOK, WorkerTypeOK
  <2>3. CASE UNCHANGED turnOf /\ DropSenders({hand}) /\ delivered \subseteq delivered'
    <3>1. \A m \in Msgs : m \notin {hand} => events'[m] = events[m]
      BY <2>3, DropAnswers
    <3> QED BY <2>1, <2>2, <2>3, <3>1 DEF TurnIsOwed
  <2> QED BY <1>3, <2>1, <2>3, SettleAnswers DEF TurnIsOwed
<1>4. CASE Ends
  BY <1>4 DEF Ends, TurnIsOwed
<1>5. ASSUME NEW m \in Msgs, Enqueue(m) PROVE TurnIsOwed'
  <2>1. m \notin delivered
    BY <1>5 DEF Enqueue, SentBeforeTaken
  <2>2. turnOf # NoMsg => turnOf \in Msgs
    BY DEF TypeOK, WorkerTypeOK
  <2> QED BY <1>5, <2>1, <2>2, EnqueueAnswers DEF TurnIsOwed
<1>6. ASSUME NEW m \in Msgs, Recall(m) PROVE TurnIsOwed'
  BY <1>6 DEF Recall, TurnIsOwed, loopVars
<1> QED BY <1>1, <1>2, <1>3, <1>4, <1>5, <1>6, LineSteps

\* Whoever waits keeps its place, or the turn it has become.
LEMMA OpenHeldStep ==
    ASSUME TypeOK, TypeOK', LineOnce, TurnIsOwed, OpenIsHeld, [Next]_vars
    PROVE  OpenIsHeld'
<1> DEFINE Held(m) == m \in Queued \/ m = hand \/ m = turnOf
<1>1. \A m \in Msgs : events[m] = "open" => Held(m)
  BY WhoWaits DEF OpenIsHeld
<1>2. (\A m \in Msgs : events'[m] = "open" => Held(m)') => OpenIsHeld'
  <2>1. WaitersAreKnown'
    BY WaitersKnown, PTL
  <2> QED BY <2>1 DEF OpenIsHeld, WaitersAreKnown
<1>3. CASE Receive
  <2>1. WaitingLine' = WaitingLine
    BY <1>3, LineMoves
  <2> QED BY <1>3, <2>1 DEF Receive, OpenIsHeld, InWaiting
<1>4. CASE ~Receive
  <2> SUFFICES ASSUME NEW m \in Msgs, events'[m] = "open" PROVE Held(m)'
    BY <1>2
  <2>1. CASE Waits
    <3>1. events[m] = "open" /\ (m = turnOf => turnOf' = turnOf)
      BY <2>1, TurnAnswersKeep, CliAssumption DEF Waits
    <3>2. Queued' = Queued /\ hand' = hand
      BY <2>1 DEF Waits, Queued
    <3> QED BY <1>1, <3>1, <3>2
  <2>2. CASE Settle
    <3>1. Queued' = Queued
      BY <2>2, SettleMoves DEF Queued
    <3>2. DropSenders({hand}) => events[m] = "open" /\ m # hand
      BY DropAnswers
    <3>3. DropSenders({turnOf, hand}) => events[m] = "open" /\ m # hand /\ m # turnOf
      BY DropAnswers
    <3> QED BY <1>1, <2>2, <3>1, <3>2, <3>3, SettleAnswers, CliAssumption
  <2>3. CASE Ends
    <3>1. events[m] = "open" /\ m \notin Queued \cup {hand, turnOf}
      BY <2>3, DropAnswers DEF Ends
    <3> QED BY <1>1, <3>1
  <2>4. ASSUME NEW n \in Msgs, Enqueue(n) PROVE Held(m)'
    BY <1>1, <2>4, EnqueueAnswers
  <2>5. ASSUME NEW n \in Msgs, Recall(n) PROVE Held(m)'
    BY <1>1, <2>5 DEF Recall, Queued, loopVars, queueVars
  <2> QED BY <1>4, <2>1, <2>2, <2>3, <2>4, <2>5, LineSteps
<1> QED BY <1>3, <1>4

\* Recalls and answers are only of messages that were accepted.
LEMMA AcceptedStep ==
    ASSUME TypeOK, TurnIsOwed, AcceptedFirst, [Next]_vars
    PROVE  AcceptedFirst'
<1>1. ASSUME recalls' \cup cancelled' \subseteq recalls \cup cancelled,
             \A m \in Msgs : events'[m] # "none" => events[m] # "none"
      PROVE  AcceptedFirst'
  BY <1>1, SentStays DEF AcceptedFirst
<1>2. CASE Waits
  BY <1>1, <1>2, TurnAnswersKeep DEF Waits
<1>3. CASE Receive
  BY <1>1, <1>3 DEF Receive, recallVars
<1>4. CASE Settle
  <2>1. \A m \in Msgs : events'[m] # "none" => events[m] # "none"
    BY <1>4, SettleAnswers, DropAnswers
  <2> QED BY <1>1, <1>4, <2>1, SettleAnswers
<1>5. CASE Ends
  <2>1. \A m \in Msgs : events'[m] # "none" => events[m] # "none"
    BY <1>5, DropAnswers DEF Ends
  <2> QED BY <1>1, <1>5, <2>1 DEF Ends
<1>6. ASSUME NEW n \in Msgs, Enqueue(n) PROVE AcceptedFirst'
  <2>1. stage'[n] \in SentStages
    BY <1>6, EnqueueAnswers DEF SentStages
  <2> QED BY <1>6, <2>1, EnqueueAnswers DEF AcceptedFirst
<1>7. ASSUME NEW n \in Msgs, Recall(n) PROVE AcceptedFirst'
  BY <1>1, <1>7 DEF Recall
<1> QED BY <1>2, <1>3, <1>4, <1>5, <1>6, <1>7, LineSteps

\* In every reachable state the line and the answers fit together.
THEOREM LineInvariant == Spec => []LineInd
<1>1. Init => LineInd
  <2> SUFFICES ASSUME Init PROVE LineInd
    OBVIOUS
  <2>1. WaitingLine = <<>> /\ turnOf = NoMsg /\ recalls \cup cancelled = {}
    BY DEF Init, WorkerInit, WaitingLine
  <2>2. \A m \in Msgs : events[m] = "none"
    BY DEF Init, WorkerInit
  <2> QED BY <2>1, <2>2 DEF LineInd, LineOnce, TurnIsOwed, OpenIsHeld, AcceptedFirst
<1>2. TurnInv /\ TurnInv' /\ LineInd /\ [Next]_vars => LineInd'
  BY LineOnceStep, TurnOwedStep, OpenHeldStep, AcceptedStep DEF TurnInv, LineInd
<1> QED BY <1>1, <1>2, TurnInvariant, PTL DEF Spec
-----------------------------------------------------------------------------
\* The steps of the abstract line.
QueueStep == [Promised!Next]_(Promised!queueVars)

\* Who is let go is named by the messages of the thread.
LEMMA LetGoAs ==
    ASSUME NEW S, NEW T, DropSenders(S), \A m \in Msgs : m \in S <=> m \in T
    PROVE  Promised!LetGo(T)
BY DEF DropSenders, Promised!LetGo

\* The turn that runs, as one that may end.
LEMMA TurnMayEnd ==
    ASSUME TypeOK, TurnIsOwed
    PROVE  \E ended \in SUBSET delivered : \A m \in Msgs : m \in ended <=> m = turnOf
<1>1. CASE turnOf = NoMsg
  <2>1. {} \in SUBSET delivered
    OBVIOUS
  <2> WITNESS {} \in SUBSET delivered
  <2> QED BY <1>1, CliAssumption
<1>2. CASE turnOf # NoMsg
  <2>1. {turnOf} \in SUBSET delivered
    BY <1>2 DEF TurnIsOwed
  <2> QED BY <2>1
<1> QED BY <1>1, <1>2

\* Steps that leave the line alone answer the turn, break it off or are not seen.
LEMMA WaitsRefines ==
    ASSUME TypeOK, TypeOK', TurnIsOwed, Waits
    PROVE  QueueStep
<1>1. WaitingLine' = WaitingLine /\ UNCHANGED <<delivered, cancelled>>
  BY LineMoves DEF Waits
<1>2. CASE UNCHANGED events
  BY <1>1, <1>2 DEF QueueStep, Promised!queueVars
<1>3. CASE turnOf' = NoMsg /\ DropSenders({turnOf})
  <2>1. PICK ended \in SUBSET delivered : \A m \in Msgs : m \in ended <=> m = turnOf
    BY TurnMayEnd
  <2>2. \A m \in Msgs : m \in {turnOf} <=> m \in ended
    BY <2>1
  <2>3. Promised!LetGo(ended)
    BY <1>3, <2>2, LetGoAs
  <2>4. Promised!BreakOff
    BY <1>1, <2>3 DEF Promised!BreakOff
  <2> QED BY <2>4 DEF QueueStep, Promised!Next
<1>4. CASE turnOf # NoMsg /\ events' = [events EXCEPT ![turnOf] = "result"]
  <2>1. turnOf \in Msgs /\ events \in [Msgs -> {"none", "open", "result", "closed"}]
    BY <1>4 DEF TypeOK, WorkerTypeOK
  <2>2. turnOf \in delivered /\ events[turnOf] \in {"open", "result"}
    BY <1>4 DEF TurnIsOwed
  <2>3. CASE events[turnOf] = "open"
    <3>1. Promised!Reply(turnOf)
      BY <1>1, <1>4, <2>2, <2>3 DEF Promised!Reply
    <3> QED BY <2>1, <3>1 DEF QueueStep, Promised!Next
  <2>4. CASE events[turnOf] = "result"
    <3>1. events' = events
      BY <1>4, <2>1, <2>4
    <3> QED BY <1>2, <3>1
  <2> QED BY <2>2, <2>3, <2>4
<1> QED BY <1>2, <1>3, <1>4 DEF Waits, TurnAnswers

\* The message in the worker's hand leaves the line by its first place.
LEMMA SettleRefines ==
    ASSUME TypeOK, TypeOK', TurnIsOwed, Settle
    PROVE  QueueStep
<1>1. /\ hand \in Msgs /\ WaitingLine # <<>> /\ hand = Head(WaitingLine)
      /\ WaitingLine' = Tail(WaitingLine)
  BY LineMoves
<1>2. UNCHANGED cancelled
  BY SettleAnswers
<1>3. CASE UNCHANGED delivered /\ DropSenders({hand})
  <2>1. {} \in SUBSET delivered /\ \A m \in Msgs : m \in {hand} <=> m \in {} \cup {hand}
    OBVIOUS
  <2>2. Promised!LetGo({} \cup {hand})
    BY <1>3, <2>1, LetGoAs
  <2>3. Promised!Drop
    BY <1>1, <1>2, <1>3, <2>1, <2>2 DEF Promised!Drop
  <2> QED BY <2>3 DEF QueueStep, Promised!Next
<1>4. CASE UNCHANGED delivered /\ DropSenders({turnOf, hand})
  <2>1. PICK ended \in SUBSET delivered : \A m \in Msgs : m \in ended <=> m = turnOf
    BY TurnMayEnd
  <2>2. \A m \in Msgs : m \in {turnOf, hand} <=> m \in ended \cup {hand}
    BY <2>1
  <2>3. Promised!LetGo(ended \cup {hand})
    BY <1>4, <2>2, LetGoAs
  <2>4. Promised!Drop
    BY <1>1, <1>2, <1>4, <2>3 DEF Promised!Drop
  <2> QED BY <2>4 DEF QueueStep, Promised!Next
<1>5. CASE /\ hand \notin cancelled /\ delivered' = delivered \cup {hand}
           /\ UNCHANGED events \/ DropSenders({hand})
  <2>1. UNCHANGED events \/ Promised!LetGo({hand})
    <3>1. \A m \in Msgs : m \in {hand} <=> m \in {hand}
      OBVIOUS
    <3> QED BY <1>5, <3>1, LetGoAs
  <2>2. Promised!Deliver
    BY <1>1, <1>2, <1>5, <2>1 DEF Promised!Deliver
  <2> QED BY <2>2 DEF QueueStep, Promised!Next
<1> QED BY <1>3, <1>4, <1>5, SettleAnswers

\* The end of the session loses the line, and all who wait are let go.
LEMMA EndsRefines ==
    ASSUME TypeOK, TypeOK', OpenIsHeld, Ends
    PROVE  QueueStep
<1>1. WaitingLine' = <<>>
  BY LineMoves DEF Ends
<1>2. \A m \in Msgs : events[m] = "open" => m \in Queued \cup {hand, turnOf}
  BY WhoWaits DEF OpenIsHeld
<1>3. Promised!LetGo(Msgs)
  BY <1>2 DEF Ends, DropSenders, Promised!LetGo
<1>4. Promised!Lose
  BY <1>1, <1>3 DEF Ends, Promised!Lose
<1> QED BY <1>4 DEF QueueStep, Promised!Next

\* send_message puts a new message in line, where there is room.
LEMMA EnqueueRefines ==
    ASSUME TurnInv, TypeOK', AcceptedFirst, NEW m \in Msgs, Enqueue(m)
    PROVE  QueueStep
<1> DEFINE wait == IF m \in primary THEN "open" ELSE "none"
<1>1. TypeOK /\ OneDispatch /\ SentBeforeTaken /\ QueueAccounting
  BY DEF TurnInv
<1>2. WaitingLine' = Append(WaitingLine, m)
  BY <1>1, LineMoves
<1>3. Len(WaitingLine) < QueueCap
  <2>1. SessionsFree
    BY <1>1, FreeMoves DEF Handler
  <2>2. Load < QueueCap
    BY <1>1, <2>1 DEF QueueAccounting, Enqueue, HasRoom
  <2> QED BY <1>1, <2>2, LineTypes
<1>4. stage[m] \notin SentStages
  BY DEF Enqueue, SentStages
<1>5. m \notin cancelled /\ events[m] = "none"
  BY <1>4 DEF AcceptedFirst
<1>6. m \notin Queued \cup {hand} \cup delivered
  BY <1>1, <1>4 DEF SentBeforeTaken, SentStages
<1>7. m \notin Promised!InLine
  <2>1. ~InWaiting(m)
    BY <1>1, <1>6, WhoWaits
  <2> QED BY <2>1 DEF InWaiting, Promised!InLine
<1>8. events' = [events EXCEPT ![m] = wait]
  <2>1. events \in [Msgs -> {"none", "open", "result", "closed"}]
    BY <1>1 DEF TypeOK, WorkerTypeOK
  <2> QED BY <1>5, <2>1 DEF Enqueue
<1>9. UNCHANGED <<delivered, cancelled>>
  BY DEF Enqueue
<1>10. Promised!Accept(m, wait)
  BY <1>2, <1>3, <1>5, <1>6, <1>7, <1>8, <1>9 DEF Promised!Accept
<1>11. wait \in {"none", "open"}
  OBVIOUS
<1> HIDE DEF wait
<1> QED BY <1>10, <1>11 DEF QueueStep, Promised!Next

\* A recall that is confirmed withdraws a message that was not delivered.
LEMMA RecallRefines ==
    ASSUME TypeOK, TypeOK', RecallIsFinal, NEW m \in Msgs, Recall(m)
    PROVE  QueueStep
<1>1. WaitingLine' = WaitingLine
  BY LineMoves DEF Recall, loopVars, queueVars
<1>2. Promised!Withdraw(m)
  BY <1>1 DEF Recall, RecallIsFinal, Promised!Withdraw
<1> QED BY <1>2 DEF QueueStep, Promised!Next

\* A thread is one bounded first-in first-out line: whatever its handlers, its worker,
\* the process and the users do, a message is delivered at most once, in its turn and
\* never after its recall, and whoever waits for an answer gets it after the delivery
\* or is let go in the step that loses the message.
THEOREM TurnsImplementQueue == Spec => TurnsAreOneQueue
<1>1. Init => Promised!Init
  BY DEF Init, WorkerInit, WaitingLine, Promised!Init
<1>2. TurnInv /\ TurnInv' /\ LineInd /\ [Next]_vars => [Promised!Next]_(Promised!queueVars)
  <2> SUFFICES ASSUME TurnInv, TurnInv', LineInd, [Next]_vars PROVE QueueStep
    BY DEF QueueStep
  <2>1. TypeOK /\ TypeOK' /\ RecallIsFinal
    BY DEF TurnInv
  <2>2. TurnIsOwed /\ OpenIsHeld /\ AcceptedFirst
    BY DEF LineInd
  <2>3. CASE Waits
    BY <2>1, <2>2, <2>3, WaitsRefines
  <2>4. CASE Receive
    <3>1. WaitingLine' = WaitingLine
      BY <2>1, <2>4, LineMoves
    <3> QED BY <2>4, <3>1 DEF Receive, recallVars, QueueStep, Promised!queueVars
  <2>5. CASE Settle
    BY <2>1, <2>2, <2>5, SettleRefines
  <2>6. CASE Ends
    BY <2>1, <2>2, <2>6, EndsRefines
  <2>7. ASSUME NEW m \in Msgs, Enqueue(m) PROVE QueueStep
    BY <2>1, <2>2, <2>7, EnqueueRefines
  <2>8. ASSUME NEW m \in Msgs, Recall(m) PROVE QueueStep
    BY <2>1, <2>8, RecallRefines
  <2> QED BY <2>1, <2>3, <2>4, <2>5, <2>6, <2>7, <2>8, LineSteps
<1> QED BY <1>1, <1>2, TurnInvariant, LineInvariant, PTL DEF Spec, TurnsAreOneQueue, Promised!Spec
=============================================================================
