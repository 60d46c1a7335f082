--------------------------- MODULE PermissionFlow ---------------------------
(***************************************************************************)
(* The permission prompts of one thread: the handler that posts them       *)
(* (src/src/handler/permission_ui.rs), the clicks on their buttons         *)
(* (src/src/handler/message/interaction.rs) and the worker that waits for  *)
(* the decisions (src/src/subprocess/worker/permission_wait.rs, in detail  *)
(* in SessionWorker).  A request carries a oneshot channel: the decision   *)
(* sent into it is lost without a trace when the worker stopped waiting.   *)
(*                                                                         *)
(* A request is for a tool, or is one question, or a group of questions.   *)
(* A slot <<r, i>> is the Discord message of request r's i-th question;    *)
(* tools and single questions only use slot <<r, 0>>.  Saving a rule is    *)
(* add_permissions, an atomic addition (SettingsEditor), that may fail.    *)
(***************************************************************************)
EXTENDS Naturals, Sequences, FiniteSets

CONSTANTS Requests,    \* can_use_tool control requests
          Tools,       \* names of tools other than AskUserQuestion
          Clickers,    \* users allowed to decide: who triggered it, the owner
          Nobody,      \* no request
          ChannelCap,  \* capacity of the channel from worker to handler
          MaxClicks,   \* bound: clicks
          MaxBreaks    \* bound: interrupts and cleanups of the session

ASSUME FlowAssumption ==
    /\ Nobody \notin Requests
    /\ Tools \cap {"question", "group"} = {}
    /\ ChannelCap \in Nat /\ MaxClicks \in Nat /\ MaxBreaks \in Nat

VARIABLES kind,     \* kind[r]: a tool, "question" or "group"
          wait,     \* wait[r]: why r is waited for or no longer is
          told,     \* told[r]: the control_response Claude got
          chan,     \* chan[r]: the decision in r's oneshot channel
          inbox,    \* the channel of requests from the worker to the handler
          posting,  \* the slot run_permission_handler works on
          posted,   \* its message is sent but not yet registered
          entries,  \* pending_permissions: the registered slots
          groups,   \* pending_question_groups: the groups still collecting
          answered, \* answered[r]: the questions of group r with an answer
          watched,  \* requests with a timeout watcher task
          screen,   \* screen[s]: what the message of slot s shows
          hand,     \* hand[c]: the interaction handler of c's click
          cache,    \* permission_cache: tools allowed for this worker
          ruled,    \* history: tools allowed by a saved rule
          chosen,   \* history: requests a user allowed by a click
          restart,  \* pending_session_restart holds the thread
          revived,  \* history: slots whose buttons were drawn after a decision
          unedited, \* history: slots whose last closing edit failed
          clicks, breaks

flowVars == <<kind, wait, told, chan, inbox, posting, posted, entries, groups,
              answered, watched, screen, hand, cache, ruled, chosen, restart,
              revived, unedited, clicks, breaks>>

Slots == Requests \X {0, 1}
NoSlot == <<Nobody, 0>>
Free == [slot |-> NoSlot, do |-> "none", rest |-> {}]

\* The questions of a request.
Parts(r) == IF kind[r] = "group" THEN {0, 1} ELSE {0}
SlotsOf(r) == {r} \X Parts(r)
IsTool(r) == kind[r] \in Tools

Allows == {"once", "always tool", "always exact"}
Buttons == {"level 1", "level 2", "question"}
SaysAllowed == {"allowed", "saved", "dismissed"}
SaysDenied == {"denied", "timed out", "save failed", "canceled"}

FlowInit ==
    /\ kind \in [Requests -> Tools \cup {"question", "group"}]
    /\ wait = [r \in Requests |-> "new"]
    /\ told = [r \in Requests |-> "none"]
    /\ chan = [r \in Requests |-> "open"]
    /\ inbox = <<>> /\ posting = NoSlot /\ posted = FALSE
    /\ entries = {} /\ groups = {} /\ watched = {}
    /\ answered = [r \in Requests |-> {}]
    /\ screen = [s \in Slots |-> "none"]
    /\ hand = [c \in Clickers |-> Free]
    /\ cache = {} /\ ruled = {} /\ chosen = {} /\ restart = FALSE
    /\ revived = {} /\ unedited = {} /\ clicks = 0 /\ breaks = 0

\* A oneshot takes one value, and none once its receiver is dropped.
Sent(R, d) == [r \in Requests |->
    IF r \in R /\ chan[r] = "open" THEN d ELSE chan[r]]

\* The edit that takes the buttons from the message of slot s.  Its failure is
\* ignored, and nobody tries again.
Close(s, label) ==
    \/ /\ screen' = [screen EXCEPT ![s] = label]
       /\ unedited' = unedited \ {s}
    \/ /\ unedited' = unedited \cup {s}
       /\ UNCHANGED screen
-----------------------------------------------------------------------------
(* The worker. *)

\* Mutation: the channel is taken for one longer than it is.
InboxPastFull == Len(inbox) > ChannelCap
InboxFull == Len(inbox) >= ChannelCap

\* A tool always allowed in this worker is answered at once; otherwise the
\* request goes to the handler, or is denied when the channel is full.
Arrive(r) ==
    /\ wait[r] = "new"
    /\ \/ /\ kind[r] \in cache
          /\ wait' = [wait EXCEPT ![r] = "auto"]
          /\ told' = [told EXCEPT ![r] = "allow"]
          /\ UNCHANGED inbox
       \/ /\ kind[r] \notin cache /\ InboxFull
          /\ wait' = [wait EXCEPT ![r] = "full"]
          /\ told' = [told EXCEPT ![r] = "deny"]
          /\ UNCHANGED inbox
       \/ /\ kind[r] \notin cache /\ ~InboxFull
          /\ wait' = [wait EXCEPT ![r] = "waiting"]
          /\ inbox' = Append(inbox, r)
          /\ UNCHANGED told
    /\ UNCHANGED <<kind, chan, posting, posted, entries, groups, answered,
                   watched, screen, hand, cache, ruled, chosen, restart,
                   revived, unedited, clicks, breaks>>

\* Mutation: every Always Allow is mirrored for the whole tool.
CacheAnyAlways(r) ==
    IF chan[r] \in {"always tool", "always exact"} THEN cache \cup {kind[r]}
    ELSE cache

\* A rule for the whole tool is mirrored in the worker's cache; a narrower one
\* clears the tool's mirror.
CacheAfter(r) ==
    IF chan[r] = "always tool" THEN cache \cup {kind[r]}
    ELSE IF chan[r] = "always exact" THEN cache \ {kind[r]} ELSE cache

\* The oneshot has a decision, or its sender was dropped, which denies.
Resolve(r) ==
    /\ wait[r] = "waiting"
    /\ chan[r] # "open"
    /\ wait' = [wait EXCEPT ![r] = "resolved"]
    /\ told' = [told EXCEPT ![r] = IF chan[r] \in Allows THEN "allow"
                                   ELSE IF chan[r] = "answer" THEN "answer"
                                   ELSE "deny"]
    /\ cache' = CacheAfter(r)
    /\ UNCHANGED <<kind, chan, inbox, posting, posted, entries, groups,
                   answered, watched, screen, hand, ruled, chosen, restart,
                   revived, unedited, clicks, breaks>>

\* Mutation: only the prompts that were posted time out.
TimeoutPosted(r) ==
    /\ r \in watched
    /\ wait[r] = "waiting"
    /\ chan[r] = "open"
    /\ wait' = [wait EXCEPT ![r] = "timeout"]
    /\ told' = [told EXCEPT ![r] = "deny"]
    /\ UNCHANGED <<kind, chan, inbox, posting, posted, entries, groups,
                   answered, watched, screen, hand, cache, ruled, chosen,
                   restart, revived, unedited, clicks, breaks>>

\* Five minutes without a decision on a tool: deny, and signal the watcher.
\* A decision that is already in the channel goes first (biased select).
PermissionTimeout(r) ==
    /\ IsTool(r)
    /\ wait[r] = "waiting"
    /\ chan[r] = "open"
    /\ wait' = [wait EXCEPT ![r] = "timeout"]
    /\ told' = [told EXCEPT ![r] = "deny"]
    /\ UNCHANGED <<kind, chan, inbox, posting, posted, entries, groups,
                   answered, watched, screen, hand, cache, ruled, chosen,
                   restart, revived, unedited, clicks, breaks>>

\* /stop, or the process's stdout ends: everything waited for is denied and
\* the receivers are dropped, without a signal to the watchers.
InterruptAll ==
    LET R == {r \in Requests : wait[r] = "waiting"} IN
    /\ breaks < MaxBreaks
    /\ R # {}
    /\ wait' = [r \in Requests |-> IF r \in R THEN "interrupt" ELSE wait[r]]
    /\ told' = [r \in Requests |-> IF r \in R THEN "deny" ELSE told[r]]
    /\ breaks' = breaks + 1
    /\ UNCHANGED <<kind, chan, inbox, posting, posted, entries, groups,
                   answered, watched, screen, hand, cache, ruled, chosen,
                   restart, revived, unedited, clicks>>

\* cleanup_session_state: the thread's entries and groups go, and the senders
\* they own with them.
CleanupPrompts ==
    LET R == groups \cup {r \in Requests : <<r, 0>> \in entries
                                           /\ kind[r] # "group"} IN
    /\ breaks < MaxBreaks
    /\ R # {}
    /\ entries' = {} /\ groups' = {}
    /\ chan' = Sent(R, "dropped")
    /\ breaks' = breaks + 1
    /\ UNCHANGED <<kind, wait, told, inbox, posting, posted, answered, watched,
                   screen, hand, cache, ruled, chosen, restart, revived,
                   unedited, clicks>>
-----------------------------------------------------------------------------
(* run_permission_handler: one request at a time, one message at a time. *)

TakeRequest ==
    /\ posting = NoSlot
    /\ inbox # <<>>
    /\ inbox' = Tail(inbox)
    /\ posting' = <<Head(inbox), 0>>
    /\ groups' = groups \cup {r \in {Head(inbox)} : kind[r] = "group"}
    /\ UNCHANGED <<kind, wait, told, chan, posted, entries, answered, watched,
                   screen, hand, cache, ruled, chosen, restart, revived,
                   unedited, clicks, breaks>>

\* The message is visible to users before send_message returns.
PostPrompt ==
    /\ posting # NoSlot /\ ~posted
    /\ posted' = TRUE
    /\ screen' = [screen EXCEPT ![posting] =
                     IF IsTool(posting[1]) THEN "level 1" ELSE "question"]
    /\ UNCHANGED <<kind, wait, told, chan, inbox, posting, entries, groups,
                   answered, watched, hand, cache, ruled, chosen, restart,
                   revived, unedited, clicks, breaks>>

\* Mutation: a prompt without its watcher task.
RegisterUnwatched ==
    LET r == posting[1]
        next == <<r, posting[2] + 1>> IN
    /\ posted
    /\ posted' = FALSE
    /\ entries' = entries \cup {posting}
    /\ posting' = IF next \in SlotsOf(r) THEN next ELSE NoSlot
    /\ UNCHANGED <<kind, wait, told, chan, inbox, groups, answered, watched,
                   screen, hand, cache, ruled, chosen, restart, revived,
                   unedited, clicks, breaks>>

\* send_message returned: the slot is registered, a tool's watcher is spawned,
\* and the next question of a group follows, whether or not its group is left.
RegisterPrompt ==
    LET r == posting[1]
        next == <<r, posting[2] + 1>> IN
    /\ posted
    /\ posted' = FALSE
    /\ entries' = entries \cup {posting}
    /\ watched' = IF IsTool(r) THEN watched \cup {r} ELSE watched
    /\ posting' = IF next \in SlotsOf(r) THEN next ELSE NoSlot
    /\ UNCHANGED <<kind, wait, told, chan, inbox, groups, answered, screen,
                   hand, cache, ruled, chosen, restart, revived, unedited,
                   clicks, breaks>>

\* Mutation: a failed question of a group gives up without a decision.
GiveUpSilently ==
    /\ posting # NoSlot /\ ~posted
    /\ posting' = NoSlot
    /\ entries' = entries \ SlotsOf(posting[1])
    /\ UNCHANGED <<kind, wait, told, chan, groups, inbox, posted, answered,
                   watched, screen, hand, cache, ruled, chosen, restart,
                   revived, unedited, clicks, breaks>>

\* send_message failed: the request is denied; of a group, whoever removed the
\* group owns the sender, and the questions already posted lose their entries.
PostFails ==
    LET r == posting[1] IN
    /\ posting # NoSlot /\ ~posted
    /\ posting' = NoSlot
    /\ chan' = IF kind[r] = "group" /\ r \notin groups THEN chan
               ELSE Sent({r}, "deny")
    /\ groups' = groups \ {r}
    /\ entries' = entries \ SlotsOf(r)
    /\ UNCHANGED <<kind, wait, told, inbox, posted, answered, watched, screen,
                   hand, cache, ruled, chosen, restart, revived, unedited,
                   clicks, breaks>>

\* Mutation: the watcher trusts the signal and does not look at the entry.
WatcherUnchecked(r) ==
    /\ r \in watched
    /\ wait[r] = "timeout"
    /\ watched' = watched \ {r}
    /\ entries' = entries \ {<<r, 0>>}
    /\ Close(<<r, 0>>, "timed out")
    /\ UNCHANGED <<kind, wait, told, chan, inbox, posting, posted, groups,
                   answered, hand, cache, ruled, chosen, restart, revived,
                   clicks, breaks>>

\* The watcher task ends: on the timeout's signal it removes the entry and
\* disables the buttons if the entry is still there, otherwise nothing.
Watcher(r) ==
    /\ r \in watched
    /\ wait[r] # "waiting"
    /\ watched' = watched \ {r}
    /\ \/ /\ wait[r] = "timeout" /\ <<r, 0>> \in entries
          /\ entries' = entries \ {<<r, 0>>}
          /\ Close(<<r, 0>>, "timed out")
       \/ /\ wait[r] # "timeout" \/ <<r, 0>> \notin entries
          /\ UNCHANGED <<entries, screen, unedited>>
    /\ UNCHANGED <<kind, wait, told, chan, inbox, posting, posted, groups,
                   answered, hand, cache, ruled, chosen, restart, revived,
                   clicks, breaks>>
-----------------------------------------------------------------------------
(* handle_interaction: every click runs its handler in a task of its own. *)

\* The messages' buttons: level 2 keeps Allow Once and Deny beside one button
\* per rule kind.  A protected path offers no rule and so no "expand": fewer
\* clicks than here.
Level1 == {"once", "deny", "expand"}
Level2 == {"once", "deny", "toggle", "always tool", "always exact"}
QuestionButtons == {"answer", "text", "cancel"}

\* What a click on the message of slot s can be.
DecisionsAt(s) ==
    CASE screen[s] = "level 1" -> Level1
      [] screen[s] = "level 2" -> Level2
      [] screen[s] = "question" -> QuestionButtons
      [] OTHER -> {}

\* verify_component_auth: a click on a slot without an entry does nothing.
Click(c, s) ==
    /\ clicks < MaxClicks
    /\ hand[c] = Free
    /\ s \in entries
    /\ \E d \in DecisionsAt(s) :
          hand' = [hand EXCEPT ![c].slot = s, ![c].do = d]
    /\ clicks' = clicks + 1
    /\ UNCHANGED <<kind, wait, told, chan, inbox, posting, posted, entries,
                   groups, answered, watched, screen, cache, ruled, chosen,
                   restart, revived, unedited, breaks>>

Then(c, d) == hand' = [hand EXCEPT ![c].do = d]
Done(c) == hand' = [hand EXCEPT ![c] = Free]

\* The entry is gone: another click, the watcher or a cleanup was first.
TooLate(c) ==
    /\ hand[c].do \in Allows \cup {"deny", "answer"}
    /\ hand[c].slot \notin entries
    /\ Done(c)
    /\ UNCHANGED <<kind, wait, told, chan, inbox, posting, posted, entries,
                   groups, answered, watched, screen, cache, ruled, chosen,
                   restart, revived, unedited, clicks, breaks>>

\* Allow once or deny: remove the entry, send the decision, edit the message.
DecideOnce(c) ==
    LET s == hand[c].slot IN
    /\ hand[c].do \in {"once", "deny"}
    /\ s \in entries
    /\ entries' = entries \ {s}
    /\ chan' = Sent({s[1]}, hand[c].do)
    /\ chosen' = IF hand[c].do = "once" THEN chosen \cup {s[1]} ELSE chosen
    /\ Then(c, IF hand[c].do = "once" THEN "show allowed" ELSE "show denied")
    /\ UNCHANGED <<kind, wait, told, inbox, posting, posted, groups, answered,
                   watched, screen, cache, ruled, restart, revived, unedited,
                   clicks, breaks>>

\* ScopeToggle and ExpandAlways read the entry under the lock ...
ReadEntry(c) ==
    /\ hand[c].do \in {"toggle", "expand"}
    /\ IF hand[c].slot \in entries THEN Then(c, "draw") ELSE Done(c)
    /\ UNCHANGED <<kind, wait, told, chan, inbox, posting, posted, entries,
                   groups, answered, watched, screen, cache, ruled, chosen,
                   restart, revived, unedited, clicks, breaks>>

\* ... and draw the level 2 buttons after it, whatever happened in between, if
\* Discord takes the drawing.
DrawLevel2(c) ==
    LET s == hand[c].slot IN
    /\ hand[c].do = "draw"
    /\ \/ /\ screen' = [screen EXCEPT ![s] = "level 2"]
          /\ revived' = IF s \in entries THEN revived ELSE revived \cup {s}
       \/ UNCHANGED <<screen, revived>>
    /\ Done(c)
    /\ UNCHANGED <<kind, wait, told, chan, inbox, posting, posted, entries,
                   groups, answered, watched, cache, ruled, chosen, restart,
                   unedited, clicks, breaks>>

\* handle_allow_always removes the entry, then shows that it is working.
TakeForAlways(c) ==
    LET s == hand[c].slot IN
    /\ hand[c].do \in {"always tool", "always exact"}
    /\ s \in entries
    /\ entries' = entries \ {s}
    /\ Close(s, "working")
    /\ Then(c, IF hand[c].do = "always tool" THEN "save tool" ELSE "save exact")
    /\ UNCHANGED <<kind, wait, told, chan, inbox, posting, posted, groups,
                   answered, watched, cache, ruled, chosen, restart, revived,
                   clicks, breaks>>

\* The rule is in the settings file: tell the worker.
SaveSucceeds(c) ==
    LET r == hand[c].slot[1] IN
    /\ hand[c].do \in {"save tool", "save exact"}
    /\ chan' = Sent({r}, IF hand[c].do = "save tool" THEN "always tool"
                         ELSE "always exact")
    /\ chosen' = chosen \cup {r}
    /\ ruled' = IF hand[c].do = "save tool" THEN ruled \cup {kind[r]} ELSE ruled
    /\ Then(c, IF hand[c].do = "save tool" THEN "restart tool" ELSE "restart")
    /\ UNCHANGED <<kind, wait, told, inbox, posting, posted, entries, groups,
                   answered, watched, screen, cache, restart, revived,
                   unedited, clicks, breaks>>

\* No rule could be built, the session or project is unknown, or the editor
\* failed, three times when only its lock was taken.
SaveFails(c) ==
    /\ hand[c].do \in {"save tool", "save exact"}
    /\ chan' = Sent({hand[c].slot[1]}, "deny")
    /\ Then(c, "show save failed")
    /\ UNCHANGED <<kind, wait, told, inbox, posting, posted, entries, groups,
                   answered, watched, screen, cache, ruled, chosen, restart,
                   revived, unedited, clicks, breaks>>

\* dismiss_pending_by_tool: the other prompts of the same tool.
DismissedBy(r) == {s \in entries : kind[s[1]] = kind[r] /\ s[1] # r}

\* The thread restarts its process at the next message; a rule for the whole
\* tool allows the tool's other prompts as well ...
RestartAndDismiss(c) ==
    LET D == IF hand[c].do = "restart tool"
             THEN DismissedBy(hand[c].slot[1]) ELSE {} IN
    /\ hand[c].do \in {"restart tool", "restart"}
    /\ restart' = TRUE
    /\ entries' = entries \ D
    /\ chan' = Sent({s[1] : s \in D}, "always tool")
    /\ hand' = [hand EXCEPT ![c].do = "show saved", ![c].rest = D]
    /\ UNCHANGED <<kind, wait, told, inbox, posting, posted, groups, answered,
                   watched, screen, cache, ruled, chosen, revived, unedited,
                   clicks, breaks>>

\* ... and their messages are edited one after the other.
ShowDismissed(c, s) ==
    /\ s \in hand[c].rest
    /\ Close(s, "dismissed")
    /\ hand' = [hand EXCEPT ![c].rest = @ \ {s}]
    /\ UNCHANGED <<kind, wait, told, chan, inbox, posting, posted, entries,
                   groups, answered, watched, cache, ruled, chosen, restart,
                   revived, clicks, breaks>>

\* "Other" opens a modal and "Cancel" a dialog, for the user who clicked.
Dialogs == {"text", "cancel"}

\* Sent or confirmed whenever the user likes, each looks for the entry again.
LeaveDialog(c) ==
    /\ hand[c].do \in Dialogs
    /\ IF hand[c].slot \in entries
       THEN Then(c, IF hand[c].do = "text" THEN "answer" ELSE "confirmed") ELSE Done(c)
    /\ UNCHANGED <<kind, wait, told, chan, inbox, posting, posted, entries,
                   groups, answered, watched, screen, cache, ruled, chosen,
                   restart, revived, unedited, clicks, breaks>>

\* Abort, or a modal closed without an answer.
CloseDialog(c) ==
    /\ hand[c].do \in Dialogs
    /\ Done(c)
    /\ UNCHANGED <<kind, wait, told, chan, inbox, posting, posted, entries,
                   groups, answered, watched, screen, cache, ruled, chosen,
                   restart, revived, unedited, clicks, breaks>>

\* handle_question_option, _select and the modal: remove the entry; a single
\* question is answered by that.
TakeAnswer(c) ==
    LET s == hand[c].slot IN
    /\ hand[c].do = "answer"
    /\ s \in entries
    /\ entries' = entries \ {s}
    /\ chan' = IF kind[s[1]] = "question" THEN Sent({s[1]}, "answer") ELSE chan
    /\ Then(c, IF kind[s[1]] = "question" THEN "show answered" ELSE "record")
    /\ UNCHANGED <<kind, wait, told, inbox, posting, posted, groups, answered,
                   watched, screen, cache, ruled, chosen, restart, revived,
                   unedited, clicks, breaks>>

\* record_group_answer counts question indices, not texts.
Complete(r) == answered'[r] = Parts(r)

\* handle_question_answer of a group: the last answer sends all of them; an
\* answer whose group is gone is dropped, and shown as answered all the same.
RecordAnswer(c) ==
    LET s == hand[c].slot
        r == s[1] IN
    /\ hand[c].do = "record"
    /\ \/ /\ r \in groups
          /\ answered' = [answered EXCEPT ![r] = @ \cup {s[2]}]
          /\ groups' = IF Complete(r) THEN groups \ {r} ELSE groups
          /\ chan' = IF Complete(r) THEN Sent({r}, "answer") ELSE chan
       \/ /\ r \notin groups
          /\ UNCHANGED <<answered, groups, chan>>
    /\ Then(c, "show answered")
    /\ UNCHANGED <<kind, wait, told, inbox, posting, posted, entries, watched,
                   screen, cache, ruled, chosen, restart, revived, unedited,
                   clicks, breaks>>

\* cancel_question, once it is confirmed: deny the question, or the
\* whole group whose posted questions are disabled.
CancelQuestion(c) ==
    LET s == hand[c].slot
        r == s[1]
        live == IF kind[r] = "group" THEN r \in groups ELSE s \in entries
        gone == entries \cap SlotsOf(r) IN
    /\ hand[c].do = "confirmed"
    /\ \/ /\ live
          /\ groups' = groups \ {r}
          /\ entries' = entries \ gone
          /\ chan' = Sent({r}, "deny")
          /\ \E failed \in SUBSET gone :
                /\ screen' = [x \in Slots |-> IF x \in gone \ failed
                                              THEN "canceled" ELSE screen[x]]
                /\ unedited' = (unedited \ gone) \cup failed
       \/ /\ ~live
          /\ UNCHANGED <<groups, entries, chan, screen, unedited>>
    /\ Done(c)
    /\ UNCHANGED <<kind, wait, told, inbox, posting, posted, answered, watched,
                   cache, ruled, chosen, restart, revived, clicks, breaks>>

\* disable_permission_buttons, disable_question_components: the last edit.
ShowOutcome(c) ==
    LET label == [x \in {"show allowed", "show denied", "show saved",
                         "show save failed", "show answered"} |->
                  CASE x = "show allowed" -> "allowed"
                    [] x = "show denied" -> "denied"
                    [] x = "show saved" -> "saved"
                    [] x = "show save failed" -> "save failed"
                    [] OTHER -> "answered"] IN
    /\ hand[c].do \in DOMAIN label /\ hand[c].rest = {}
    /\ Close(hand[c].slot, label[hand[c].do])
    /\ Done(c)
    /\ UNCHANGED <<kind, wait, told, chan, inbox, posting, posted, entries,
                   groups, answered, watched, cache, ruled, chosen, restart,
                   revived, clicks, breaks>>
-----------------------------------------------------------------------------
WorkerStep(r) == Resolve(r) \/ PermissionTimeout(r)
HandlerStep == TakeRequest \/ PostPrompt \/ RegisterPrompt \/ PostFails
HandStep(c) ==
    \/ TooLate(c) \/ DecideOnce(c) \/ ReadEntry(c) \/ DrawLevel2(c)
    \/ TakeForAlways(c) \/ SaveSucceeds(c) \/ SaveFails(c)
    \/ RestartAndDismiss(c) \/ LeaveDialog(c) \/ CloseDialog(c)
    \/ TakeAnswer(c) \/ RecordAnswer(c)
    \/ CancelQuestion(c) \/ ShowOutcome(c) \/ \E s \in Slots : ShowDismissed(c, s)

FlowNext ==
    \/ \E r \in Requests : Arrive(r) \/ WorkerStep(r) \/ Watcher(r)
    \/ InterruptAll \/ CleanupPrompts
    \/ HandlerStep
    \/ \E c \in Clickers : HandStep(c) \/ \E s \in Slots : Click(c, s)

FlowSpec == FlowInit /\ [][FlowNext]_flowVars
-----------------------------------------------------------------------------
FlowTypeOK ==
    /\ kind \in [Requests -> Tools \cup {"question", "group"}]
    /\ wait \in [Requests -> {"new", "waiting", "resolved", "timeout",
                              "interrupt", "auto", "full"}]
    /\ told \in [Requests -> {"none", "allow", "deny", "answer"}]
    /\ chan \in [Requests -> Allows \cup {"open", "deny", "answer", "dropped"}]
    /\ inbox \in Seq(Requests) /\ Len(inbox) <= ChannelCap
    /\ posting \in Slots \cup {NoSlot} /\ posted \in BOOLEAN
    /\ entries \subseteq Slots
    /\ groups \subseteq Requests /\ watched \subseteq Requests
    /\ answered \in [Requests -> SUBSET {0, 1}]
    /\ DOMAIN screen = Slots
    /\ \A c \in Clickers :
          hand[c].slot \in Slots \cup {NoSlot} /\ hand[c].rest \subseteq Slots
    /\ cache \subseteq Tools /\ ruled \subseteq Tools
    /\ chosen \subseteq Requests
    /\ restart \in BOOLEAN /\ revived \subseteq Slots /\ unedited \subseteq Slots
    /\ clicks \in 0..MaxClicks /\ breaks \in 0..MaxBreaks

\* The worker stopped waiting before anybody decided.
Abandoned(r) == wait[r] \in {"timeout", "interrupt"}

\* What a prompt shows is what Claude was or will be told.  A prompt that says
\* it was denied, timed out or could not be saved never hides an allowed tool,
\* and one that says allowed was denied only if the wait ended by itself first.
LabelsAgree ==
    \A s \in Slots :
        /\ screen[s] \in SaysDenied =>
              told[s[1]] # "allow" /\ chan[s[1]] \notin Allows
        /\ screen[s] \in SaysAllowed =>
              told[s[1]] = "allow" \/ chan[s[1]] \in Allows \/ Abandoned(s[1])

\* Claude may use a tool only if a user clicked allow on that very request, or
\* a rule for the whole tool was saved.
AllowedByUser ==
    \A r \in Requests : told[r] = "allow" => r \in chosen \/ kind[r] \in ruled

\* Somebody can still decide a request that is waited for: it is queued, being
\* posted, registered (of a group: each question without an answer), in the
\* hands of a click that no dialog holds up, or decided already.
WaitHasDecider ==
    \A r \in Requests : wait[r] = "waiting" /\ chan[r] = "open" =>
        \/ \E i \in 1..Len(inbox) : inbox[i] = r
        \/ posting[1] = r
        \/ kind[r] # "group" /\ (<<r, 0>> \in entries
              \/ \E c \in Clickers : hand[c].slot = <<r, 0>> /\ hand[c].do \notin Dialogs)
        \/ /\ kind[r] = "group" /\ r \in groups
           /\ \A i \in Parts(r) \ answered[r] :
                 \/ <<r, i>> \in entries
                 \/ \E c \in Clickers : hand[c].slot = <<r, i>> /\ hand[c].do = "record"

\* Buttons stay on a tool's prompt that is decided only while somebody is about
\* to remove them, if the session was interrupted or cleaned up, if a level 2
\* drawing crossed the decision, or if the last edit to remove them failed.
DecidedPromptsClose ==
    \A r \in Requests :
        LET s == <<r, 0>> IN
        IsTool(r) /\ told[r] # "none" /\ screen[s] \in Buttons =>
            \/ breaks > 0 \/ s \in revived \cup unedited \/ r \in watched
            \/ posting = s
            \/ \E c \in Clickers : hand[c].slot = s \/ s \in hand[c].rest

\* A tool Claude asks for is allowed or denied in the end (it asks for each once),
\* whether or not its prompt was posted and whoever clicks.
EveryToolDecided ==
    []<>(\A r \in Requests : wait[r] # "new" /\ IsTool(r) => told[r] # "none")
=============================================================================
