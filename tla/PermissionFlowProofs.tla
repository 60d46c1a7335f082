------------------------- MODULE PermissionFlowProofs -------------------------
(***************************************************************************)
(* What is proved of PermissionFlow: no tool is allowed that nobody chose, *)
(* what a prompt shows is what was decided, a request that is waited for   *)
(* can be decided, and no prompt keeps its buttons.                        *)
(*                                                                         *)
(* The argument follows one prompt through its life: in the queue, being   *)
(* posted, registered, in the hands of the click that took its entry,      *)
(* decided.  The entry in pending_permissions is what makes its owner      *)
(* unique, so the one decision that its channel takes is the one that the  *)
(* owner shows.                                                            *)
(***************************************************************************)
EXTENDS MCPermissions, SettingsEditorProofs, SequenceTheorems, TLAPS

ToolDos == {"once", "deny", "expand", "toggle", "draw", "always tool", "always exact",
            "save tool", "save exact", "restart tool", "restart",
            "show allowed", "show denied", "show saved", "show save failed"}
QuestionDos == {"answer", "text", "cancel", "confirmed", "record", "show answered"}
Dos == ToolDos \cup QuestionDos \cup {"none"}
Saves == {"save tool", "save exact"}

ToolScreens == {"level 1", "level 2", "working", "allowed", "saved", "dismissed",
                "denied", "timed out", "save failed"}
QuestionScreens == {"question", "answered", "canceled"}

Labels == {"none"} \cup ToolScreens \cup QuestionScreens

Waits == {"new", "waiting", "resolved", "timeout", "interrupt", "auto", "full"}
Decisions == Allows \cup {"open", "deny", "answer", "dropped"}
HandType == [slot : Slots \cup {NoSlot}, do : Dos, rest : SUBSET Slots]

\* The slots that have a message, and those of them that are for a tool.
Prompts == {s \in Slots : s[2] \in Parts(s[1])}
ToolPrompts == {s \in Prompts : IsTool(s[1])}
Queue == {inbox[i] : i \in 1 .. Len(inbox)}
Once == \A i, j \in 1 .. Len(inbox) : inbox[i] = inbox[j] => i = j

StateTypes ==
  /\ kind \in [Requests -> Tools \cup {"question", "group"}]
  /\ wait \in [Requests -> Waits]
  /\ told \in [Requests -> {"none", "allow", "deny", "answer"}]
  /\ chan \in [Requests -> Decisions]
  /\ inbox \in Seq(Requests)
  /\ posting \in Prompts \cup {NoSlot} /\ (posted => posting # NoSlot)
  /\ posted \in BOOLEAN /\ breaks \in Nat
  /\ entries \subseteq Prompts
  /\ groups \subseteq {r \in Requests : kind[r] = "group"}
  /\ watched \subseteq {r \in Requests : IsTool(r)}
  /\ answered \in [Requests -> SUBSET {0, 1}]
  /\ screen \in [Slots -> Labels]
  /\ hand \in [Clickers -> HandType]

\* A click is on a message and does what its buttons are for; only who saved a
\* rule for a tool has other messages to edit.
HandKinds ==
  \A c \in Clickers :
    /\ hand[c].do \in ToolDos => hand[c].slot \in ToolPrompts
    /\ hand[c].do \in QuestionDos => hand[c].slot \in Prompts \ ToolPrompts
    /\ hand[c].do = "none" => hand[c].slot = NoSlot
    /\ hand[c].rest \subseteq ToolPrompts
    /\ hand[c].rest # {} => hand[c].do = "show saved"

\* A message shows what is said of tools, or of questions.
ScreenKinds ==
  \A s \in Slots :
    /\ screen[s] \in ToolScreens => s \in ToolPrompts
    /\ screen[s] \in QuestionScreens => s \in Prompts \ ToolPrompts

\* Only a tool is allowed.
ChanKinds == \A r \in Requests : chan[r] \in Allows => IsTool(r)

KindInd == HandKinds /\ ScreenKinds /\ ChanKinds

\* Nothing has happened yet to a request that the handler has not taken.
Untouched(r) ==
  /\ chan[r] = "open" /\ posting[1] # r /\ r \notin groups /\ r \notin watched
  /\ \A s \in Slots : s[1] = r => s \notin entries /\ screen[s] = "none"
  /\ \A c \in Clickers : hand[c].slot[1] # r /\ \A s \in hand[c].rest : s[1] # r

\* It is queued once, if the worker handed it over at all.
FreshInd ==
  /\ \A r \in Requests :
       /\ wait[r] \in {"new", "auto", "full"} => r \notin Queue
       /\ wait[r] \in {"new", "auto", "full"} \/ r \in Queue => Untouched(r)
  /\ Once

\* Where an allowance can come from.
RuleInd ==
  /\ cache \subseteq ruled
  /\ \A c \in Clickers : hand[c].do = "restart tool" => kind[hand[c].slot[1]] \in ruled
  /\ \A r \in Requests :
       /\ chan[r] = "always tool" => kind[r] \in ruled
       /\ chan[r] \in Allows => r \in chosen \/ kind[r] \in ruled
       /\ wait[r] = "auto" => kind[r] \in ruled

\* The life of a tool's prompt: posted, registered, taken to save a rule.
Saved(s) == \E c \in Clickers : hand[c].slot = s /\ hand[c].do \in Saves
Dismissed(s) == \E c \in Clickers : s \in hand[c].rest

PostedAlone ==
  posting \in ToolPrompts =>
    /\ chan[posting[1]] = "open" /\ posting \notin entries /\ posting[1] \notin watched
    /\ (\A c \in Clickers : hand[c].slot # posting) /\ ~Dismissed(posting)
    /\ ~posted => screen[posting] = "none"

EntryOwns ==
  \A s \in ToolPrompts : s \in entries => chan[s[1]] = "open" /\ ~Saved(s) /\ ~Dismissed(s)

SaverOwns ==
  \A c \in Clickers :
    hand[c].do \in Saves =>
      /\ chan[hand[c].slot[1]] = "open"
      /\ \A d \in Clickers :
           hand[d].slot = hand[c].slot /\ hand[d].do \in Saves => d = c

\* Who is about to show a decision knows it.
HandsKnow ==
  /\ \A c \in Clickers :
       /\ hand[c].do \in {"show allowed", "restart tool", "restart", "show saved"} =>
            chan[hand[c].slot[1]] \in Allows
       /\ hand[c].do \in {"show denied", "show save failed"} => chan[hand[c].slot[1]] = "deny"
  /\ \A s \in ToolPrompts : Dismissed(s) => chan[s[1]] \in Allows

\* What is shown is true and stays so.
ScreensTrue ==
  \A s \in ToolPrompts :
    /\ screen[s] \in SaysAllowed => chan[s[1]] \in Allows
    /\ screen[s] \in SaysDenied =>
         chan[s[1]] \notin Allows /\ s \notin entries /\ ~Saved(s) /\ posting # s

OwnerInd == PostedAlone /\ EntryOwns /\ SaverOwns /\ HandsKnow /\ ScreensTrue

\* What Claude was told came from the worker's cache or from the channel.
ToldInd ==
  \A r \in Requests :
    /\ told[r] = "allow" => wait[r] = "auto" \/ (wait[r] = "resolved" /\ chan[r] \in Allows)
    /\ wait[r] = "resolved" => chan[r] # "open"
    /\ wait[r] = "interrupt" => breaks > 0

Waiting(r) == wait[r] = "waiting" /\ chan[r] = "open"
Records(c, s) == hand[c].slot = s /\ hand[c].do = "record"

\* Who can still decide: the owner of the prompt, or of the group, which lacks
\* the answers that are still being asked for.
HasOwner(r) ==
  Waiting(r) /\ kind[r] # "group" =>
    \/ r \in Queue \/ posting[1] = r
    \/ <<r, 0>> \in entries \/ Saved(<<r, 0>>)
HasGroup(r) == Waiting(r) /\ kind[r] = "group" /\ r \notin Queue => r \in groups
HasAnswers(r) ==
  r \in groups =>
    \A i \in Parts(r) \ answered[r] :
      \/ posting[1] = r /\ i >= posting[2]
      \/ <<r, i>> \in entries
      \/ \E c \in Clickers : Records(c, <<r, i>>)

DeciderInd == \A r \in Requests : HasOwner(r) /\ HasGroup(r) /\ HasAnswers(r)

\* Buttons without an entry are about to be removed, or stay as they were drawn
\* late or their removal failed; and an entry is watched.
Shows(c, s) == hand[c].slot = s /\ hand[c].do \in {"show allowed", "show denied"}
Left == revived \cup unedited
Closes(s) ==
  screen[s] \in Buttons =>
    \/ s \in entries \/ s \in Left \/ breaks > 0 \/ posting = s
    \/ Dismissed(s) \/ \E c \in Clickers : Shows(c, s)
IsWatched(s) == s \in entries => s[1] \in watched \/ breaks > 0

CloseInd == \A s \in ToolPrompts : Closes(s) /\ IsWatched(s)

FlowInd ==
  /\ StateTypes /\ KindInd /\ FreshInd /\ RuleInd
  /\ OwnerInd /\ ToldInd /\ DeciderInd /\ CloseInd

-----------------------------------------------------------------------------
\* A slot is a pair, and none is the absence of one.
LEMMA SlotPairs ==
  /\ NoSlot \notin Slots /\ NoSlot[1] \notin Requests
  /\ \A s \in Slots : s[1] \in Requests /\ s[2] \in {0, 1} /\ s = <<s[1], s[2]>>
  /\ \A r \in Requests, i \in {0, 1} :
       <<r, i>> \in Slots /\ <<r, i>>[1] = r /\ <<r, i>>[2] = i
BY FlowAssumption DEF Slots, NoSlot

\* Which slots have a message depends on the kinds alone, and a tool has one.
LEMMA PromptPairs ==
  /\ ToolPrompts \subseteq Prompts /\ Prompts \subseteq Slots /\ NoSlot \notin Prompts
  /\ \A s \in Prompts : s[1] \in Requests /\ s[2] \in Parts(s[1]) /\ s = <<s[1], s[2]>>
  /\ \A r \in Requests : SlotsOf(r) = {s \in Prompts : s[1] = r}
  /\ \A r \in Requests : <<r, 0>> \in Prompts /\ <<r, 0>>[1] = r /\ <<r, 0>>[2] = 0
  /\ \A s \in ToolPrompts : IsTool(s[1]) /\ kind[s[1]] # "group" /\ s = <<s[1], 0>>
  /\ \A s \in Prompts : kind[s[1]] # "group" => s = <<s[1], 0>>
  /\ \A r \in Requests : IsTool(r) => <<r, 0>> \in ToolPrompts
  /\ \A s \in Prompts \ ToolPrompts : ~IsTool(s[1])
<1>1. ToolPrompts \subseteq Prompts /\ Prompts \subseteq Slots /\ NoSlot \notin Prompts
  BY SlotPairs DEF Prompts, ToolPrompts
<1>2. \A r \in Requests : 0 \in Parts(r) /\ Parts(r) \subseteq {0, 1} /\ (kind[r] # "group" => Parts(r) = {0})
  BY DEF Parts
<1>3. \A r \in Requests : SlotsOf(r) = {s \in Prompts : s[1] = r}
  <2>1. ASSUME NEW r \in Requests, NEW s \in SlotsOf(r) PROVE s \in Prompts /\ s[1] = r
    <3>1. PICK i \in Parts(r) : s = <<r, i>>  BY DEF SlotsOf
    <3>2. s \in Slots /\ s[1] = r /\ s[2] = i  BY <1>2, <3>1, SlotPairs
    <3>. QED  BY <3>2 DEF Prompts
  <2>2. ASSUME NEW r \in Requests, NEW s \in Prompts, s[1] = r PROVE s \in SlotsOf(r)
    <3>1. s = <<r, s[2]>> /\ s[2] \in Parts(r)  BY <2>2, SlotPairs DEF Prompts
    <3>. QED  BY <3>1 DEF SlotsOf
  <2>. QED  BY <2>1, <2>2
<1>4. \A s \in Prompts : s[1] \in Requests /\ s[2] \in Parts(s[1]) /\ s = <<s[1], s[2]>>
  BY SlotPairs DEF Prompts
<1>5. \A r \in Requests : <<r, 0>> \in Prompts /\ <<r, 0>>[1] = r /\ <<r, 0>>[2] = 0
  BY <1>2, SlotPairs DEF Prompts
<1>6. \A s \in Prompts : kind[s[1]] # "group" => s = <<s[1], 0>>
  BY <1>2, <1>4
<1>7. \A r : IsTool(r) => kind[r] # "group"  BY FlowAssumption DEF IsTool
<1>. QED  BY <1>1, <1>3, <1>4, <1>5, <1>6, <1>7 DEF ToolPrompts

\* The kinds never change.
LEMMA KindsStay ==
  ASSUME kind' = kind
  PROVE  /\ Prompts' = Prompts /\ ToolPrompts' = ToolPrompts
         /\ \A r : IsTool(r)' = IsTool(r) /\ Parts(r)' = Parts(r)
BY DEF Prompts, ToolPrompts, IsTool, Parts

\* What a handler leaves behind when it goes on, and when it ends.
Goes(c, d) ==
  /\ hand' \in [Clickers -> HandType]
  /\ hand'[c].do = d /\ hand'[c].slot = hand[c].slot /\ hand'[c].rest = hand[c].rest
  /\ \A x \in Clickers \ {c} : hand'[x] = hand[x]

Freed(c) ==
  /\ hand' \in [Clickers -> HandType]
  /\ hand'[c].do = "none" /\ hand'[c].slot = NoSlot /\ hand'[c].rest = {}
  /\ \A x \in Clickers \ {c} : hand'[x] = hand[x]

\* What sending a decision does to the channels.
Decides(R, d) ==
  /\ chan' \in [Requests -> Decisions]
  /\ \A r \in Requests : chan'[r] = IF r \in R /\ chan[r] = "open" THEN d ELSE chan[r]

\* What an edit of a message does to the screens, if it does not fail.
Draws(s, l) ==
  /\ screen' \in [Slots -> Labels]
  /\ screen'[s] \in {l, screen[s]} /\ \A x \in Slots \ {s} : screen'[x] = screen[x]

\* An edit that removes the buttons does so, or has failed.
Edits(s, l) ==
  /\ Draws(s, l)
  /\ screen'[s] = l \/ s \in unedited'
  /\ \A x \in Slots \ {s} : x \in unedited <=> x \in unedited'

\* A click that goes on holds its slot and the next thing to do.
LEMMA ThenGoes ==
  ASSUME StateTypes, NEW c \in Clickers, NEW d \in Dos, Then(c, d) PROVE Goes(c, d)
BY DEF StateTypes, HandType, Then, Goes

\* A click that ends holds nothing.
LEMMA DoneFrees ==
  ASSUME StateTypes, NEW c \in Clickers, Done(c) PROVE Freed(c)
<1>1. Free \in HandType /\ Free.do = "none" /\ Free.slot = NoSlot /\ Free.rest = {}
  BY DEF Free, HandType, Dos
<1>. QED  BY <1>1 DEF StateTypes, Done, Freed

\* What is sent to requests reaches those whose channel is open.
LEMMA SentDecides ==
  ASSUME StateTypes, NEW R, NEW d \in Decisions, chan' = Sent(R, d) PROVE Decides(R, d)
BY DEF StateTypes, Sent, Decides

\* Both ways an edit can end leave the other messages alone.
LEMMA CloseEdits ==
  ASSUME StateTypes, NEW s \in Slots, NEW l \in Labels, Close(s, l) PROVE Edits(s, l)
<1>1. CASE screen' = [screen EXCEPT ![s] = l] /\ unedited' = unedited \ {s}
  BY <1>1 DEF StateTypes, Draws, Edits
<1>2. CASE screen' = screen /\ unedited' = unedited \cup {s}
  BY <1>2 DEF StateTypes, Draws, Edits
<1>. QED  BY <1>1, <1>2 DEF Close

-----------------------------------------------------------------------------
(***************************************************************************)
(* What each handler of a click does, in the words of the invariant.       *)
(***************************************************************************)
HandledVars == <<kind, wait, told, inbox, posting, posted, answered, watched, cache, breaks>>

\* A handler has what its step says, and its message is a prompt of that kind.
LEMMA HandsAt ==
  ASSUME StateTypes, KindInd, NEW c \in Clickers
  PROVE  /\ hand[c] \in HandType
         /\ hand[c].do \in ToolDos => hand[c].slot \in ToolPrompts
         /\ hand[c].do \in QuestionDos =>
              hand[c].slot \in Prompts /\ ~IsTool(hand[c].slot[1])
         /\ hand[c].do # "show saved" => hand[c].rest = {}
BY PromptPairs DEF StateTypes, KindInd, HandKinds

\* An entry that is gone is told so, and nothing else changes.
LEMMA TooLateDoes ==
  ASSUME StateTypes, NEW c \in Clickers, TooLate(c)
  PROVE  /\ Freed(c) /\ hand[c].do \in Allows \cup {"deny", "answer"}
         /\ UNCHANGED <<HandledVars, chan, entries, groups, screen, ruled, chosen, revived, unedited>>
BY DoneFrees DEF TooLate, HandledVars

\* An answer takes the entry and sends the decision.
LEMMA DecideOnceDoes ==
  ASSUME StateTypes, KindInd, NEW c \in Clickers, DecideOnce(c)
  PROVE  /\ hand[c].slot \in ToolPrompts /\ hand[c].slot \in entries
         /\ entries' = entries \ {hand[c].slot}
         /\ \/ /\ Decides({hand[c].slot[1]}, "once") /\ Goes(c, "show allowed")
               /\ chosen' = chosen \cup {hand[c].slot[1]}
            \/ /\ Decides({hand[c].slot[1]}, "deny") /\ Goes(c, "show denied")
               /\ chosen' = chosen
         /\ hand[c].do \in {"once", "deny"}
         /\ UNCHANGED <<HandledVars, groups, screen, ruled, revived, unedited>>
<1>1. hand[c].do \in {"once", "deny"}  BY DEF DecideOnce
<1>2. hand[c].slot \in ToolPrompts  BY <1>1, HandsAt DEF ToolDos
<1>3. CASE hand[c].do = "once"
  <2>1. Then(c, "show allowed") /\ chan' = Sent({hand[c].slot[1]}, "once")
    BY <1>3 DEF DecideOnce
  <2>2. Goes(c, "show allowed")  BY <2>1, ThenGoes DEF Dos, ToolDos
  <2>3. Decides({hand[c].slot[1]}, "once")  BY <2>1, SentDecides DEF Decisions, Allows
  <2>. QED  BY <1>1, <1>2, <1>3, <2>2, <2>3 DEF DecideOnce, HandledVars
<1>4. CASE hand[c].do = "deny"
  <2>1. Then(c, "show denied") /\ chan' = Sent({hand[c].slot[1]}, "deny")
    BY <1>4 DEF DecideOnce
  <2>2. Goes(c, "show denied")  BY <2>1, ThenGoes DEF Dos, ToolDos
  <2>3. Decides({hand[c].slot[1]}, "deny")  BY <2>1, SentDecides DEF Decisions
  <2>. QED  BY <1>1, <1>2, <1>4, <2>2, <2>3 DEF DecideOnce, HandledVars
<1>. QED  BY <1>1, <1>3, <1>4

\* The second level and the toggle read the entry, and take nothing.
LEMMA ReadEntryDoes ==
  ASSUME StateTypes, NEW c \in Clickers, ReadEntry(c)
  PROVE  /\ hand[c].do \in {"toggle", "expand"}
         /\ Freed(c) \/ Goes(c, "draw")
         /\ UNCHANGED <<HandledVars, chan, entries, groups, screen, ruled, chosen, revived, unedited>>
BY DoneFrees, ThenGoes DEF ReadEntry, HandledVars, Dos, ToolDos

\* The second level is drawn over the first.
LEMMA DrawLevel2Does ==
  ASSUME StateTypes, KindInd, NEW c \in Clickers, DrawLevel2(c)
  PROVE  /\ hand[c].do = "draw" /\ hand[c].slot \in ToolPrompts
         /\ Draws(hand[c].slot, "level 2")
         /\ \/ screen' = screen /\ revived' = revived
            \/ revived' = IF hand[c].slot \in entries THEN revived ELSE revived \cup {hand[c].slot}
         /\ Freed(c)
         /\ UNCHANGED <<HandledVars, chan, entries, groups, ruled, chosen, unedited>>
<1>1. hand[c].do = "draw"  BY DEF DrawLevel2
<1>2. hand[c].slot \in ToolPrompts  BY <1>1, HandsAt DEF ToolDos
<1>3. hand[c].slot \in Slots  BY <1>2, PromptPairs
<1>4. Draws(hand[c].slot, "level 2")
  BY <1>3 DEF DrawLevel2, Draws, StateTypes, Labels, ToolScreens
<1>. QED  BY <1>1, <1>2, <1>4, DoneFrees DEF DrawLevel2, HandledVars

\* Who saves a rule takes the entry first, and decides later.
LEMMA TakeForAlwaysDoes ==
  ASSUME StateTypes, KindInd, NEW c \in Clickers, TakeForAlways(c)
  PROVE  /\ hand[c].slot \in ToolPrompts /\ hand[c].slot \in entries
         /\ hand[c].do \in {"always tool", "always exact"}
         /\ entries' = entries \ {hand[c].slot}
         /\ Edits(hand[c].slot, "working")
         /\ \E d \in Saves : Goes(c, d)
         /\ UNCHANGED <<HandledVars, chan, groups, ruled, chosen, revived>>
<1>1. hand[c].do \in {"always tool", "always exact"}  BY DEF TakeForAlways
<1>2. hand[c].slot \in ToolPrompts  BY <1>1, HandsAt DEF ToolDos
<1>3. \E d \in Saves : Then(c, d)  BY DEF TakeForAlways, Saves
<1>4. \E d \in Saves : Goes(c, d)  BY <1>3, ThenGoes DEF Dos, ToolDos, Saves
<1>5. hand[c].slot \in Slots  BY <1>2, PromptPairs
<1>6. Edits(hand[c].slot, "working")
  BY <1>5, CloseEdits DEF TakeForAlways, Labels, ToolScreens
<1>. QED  BY <1>1, <1>2, <1>4, <1>6 DEF TakeForAlways, HandledVars

\* A saved rule allows its own request, and a rule for the tool is remembered.
LEMMA SaveSucceedsDoes ==
  ASSUME StateTypes, KindInd, NEW c \in Clickers, SaveSucceeds(c)
  PROVE  /\ hand[c].slot \in ToolPrompts /\ hand[c].do \in Saves
         /\ chosen' = chosen \cup {hand[c].slot[1]}
         /\ \/ /\ Decides({hand[c].slot[1]}, "always tool") /\ Goes(c, "restart tool")
               /\ ruled' = ruled \cup {kind[hand[c].slot[1]]}
            \/ /\ Decides({hand[c].slot[1]}, "always exact") /\ Goes(c, "restart")
               /\ ruled' = ruled
         /\ UNCHANGED <<HandledVars, entries, groups, screen, revived, unedited>>
<1>1. hand[c].do \in Saves  BY DEF SaveSucceeds, Saves
<1>2. hand[c].slot \in ToolPrompts  BY <1>1, HandsAt DEF ToolDos, Saves
<1>3. CASE hand[c].do = "save tool"
  <2>1. Then(c, "restart tool") /\ chan' = Sent({hand[c].slot[1]}, "always tool")
    BY <1>3 DEF SaveSucceeds
  <2>2. Goes(c, "restart tool")  BY <2>1, ThenGoes DEF Dos, ToolDos
  <2>3. Decides({hand[c].slot[1]}, "always tool")  BY <2>1, SentDecides DEF Decisions, Allows
  <2>. QED  BY <1>1, <1>2, <1>3, <2>2, <2>3 DEF SaveSucceeds, HandledVars
<1>4. CASE hand[c].do # "save tool"
  <2>1. Then(c, "restart") /\ chan' = Sent({hand[c].slot[1]}, "always exact")
    BY <1>4 DEF SaveSucceeds
  <2>2. Goes(c, "restart")  BY <2>1, ThenGoes DEF Dos, ToolDos
  <2>3. Decides({hand[c].slot[1]}, "always exact")  BY <2>1, SentDecides DEF Decisions, Allows
  <2>. QED  BY <1>1, <1>2, <1>4, <2>2, <2>3 DEF SaveSucceeds, HandledVars
<1>. QED  BY <1>3, <1>4

\* A rule that cannot be saved denies the request.
LEMMA SaveFailsDoes ==
  ASSUME StateTypes, KindInd, NEW c \in Clickers, SaveFails(c)
  PROVE  /\ hand[c].slot \in ToolPrompts /\ hand[c].do \in Saves
         /\ Decides({hand[c].slot[1]}, "deny") /\ Goes(c, "show save failed")
         /\ UNCHANGED <<HandledVars, entries, groups, screen, ruled, chosen, revived, unedited>>
<1>1. hand[c].do \in Saves  BY DEF SaveFails, Saves
<1>2. hand[c].slot \in ToolPrompts  BY <1>1, HandsAt DEF ToolDos, Saves
<1>3. Goes(c, "show save failed")  BY ThenGoes DEF SaveFails, Dos, ToolDos
<1>4. Decides({hand[c].slot[1]}, "deny")  BY SentDecides DEF SaveFails, Decisions
<1>. QED  BY <1>1, <1>2, <1>3, <1>4 DEF SaveFails, HandledVars

\* A rule for the whole tool takes and allows its other prompts, to be drawn next.
LEMMA RestartAndDismissDoes ==
  ASSUME StateTypes, KindInd, NEW c \in Clickers, RestartAndDismiss(c)
  PROVE  \E D \in SUBSET entries :
           /\ hand[c].slot \in ToolPrompts /\ hand[c].do \in {"restart tool", "restart"}
           /\ hand[c].do = "restart" => D = {}
           /\ D \subseteq ToolPrompts /\ \A s \in D : kind[s[1]] = kind[hand[c].slot[1]]
           /\ entries' = entries \ D
           /\ Decides({s[1] : s \in D}, "always tool")
           /\ hand' \in [Clickers -> HandType]
           /\ hand'[c].do = "show saved" /\ hand'[c].slot = hand[c].slot /\ hand'[c].rest = D
           /\ \A x \in Clickers \ {c} : hand'[x] = hand[x]
           /\ UNCHANGED <<HandledVars, groups, screen, ruled, chosen, revived, unedited>>
<1>. DEFINE D == IF hand[c].do = "restart tool" THEN DismissedBy(hand[c].slot[1]) ELSE {}
<1>1. hand[c].do \in {"restart tool", "restart"}  BY DEF RestartAndDismiss
<1>2. hand[c].slot \in ToolPrompts  BY <1>1, HandsAt DEF ToolDos
<1>3. D \subseteq entries /\ \A s \in D : kind[s[1]] = kind[hand[c].slot[1]]
  BY DEF DismissedBy
<1>4. D \subseteq ToolPrompts  BY <1>2, <1>3, PromptPairs DEF StateTypes, ToolPrompts, IsTool
<1>5. /\ entries' = entries \ D /\ chan' = Sent({s[1] : s \in D}, "always tool")
      /\ hand' = [hand EXCEPT ![c].do = "show saved", ![c].rest = D]
      /\ UNCHANGED <<HandledVars, groups, screen, ruled, chosen, revived, unedited>>
  BY DEF RestartAndDismiss, HandledVars
<1>6. D \in SUBSET Slots /\ "show saved" \in Dos
  BY <1>4, PromptPairs DEF Dos, ToolDos
<1>. HIDE DEF D
<1>7. /\ hand' \in [Clickers -> HandType]
      /\ hand'[c].do = "show saved" /\ hand'[c].slot = hand[c].slot /\ hand'[c].rest = D
      /\ \A x \in Clickers \ {c} : hand'[x] = hand[x]
  BY <1>5, <1>6 DEF StateTypes, HandType
<1>8. Decides({s[1] : s \in D}, "always tool")  BY <1>5, SentDecides DEF Decisions, Allows
<1>9. hand[c].do = "restart" => D = {}  BY DEF D
<1>. QED  BY <1>1, <1>2, <1>3, <1>4, <1>5, <1>7, <1>8, <1>9

\* The other prompts are drawn one at a time.
LEMMA ShowDismissedDoes ==
  ASSUME StateTypes, KindInd, NEW c \in Clickers, NEW s, ShowDismissed(c, s)
  PROVE  /\ s \in hand[c].rest /\ s \in ToolPrompts /\ hand[c].do = "show saved"
         /\ Edits(s, "dismissed")
         /\ hand' \in [Clickers -> HandType]
         /\ hand'[c].do = hand[c].do /\ hand'[c].slot = hand[c].slot
         /\ hand'[c].rest = hand[c].rest \ {s}
         /\ \A x \in Clickers \ {c} : hand'[x] = hand[x]
         /\ UNCHANGED <<HandledVars, chan, entries, groups, ruled, chosen, revived>>
<1>1. hand' = [hand EXCEPT ![c].rest = hand[c].rest \ {s}]  BY DEF ShowDismissed, StateTypes
<1>2. /\ hand' \in [Clickers -> HandType]
      /\ hand'[c].do = hand[c].do /\ hand'[c].slot = hand[c].slot
      /\ hand'[c].rest = hand[c].rest \ {s}
      /\ \A x \in Clickers \ {c} : hand'[x] = hand[x]
  BY <1>1 DEF StateTypes, HandType
<1>3. s \in hand[c].rest /\ s \in ToolPrompts /\ hand[c].do = "show saved"
  BY DEF ShowDismissed, KindInd, HandKinds
<1>4. Edits(s, "dismissed")
  <2>1. s \in Slots  BY <1>3, PromptPairs
  <2>. QED  BY <2>1, CloseEdits DEF ShowDismissed, Labels, ToolScreens
<1>. QED  BY <1>2, <1>3, <1>4 DEF ShowDismissed, HandledVars

\* A dialog that is sent looks for the entry again, and takes nothing yet.
LEMMA LeaveDialogDoes ==
  ASSUME StateTypes, NEW c \in Clickers, LeaveDialog(c)
  PROVE  /\ hand[c].do \in Dialogs
         /\ Freed(c) \/ Goes(c, "answer") \/ Goes(c, "confirmed")
         /\ UNCHANGED <<HandledVars, chan, entries, groups, screen, ruled, chosen, revived, unedited>>
<1>1. Done(c) \/ Then(c, "answer") \/ Then(c, "confirmed")  BY DEF LeaveDialog
<1>2. Freed(c) \/ Goes(c, "answer") \/ Goes(c, "confirmed")
  BY <1>1, DoneFrees, ThenGoes DEF Dos, QuestionDos
<1>. QED  BY <1>2 DEF LeaveDialog, HandledVars

\* A dialog that is closed changes nothing.
LEMMA CloseDialogDoes ==
  ASSUME StateTypes, NEW c \in Clickers, CloseDialog(c)
  PROVE  /\ hand[c].do \in Dialogs /\ Freed(c)
         /\ UNCHANGED <<HandledVars, chan, entries, groups, screen, ruled, chosen, revived, unedited>>
BY DoneFrees DEF CloseDialog, HandledVars

\* An answer takes the entry of its question; in a group it is recorded later.
LEMMA TakeAnswerDoes ==
  ASSUME StateTypes, KindInd, NEW c \in Clickers, TakeAnswer(c)
  PROVE  /\ hand[c].slot \in Prompts /\ ~IsTool(hand[c].slot[1]) /\ hand[c].slot \in entries
         /\ hand[c].do = "answer"
         /\ entries' = entries \ {hand[c].slot}
         /\ \/ /\ kind[hand[c].slot[1]] = "question"
               /\ Decides({hand[c].slot[1]}, "answer") /\ Goes(c, "show answered")
            \/ /\ kind[hand[c].slot[1]] # "question"
               /\ chan' = chan /\ Goes(c, "record")
         /\ UNCHANGED <<HandledVars, groups, screen, ruled, chosen, revived, unedited>>
<1>1. hand[c].do = "answer"  BY DEF TakeAnswer
<1>2. hand[c].slot \in Prompts /\ ~IsTool(hand[c].slot[1])  BY <1>1, HandsAt DEF QuestionDos
<1>3. CASE kind[hand[c].slot[1]] = "question"
  <2>1. Then(c, "show answered") /\ chan' = Sent({hand[c].slot[1]}, "answer")
    BY <1>3 DEF TakeAnswer
  <2>2. Goes(c, "show answered")  BY <2>1, ThenGoes DEF Dos, QuestionDos
  <2>3. Decides({hand[c].slot[1]}, "answer")  BY <2>1, SentDecides DEF Decisions
  <2>. QED  BY <1>1, <1>2, <1>3, <2>2, <2>3 DEF TakeAnswer, HandledVars
<1>4. CASE kind[hand[c].slot[1]] # "question"
  <2>1. Then(c, "record") /\ chan' = chan  BY <1>4 DEF TakeAnswer
  <2>2. Goes(c, "record")  BY <2>1, ThenGoes DEF Dos, QuestionDos
  <2>. QED  BY <1>1, <1>2, <1>4, <2>1, <2>2 DEF TakeAnswer, HandledVars
<1>. QED  BY <1>3, <1>4

\* The last answer of a group decides it; the others are kept.
LEMMA RecordAnswerDoes ==
  ASSUME StateTypes, KindInd, NEW c \in Clickers, RecordAnswer(c)
  PROVE  /\ hand[c].do = "record" /\ hand[c].slot \in Prompts /\ ~IsTool(hand[c].slot[1])
         /\ Goes(c, "show answered")
         /\ answered' \in [Requests -> SUBSET {0, 1}]
         /\ groups' \subseteq groups /\ groups \subseteq groups' \cup {hand[c].slot[1]}
         /\ \/ Decides({hand[c].slot[1]}, "answer") /\ groups' = groups \ {hand[c].slot[1]}
            \/ chan' = chan /\ groups' = groups
         /\ \A r \in groups' : answered'[r] = IF r = hand[c].slot[1]
                                              THEN answered[r] \cup {hand[c].slot[2]}
                                              ELSE answered[r]
         /\ UNCHANGED <<kind, wait, told, inbox, posting, posted, watched, cache, breaks,
                        entries, screen, ruled, chosen, revived, unedited>>
<1>. DEFINE s == hand[c].slot
<1>1. hand[c].do = "record"  BY DEF RecordAnswer
<1>2. s \in Prompts /\ ~IsTool(s[1])  BY <1>1, HandsAt DEF QuestionDos
<1>3. s[1] \in Requests /\ s[2] \in {0, 1}  BY <1>2, PromptPairs, SlotPairs
<1>4. Goes(c, "show answered")  BY ThenGoes DEF RecordAnswer, Dos, QuestionDos
<1>5. CASE s[1] \in groups
  <2>1. answered' = [answered EXCEPT ![s[1]] = @ \cup {s[2]}]  BY <1>5 DEF RecordAnswer
  <2>2. /\ answered' \in [Requests -> SUBSET {0, 1}]
        /\ \A r \in Requests : answered'[r] = IF r = s[1] THEN answered[r] \cup {s[2]} ELSE answered[r]
    BY <1>3, <2>1 DEF StateTypes
  <2>3. \/ chan' = Sent({s[1]}, "answer") /\ groups' = groups \ {s[1]}
        \/ chan' = chan /\ groups' = groups
    BY <1>5 DEF RecordAnswer
  <2>4. \/ Decides({s[1]}, "answer") /\ groups' = groups \ {s[1]}
        \/ chan' = chan /\ groups' = groups
    BY <2>3, SentDecides DEF Decisions
  <2>5. groups' \subseteq Requests /\ groups' \subseteq groups /\ groups \subseteq groups' \cup {s[1]}
    BY <2>3 DEF StateTypes
  <2>. QED  BY <1>1, <1>2, <1>4, <2>2, <2>4, <2>5 DEF RecordAnswer
<1>6. CASE s[1] \notin groups
  <2>1. UNCHANGED <<answered, groups, chan>>  BY <1>6 DEF RecordAnswer
  <2>. QED  BY <1>1, <1>2, <1>4, <1>6, <2>1 DEF RecordAnswer, StateTypes
<1>. QED  BY <1>5, <1>6

\* A cancelled request is denied, and its messages lose their entries.
LEMMA CancelQuestionDoes ==
  ASSUME StateTypes, KindInd, NEW c \in Clickers, CancelQuestion(c)
  PROVE  /\ hand[c].do = "confirmed" /\ hand[c].slot \in Prompts /\ ~IsTool(hand[c].slot[1])
         /\ Freed(c)
         /\ \/ /\ Decides({hand[c].slot[1]}, "deny")
               /\ groups' = groups \ {hand[c].slot[1]}
               /\ entries' = entries \ SlotsOf(hand[c].slot[1])
               /\ screen' \in [Slots -> Labels]
               /\ \A x \in Slots : screen'[x] # screen[x] =>
                    screen'[x] = "canceled" /\ x \in entries /\ x[1] = hand[c].slot[1]
            \/ UNCHANGED <<chan, groups, entries, screen>>
         /\ \A x \in Slots \ SlotsOf(hand[c].slot[1]) : x \in unedited <=> x \in unedited'
         /\ UNCHANGED <<HandledVars, ruled, chosen, revived>>
<1>. DEFINE s == hand[c].slot   gone == entries \cap SlotsOf(s[1])
<1>1. hand[c].do = "confirmed"  BY DEF CancelQuestion
<1>2. s \in Prompts /\ ~IsTool(s[1])  BY <1>1, HandsAt DEF QuestionDos
<1>3. Freed(c)  BY DoneFrees DEF CancelQuestion
<1>4. \/ /\ chan' = Sent({s[1]}, "deny")
         /\ groups' = groups \ {s[1]} /\ entries' = entries \ gone
         /\ \E failed \in SUBSET gone :
              /\ screen' = [x \in Slots |-> IF x \in gone \ failed THEN "canceled" ELSE screen[x]]
              /\ unedited' = (unedited \ gone) \cup failed
      \/ UNCHANGED <<chan, groups, entries, screen, unedited>>
  BY DEF CancelQuestion
<1>7. \A x \in Slots \ SlotsOf(s[1]) : x \in unedited <=> x \in unedited'
  BY <1>4
<1>5. ASSUME NEW failed \in SUBSET gone,
             screen' = [x \in Slots |-> IF x \in gone \ failed THEN "canceled" ELSE screen[x]]
      PROVE  /\ screen' \in [Slots -> Labels]
             /\ \A x \in Slots : screen'[x] # screen[x] =>
                  screen'[x] = "canceled" /\ x \in entries /\ x[1] = s[1]
  <2>1. s[1] \in Requests  BY <1>2, PromptPairs
  <2>2. "canceled" \in Labels  BY DEF Labels, QuestionScreens
  <2>3. \A x \in gone : x \in entries /\ x[1] = s[1]  BY <2>1, PromptPairs
  <2>. HIDE DEF gone
  <2>. QED  BY <1>5, <2>2, <2>3 DEF StateTypes
<1>6. chan' = Sent({s[1]}, "deny") => Decides({s[1]}, "deny")  BY SentDecides DEF Decisions
<1>. QED  BY <1>1, <1>2, <1>3, <1>4, <1>5, <1>6, <1>7 DEF CancelQuestion, HandledVars

\* What the last edit of a handler shows.
Shown(d) ==
  CASE d = "show allowed" -> "allowed" [] d = "show denied" -> "denied"
    [] d = "show saved" -> "saved" [] d = "show save failed" -> "save failed"
    [] OTHER -> "answered"

\* The outcome is drawn by the click that decided.
LEMMA ShowOutcomeDoes ==
  ASSUME StateTypes, KindInd, NEW c \in Clickers, ShowOutcome(c)
  PROVE  /\ hand[c].do \in {"show allowed", "show denied", "show saved", "show save failed",
                            "show answered"}
         /\ hand[c].slot \in Prompts /\ hand[c].rest = {}
         /\ Edits(hand[c].slot, Shown(hand[c].do))
         /\ Freed(c)
         /\ UNCHANGED <<HandledVars, chan, entries, groups, ruled, chosen, revived>>
<1>1. hand[c].do \in {"show allowed", "show denied", "show saved", "show save failed",
                      "show answered"}
  BY DEF ShowOutcome
<1>2. hand[c].slot \in Prompts  BY <1>1, HandsAt, PromptPairs DEF ToolDos, QuestionDos
<1>3. Freed(c)  BY DoneFrees DEF ShowOutcome
<1>4. Edits(hand[c].slot, Shown(hand[c].do))
  <2>. DEFINE l == Shown(hand[c].do)
  <2>1. Close(hand[c].slot, l)  BY <1>1 DEF ShowOutcome, Shown
  <2>2. l \in Labels  BY DEF Shown, Labels, ToolScreens, QuestionScreens
  <2>3. hand[c].slot \in Slots  BY <1>2, PromptPairs
  <2>. HIDE DEF l
  <2>4. Edits(hand[c].slot, l)  BY <2>1, <2>2, <2>3, CloseEdits
  <2>. QED  BY <2>4 DEF l
<1>. QED  BY <1>1, <1>2, <1>3, <1>4 DEF ShowOutcome, HandledVars

\* A click is on a registered message, whose screen says what it may do.
LEMMA ClickDoes ==
  ASSUME StateTypes, KindInd, NEW c \in Clickers, NEW s, Click(c, s)
  PROVE  /\ hand[c].do = "none" /\ s \in entries /\ s \in Prompts
         /\ hand' \in [Clickers -> HandType]
         /\ hand'[c].slot = s /\ hand'[c].rest = {}
         /\ \/ s \in ToolPrompts /\ hand'[c].do \in Level1 \cup Level2
            \/ s \notin ToolPrompts /\ hand'[c].do \in QuestionButtons
         /\ \A x \in Clickers \ {c} : hand'[x] = hand[x]
         /\ UNCHANGED <<HandledVars, chan, entries, groups, screen, ruled, chosen, revived, unedited>>
<1>1. hand[c] = Free /\ s \in entries /\ s \in Prompts /\ s \in Slots
  BY PromptPairs DEF Click, StateTypes
<1>2. PICK d \in DecisionsAt(s) : hand' = [hand EXCEPT ![c].slot = s, ![c].do = d]
  BY DEF Click
<1>3. \/ s \in ToolPrompts /\ d \in Level1 \cup Level2
      \/ s \notin ToolPrompts /\ d \in QuestionButtons
  BY <1>1, <1>2 DEF DecisionsAt, KindInd, ScreenKinds, ToolScreens, QuestionScreens
<1>4. d \in Dos
  BY <1>3 DEF Dos, ToolDos, QuestionDos, Level1, Level2, QuestionButtons
<1>5. /\ hand' \in [Clickers -> HandType]
      /\ hand'[c].slot = s /\ hand'[c].do = d /\ hand'[c].rest = hand[c].rest
      /\ \A x \in Clickers \ {c} : hand'[x] = hand[x]
  BY <1>1, <1>2, <1>4 DEF StateTypes, HandType
<1>. QED  BY <1>1, <1>3, <1>5 DEF Click, Free, HandledVars

-----------------------------------------------------------------------------
(***************************************************************************)
(* The types, and what is for tools and what for questions.                *)
(***************************************************************************)
Handled(c) == HandStep(c) \/ \E s \in Slots : Click(c, s)

\* A handler of a click keeps the types.
LEMMA HandledTypes ==
  ASSUME StateTypes, KindInd, NEW c \in Clickers, Handled(c)
  PROVE  StateTypes'
<1>1. ASSUME kind' = kind, UNCHANGED <<wait, told, inbox, posting, posted, watched, breaks>>,
             hand' \in [Clickers -> HandType], chan' \in [Requests -> Decisions],
             entries' \subseteq entries, groups' \subseteq groups,
             answered' \in [Requests -> SUBSET {0, 1}],
             screen' \in [Slots -> Labels]
      PROVE  StateTypes'
  BY <1>1, KindsStay DEF StateTypes
<1>. USE DEF HandledVars, Goes, Freed, Decides
<1>2. chan \in [Requests -> Decisions] /\ answered \in [Requests -> SUBSET {0, 1}]
  BY DEF StateTypes
<1>3. screen \in [Slots -> Labels]  BY DEF StateTypes
<1>4. CASE TooLate(c)  BY <1>1, <1>2, <1>3, <1>4, TooLateDoes
<1>5. CASE DecideOnce(c)  BY <1>1, <1>2, <1>3, <1>5, DecideOnceDoes
<1>6. CASE ReadEntry(c)  BY <1>1, <1>2, <1>3, <1>6, ReadEntryDoes
<1>7. CASE DrawLevel2(c)  BY <1>1, <1>2, <1>7, DrawLevel2Does DEF Draws
<1>8. CASE TakeForAlways(c)  BY <1>1, <1>2, <1>8, TakeForAlwaysDoes DEF Draws, Edits
<1>9. CASE ShowOutcome(c)  BY <1>1, <1>2, <1>9, ShowOutcomeDoes DEF Draws, Edits
<1>10. CASE SaveSucceeds(c)  BY <1>1, <1>2, <1>3, <1>10, SaveSucceedsDoes
<1>11. CASE SaveFails(c)  BY <1>1, <1>2, <1>3, <1>11, SaveFailsDoes
<1>12. CASE RestartAndDismiss(c)  BY <1>1, <1>2, <1>3, <1>12, RestartAndDismissDoes
<1>13. CASE LeaveDialog(c) \/ CloseDialog(c)
  BY <1>1, <1>2, <1>3, <1>13, LeaveDialogDoes, CloseDialogDoes
<1>14. CASE TakeAnswer(c)  BY <1>1, <1>2, <1>3, <1>14, TakeAnswerDoes
<1>15. CASE RecordAnswer(c)  BY <1>1, <1>2, <1>3, <1>15, RecordAnswerDoes
<1>16. CASE CancelQuestion(c)  BY <1>1, <1>2, <1>3, <1>16, CancelQuestionDoes
<1>17. ASSUME NEW s \in Slots, ShowDismissed(c, s) PROVE StateTypes'
  BY <1>1, <1>2, <1>17, ShowDismissedDoes DEF Draws, Edits
<1>18. ASSUME NEW s \in Slots, Click(c, s) PROVE StateTypes'
  BY <1>1, <1>2, <1>3, <1>18, ClickDoes
<1>. QED
  BY <1>4, <1>5, <1>6, <1>7, <1>8, <1>9, <1>10, <1>11, <1>12, <1>13, <1>14, <1>15, <1>16,
     <1>17, <1>18
  DEF Handled, HandStep

\* The worker and the handler keep them too.
LEMMA OtherTypes ==
  ASSUME StateTypes,
         \/ \E r \in Requests : Arrive(r) \/ WorkerStep(r) \/ Watcher(r)
         \/ InterruptAll \/ CleanupPrompts \/ HandlerStep
  PROVE  StateTypes'
<1>. USE DEF StateTypes
<1>1. kind' = kind => Prompts' = Prompts /\ \A r : IsTool(r)' = IsTool(r)  BY KindsStay
<1>2. ASSUME NEW r \in Requests, Arrive(r) PROVE StateTypes'
  <2>1. wait' \in [Requests -> Waits] /\ told' \in [Requests -> {"none", "allow", "deny", "answer"}]
    BY <1>2 DEF Arrive, Waits
  <2>2. inbox' = inbox \/ inbox' = Append(inbox, r)  BY <1>2 DEF Arrive
  <2>3. inbox' \in Seq(Requests)  BY <2>2, AppendProperties
  <2>. QED  BY <1>1, <1>2, <2>1, <2>3 DEF Arrive
<1>3. ASSUME NEW r \in Requests, Resolve(r) PROVE StateTypes'
  <2>1. wait' \in [Requests -> Waits] /\ told' \in [Requests -> {"none", "allow", "deny", "answer"}]
    BY <1>3 DEF Resolve, Waits
  <2>. QED  BY <1>1, <1>3, <2>1 DEF Resolve
<1>4. ASSUME NEW r \in Requests, PermissionTimeout(r) PROVE StateTypes'
  <2>1. wait' \in [Requests -> Waits] /\ told' \in [Requests -> {"none", "allow", "deny", "answer"}]
    BY <1>4 DEF PermissionTimeout, Waits
  <2>. QED  BY <1>1, <1>4, <2>1 DEF PermissionTimeout
<1>5. ASSUME NEW r \in Requests, Watcher(r) PROVE StateTypes'
  <2>1. screen' \in [Slots -> Labels] /\ entries' \subseteq entries
    BY <1>5, SlotPairs DEF Watcher, Close, Labels, ToolScreens
  <2>. QED  BY <1>1, <1>5, <2>1 DEF Watcher
<1>6. CASE InterruptAll
  <2>1. wait' \in [Requests -> Waits] /\ told' \in [Requests -> {"none", "allow", "deny", "answer"}]
    BY <1>6 DEF InterruptAll, Waits
  <2>2. breaks' \in Nat  BY <1>6 DEF InterruptAll
  <2>. QED  BY <1>1, <1>6, <2>1, <2>2 DEF InterruptAll
<1>7. CASE CleanupPrompts
  <2>1. PICK R : chan' = Sent(R, "dropped")  BY <1>7 DEF CleanupPrompts
  <2>2. chan' \in [Requests -> Decisions]  BY <2>1, SentDecides DEF Decides, Decisions
  <2>3. breaks' \in Nat  BY <1>7 DEF CleanupPrompts
  <2>. QED  BY <1>1, <1>7, <2>2, <2>3 DEF CleanupPrompts
<1>8. CASE TakeRequest
  <2>1. Head(inbox) \in Requests /\ Tail(inbox) \in Seq(Requests)  BY <1>8 DEF TakeRequest
  <2>2. <<Head(inbox), 0>> \in Prompts  BY <2>1, PromptPairs
  <2>3. posting' \in Prompts /\ ~posted  BY <1>8, <2>2 DEF TakeRequest
  <2>4. groups' \subseteq {r \in Requests : kind[r] = "group"}  BY <1>8, <2>1 DEF TakeRequest
  <2>. QED  BY <1>1, <1>8, <2>1, <2>3, <2>4, PromptPairs DEF TakeRequest
<1>9. CASE PostPrompt
  <2>1. screen' \in [Slots -> Labels]
    BY <1>9, PromptPairs DEF PostPrompt, Labels, ToolScreens, QuestionScreens
  <2>. QED  BY <1>1, <1>9, <2>1 DEF PostPrompt
<1>10. CASE RegisterPrompt
  <2>1. posting \in Prompts /\ posting[1] \in Requests  BY <1>10, PromptPairs DEF RegisterPrompt
  <2>2. entries' \subseteq Prompts /\ watched' \subseteq {r \in Requests : IsTool(r)}
    BY <1>10, <2>1 DEF RegisterPrompt
  <2>3. posting' \in Prompts \cup {NoSlot}  BY <1>10, <2>1, PromptPairs DEF RegisterPrompt
  <2>. QED  BY <1>1, <1>10, <2>2, <2>3 DEF RegisterPrompt
<1>11. CASE PostFails
  <2>1. chan' = chan \/ chan' = Sent({posting[1]}, "deny")  BY <1>11 DEF PostFails
  <2>2. chan' \in [Requests -> Decisions]  BY <2>1, SentDecides DEF Decides, Decisions
  <2>. QED  BY <1>1, <1>11, <2>2 DEF PostFails
<1>. QED
  BY <1>2, <1>3, <1>4, <1>5, <1>6, <1>7, <1>8, <1>9, <1>10, <1>11 DEF WorkerStep, HandlerStep

\* Every step keeps the types.
LEMMA TypesStep == StateTypes /\ KindInd /\ [FlowNext]_flowVars => StateTypes'
<1>1. StateTypes /\ UNCHANGED flowVars => StateTypes'
  BY KindsStay DEF StateTypes, flowVars
<1>. QED  BY <1>1, HandledTypes, OtherTypes DEF FlowNext, Handled

\* What a request is for never changes.
LEMMA KindConst == [FlowNext]_flowVars => kind' = kind
BY DEF FlowNext, flowVars, Arrive, WorkerStep, Resolve, PermissionTimeout, Watcher,
       InterruptAll, CleanupPrompts,
       HandlerStep, TakeRequest, PostPrompt, RegisterPrompt, PostFails, HandStep, TooLate,
       DecideOnce, ReadEntry,
       DrawLevel2, TakeForAlways, SaveSucceeds, SaveFails, RestartAndDismiss, ShowDismissed,
       LeaveDialog, CloseDialog,
       TakeAnswer, RecordAnswer, CancelQuestion, ShowOutcome, Click

\* What is for tools stays with tools, and what is for questions with them.
LEMMA KindStep == StateTypes /\ KindInd /\ [FlowNext]_flowVars => KindInd'
<1>. SUFFICES ASSUME StateTypes, KindInd, [FlowNext]_flowVars PROVE KindInd'  OBVIOUS
<1>1. Prompts' = Prompts /\ ToolPrompts' = ToolPrompts /\ \A r : IsTool(r)' = IsTool(r)
  BY KindConst, KindsStay
<1>2. HandKinds /\ ScreenKinds /\ ChanKinds  BY DEF KindInd
<1>3. /\ UNCHANGED hand => HandKinds'
      /\ UNCHANGED screen => ScreenKinds'
      /\ UNCHANGED chan => ChanKinds'
  <2>1. UNCHANGED hand => HandKinds'  BY <1>1, <1>2 DEF HandKinds
  <2>2. UNCHANGED screen => ScreenKinds'  BY <1>1, <1>2 DEF ScreenKinds
  <2>3. UNCHANGED chan => ChanKinds'  BY <1>1, <1>2 DEF ChanKinds
  <2>. QED  BY <2>1, <2>2, <2>3
<1>4. ASSUME NEW c \in Clickers, Freed(c) PROVE HandKinds'
  BY <1>1, <1>2, <1>4 DEF HandKinds, Freed, ToolDos, QuestionDos
<1>5. ASSUME NEW c \in Clickers, NEW d \in ToolDos, hand[c].slot \in ToolPrompts, hand[c].rest = {}, Goes(c, d)
      PROVE  HandKinds'
  BY <1>1, <1>2, <1>5 DEF HandKinds, Goes, ToolDos, QuestionDos
<1>6. ASSUME NEW c \in Clickers, NEW d \in QuestionDos, hand[c].slot \in Prompts, ~IsTool(hand[c].slot[1]),
             hand[c].rest = {}, Goes(c, d)
      PROVE  HandKinds'
  <2>1. hand[c].slot \notin ToolPrompts  BY <1>6 DEF ToolPrompts
  <2>. QED  BY <1>1, <1>2, <1>6, <2>1 DEF HandKinds, Goes, ToolDos, QuestionDos
<1>7. ASSUME NEW s, NEW l \in ToolScreens, s \in ToolPrompts, Draws(s, l) PROVE ScreenKinds'
  BY <1>1, <1>2, <1>7 DEF ScreenKinds, Draws, ToolScreens, QuestionScreens
<1>8. ASSUME NEW s, NEW l \in QuestionScreens, s \in Prompts \ ToolPrompts, Draws(s, l)
      PROVE  ScreenKinds'
  BY <1>1, <1>2, <1>8 DEF ScreenKinds, Draws, ToolScreens, QuestionScreens
<1>9. ASSUME NEW R, NEW d, Decides(R, d), d \in Allows => \A r \in R : IsTool(r)
      PROVE  ChanKinds'
  BY <1>1, <1>2, <1>9 DEF ChanKinds, Decides
<1>10. ASSUME NEW c \in Clickers, TooLate(c) \/ CloseDialog(c) PROVE KindInd'
  BY <1>3, <1>4, <1>10, TooLateDoes, CloseDialogDoes DEF KindInd
<1>11. ASSUME NEW c \in Clickers, DecideOnce(c) PROVE KindInd'
  <2>1. hand[c].slot \in ToolPrompts /\ hand[c].rest = {} /\ IsTool(hand[c].slot[1])
    BY <1>11, DecideOnceDoes, HandsAt, PromptPairs
  <2>2. HandKinds'  BY <1>5, <1>11, <2>1, DecideOnceDoes DEF ToolDos
  <2>3. ChanKinds'  BY <1>9, <1>11, <2>1, DecideOnceDoes
  <2>. QED  BY <1>3, <1>11, <2>2, <2>3, DecideOnceDoes DEF KindInd
<1>12. ASSUME NEW c \in Clickers, ReadEntry(c) PROVE KindInd'
  <2>1. hand[c].slot \in ToolPrompts /\ hand[c].rest = {}
    BY <1>12, ReadEntryDoes, HandsAt DEF ToolDos
  <2>2. HandKinds'  BY <1>4, <1>5, <1>12, <2>1, ReadEntryDoes DEF ToolDos
  <2>. QED  BY <1>3, <1>12, <2>2, ReadEntryDoes DEF KindInd
<1>13. ASSUME NEW c \in Clickers, DrawLevel2(c) PROVE KindInd'
  <2>1. ScreenKinds'  BY <1>7, <1>13, DrawLevel2Does DEF ToolScreens
  <2>. QED  BY <1>3, <1>4, <1>13, <2>1, DrawLevel2Does DEF KindInd
<1>14. ASSUME NEW c \in Clickers, TakeForAlways(c) PROVE KindInd'
  <2>1. hand[c].slot \in ToolPrompts /\ hand[c].rest = {}
    BY <1>14, TakeForAlwaysDoes, HandsAt
  <2>2. HandKinds'  BY <1>5, <1>14, <2>1, TakeForAlwaysDoes DEF Saves, ToolDos
  <2>3. ScreenKinds'  BY <1>7, <1>14, <2>1, TakeForAlwaysDoes DEF ToolScreens, Edits
  <2>. QED  BY <1>3, <1>14, <2>2, <2>3, TakeForAlwaysDoes DEF KindInd
<1>15. ASSUME NEW c \in Clickers, SaveSucceeds(c) PROVE KindInd'
  <2>1. hand[c].slot \in ToolPrompts /\ hand[c].rest = {} /\ IsTool(hand[c].slot[1])
    BY <1>15, SaveSucceedsDoes, HandsAt, PromptPairs DEF Saves
  <2>2. HandKinds'  BY <1>5, <1>15, <2>1, SaveSucceedsDoes DEF ToolDos
  <2>3. ChanKinds'  BY <1>9, <1>15, <2>1, SaveSucceedsDoes
  <2>. QED  BY <1>3, <1>15, <2>2, <2>3, SaveSucceedsDoes DEF KindInd
<1>16. ASSUME NEW c \in Clickers, SaveFails(c) PROVE KindInd'
  <2>1. hand[c].slot \in ToolPrompts /\ hand[c].rest = {}
    BY <1>16, SaveFailsDoes, HandsAt DEF Saves
  <2>2. HandKinds'  BY <1>5, <1>16, <2>1, SaveFailsDoes DEF ToolDos
  <2>3. ChanKinds'  BY <1>9, <1>16, SaveFailsDoes DEF Allows
  <2>. QED  BY <1>3, <1>16, <2>2, <2>3, SaveFailsDoes DEF KindInd
<1>17. ASSUME NEW c \in Clickers, RestartAndDismiss(c) PROVE KindInd'
  <2>1. PICK D \in SUBSET entries :
          /\ hand[c].slot \in ToolPrompts /\ D \subseteq ToolPrompts
          /\ Decides({s[1] : s \in D}, "always tool")
          /\ hand'[c].do = "show saved" /\ hand'[c].slot = hand[c].slot /\ hand'[c].rest = D
          /\ \A x \in Clickers \ {c} : hand'[x] = hand[x]
          /\ UNCHANGED screen
    BY <1>17, RestartAndDismissDoes
  <2>2. HandKinds'  BY <1>1, <1>2, <2>1 DEF HandKinds, ToolDos, QuestionDos
  <2>3. ASSUME NEW r \in {s[1] : s \in D} PROVE IsTool(r)
    <3>1. PICK s \in D : r = s[1]  OBVIOUS
    <3>. QED  BY <2>1, <3>1, PromptPairs
  <2>4. ChanKinds'  BY <1>9, <2>1, <2>3
  <2>. QED  BY <1>3, <2>1, <2>2, <2>4 DEF KindInd
<1>18. ASSUME NEW c \in Clickers, LeaveDialog(c) PROVE KindInd'
  <2>1. hand[c].slot \in Prompts /\ ~IsTool(hand[c].slot[1]) /\ hand[c].rest = {}
    BY <1>18, LeaveDialogDoes, HandsAt DEF QuestionDos, Dialogs
  <2>2. HandKinds'  BY <1>4, <1>6, <1>18, <2>1, LeaveDialogDoes DEF QuestionDos
  <2>. QED  BY <1>3, <1>18, <2>2, LeaveDialogDoes DEF KindInd
<1>19. ASSUME NEW c \in Clickers, TakeAnswer(c) PROVE KindInd'
  <2>1. hand[c].slot \in Prompts /\ ~IsTool(hand[c].slot[1]) /\ hand[c].rest = {}
    BY <1>19, TakeAnswerDoes, HandsAt
  <2>2. HandKinds'  BY <1>6, <1>19, <2>1, TakeAnswerDoes DEF QuestionDos
  <2>3. ChanKinds'
    <3>1. UNCHANGED chan \/ Decides({hand[c].slot[1]}, "answer")  BY <1>19, TakeAnswerDoes
    <3>2. "answer" \notin Allows  BY DEF Allows
    <3>. QED  BY <1>3, <1>9, <3>1, <3>2
  <2>. QED  BY <1>3, <1>19, <2>2, <2>3, TakeAnswerDoes DEF KindInd
<1>20. ASSUME NEW c \in Clickers, RecordAnswer(c) PROVE KindInd'
  <2>1. hand[c].slot \in Prompts /\ ~IsTool(hand[c].slot[1]) /\ hand[c].rest = {}
    BY <1>20, RecordAnswerDoes, HandsAt
  <2>2. HandKinds'  BY <1>6, <1>20, <2>1, RecordAnswerDoes DEF QuestionDos
  <2>3. ChanKinds'
    <3>1. UNCHANGED chan \/ Decides({hand[c].slot[1]}, "answer")  BY <1>20, RecordAnswerDoes
    <3>2. "answer" \notin Allows  BY DEF Allows
    <3>. QED  BY <1>3, <1>9, <3>1, <3>2
  <2>. QED  BY <1>3, <1>20, <2>2, <2>3, RecordAnswerDoes DEF KindInd
<1>21. ASSUME NEW c \in Clickers, CancelQuestion(c) PROVE KindInd'
  <2>1. HandKinds'  BY <1>4, <1>21, CancelQuestionDoes
  <2>2. ChanKinds'
    <3>1. UNCHANGED chan \/ Decides({hand[c].slot[1]}, "deny")  BY <1>21, CancelQuestionDoes
    <3>2. "deny" \notin Allows  BY DEF Allows
    <3>. QED  BY <1>3, <1>9, <3>1, <3>2
  <2>3. \A x \in Slots : screen'[x] = screen[x] \/ (screen'[x] = "canceled" /\ x \in Prompts \ ToolPrompts)
    BY <1>21, CancelQuestionDoes DEF StateTypes, ToolPrompts
  <2>4. ScreenKinds'  BY <1>1, <1>2, <2>3 DEF ScreenKinds, ToolScreens, QuestionScreens
  <2>. QED  BY <2>1, <2>2, <2>4 DEF KindInd
<1>22. ASSUME NEW c \in Clickers, ShowOutcome(c) PROVE KindInd'
  <2>1. CASE hand[c].do = "show answered"
    <3>1. hand[c].slot \in Prompts \ ToolPrompts  BY <1>2, <2>1 DEF HandKinds, QuestionDos
    <3>2. ScreenKinds'
      BY <1>8, <1>22, <2>1, <3>1, ShowOutcomeDoes DEF Shown, QuestionScreens, Edits
    <3>. QED  BY <1>3, <1>4, <1>22, <3>2, ShowOutcomeDoes DEF KindInd
  <2>2. CASE hand[c].do # "show answered"
    <3>1. hand[c].slot \in ToolPrompts /\ Shown(hand[c].do) \in ToolScreens
      BY <1>2, <1>22, <2>2, ShowOutcomeDoes DEF HandKinds, ToolDos, Shown, ToolScreens
    <3>2. ScreenKinds'  BY <1>7, <1>22, <3>1, ShowOutcomeDoes DEF Edits
    <3>. QED  BY <1>3, <1>4, <1>22, <3>2, ShowOutcomeDoes DEF KindInd
  <2>. QED  BY <2>1, <2>2
<1>23. ASSUME NEW c \in Clickers, NEW s \in Slots, ShowDismissed(c, s) PROVE KindInd'
  <2>1. ScreenKinds'  BY <1>7, <1>23, ShowDismissedDoes DEF ToolScreens, Edits
  <2>2. HandKinds'  BY <1>1, <1>2, <1>23, ShowDismissedDoes DEF HandKinds
  <2>. QED  BY <1>3, <1>23, <2>1, <2>2, ShowDismissedDoes DEF KindInd
<1>24. ASSUME NEW c \in Clickers, NEW s \in Slots, Click(c, s) PROVE KindInd'
  <2>1. \/ s \in ToolPrompts /\ hand'[c].do \in ToolDos \ {"show saved"}
        \/ s \in Prompts \ ToolPrompts /\ hand'[c].do \in QuestionDos
    BY <1>24, ClickDoes DEF ToolDos, QuestionDos, Level1, Level2, QuestionButtons
  <2>2. ToolDos \cap QuestionDos = {} /\ "none" \notin ToolDos \cup QuestionDos
    BY DEF ToolDos, QuestionDos
  <2>3. hand'[c].slot = s /\ hand'[c].rest = {} /\ \A x \in Clickers \ {c} : hand'[x] = hand[x]
    BY <1>24, ClickDoes
  <2>4. HandKinds'
    BY <1>1, <1>2, <2>1, <2>2, <2>3 DEF HandKinds
  <2>. QED  BY <1>3, <1>24, <2>4, ClickDoes DEF KindInd
<1>25. ASSUME NEW r \in Requests, Arrive(r) \/ WorkerStep(r) PROVE KindInd'
  BY <1>3, <1>25 DEF KindInd, Arrive, WorkerStep, Resolve, PermissionTimeout
<1>26. ASSUME NEW r \in Requests, Watcher(r) PROVE KindInd'
  <2>1. UNCHANGED <<chan, hand>>  BY <1>26 DEF Watcher
  <2>2. <<r, 0>> \in ToolPrompts /\ <<r, 0>> \in Slots
    BY <1>26, PromptPairs DEF Watcher, StateTypes
  <2>3. UNCHANGED screen \/ Draws(<<r, 0>>, "timed out")
    BY <1>26, <2>2 DEF Watcher, Close, Draws, StateTypes, Labels, ToolScreens
  <2>4. ScreenKinds'  BY <1>3, <1>7, <2>2, <2>3 DEF ToolScreens
  <2>. QED  BY <1>3, <2>1, <2>4 DEF KindInd
<1>27. CASE InterruptAll \/ TakeRequest \/ RegisterPrompt
  BY <1>3, <1>27 DEF KindInd, InterruptAll, TakeRequest, RegisterPrompt
<1>28. CASE CleanupPrompts
  <2>1. PICK R : chan' = Sent(R, "dropped")  BY <1>28 DEF CleanupPrompts
  <2>2. ChanKinds'  BY <1>9, <2>1, SentDecides DEF Decisions, Allows
  <2>. QED  BY <1>3, <1>28, <2>2 DEF KindInd, CleanupPrompts
<1>29. CASE PostFails
  <2>1. chan' = chan \/ chan' = Sent({posting[1]}, "deny")  BY <1>29 DEF PostFails
  <2>2. ChanKinds'  BY <1>3, <1>9, <2>1, SentDecides DEF Decisions, Allows
  <2>. QED  BY <1>3, <1>29, <2>2 DEF KindInd, PostFails
<1>30. CASE PostPrompt
  <2>1. posting \in Prompts /\ posting \in Slots
    BY <1>30, PromptPairs DEF PostPrompt, StateTypes
  <2>2. CASE IsTool(posting[1])
    <3>1. Draws(posting, "level 1") /\ posting \in ToolPrompts
      BY <1>30, <2>1, <2>2 DEF PostPrompt, Draws, StateTypes, Labels, ToolScreens, ToolPrompts
    <3>2. ScreenKinds'  BY <1>7, <3>1 DEF ToolScreens
    <3>. QED  BY <1>3, <1>30, <3>2 DEF KindInd, PostPrompt
  <2>3. CASE ~IsTool(posting[1])
    <3>1. Draws(posting, "question") /\ posting \notin ToolPrompts
      BY <1>30, <2>1, <2>3 DEF PostPrompt, Draws, StateTypes, Labels, QuestionScreens,
                               ToolPrompts
    <3>2. ScreenKinds'  BY <1>8, <2>1, <3>1 DEF QuestionScreens
    <3>. QED  BY <1>3, <1>30, <3>2 DEF KindInd, PostPrompt
  <2>. QED  BY <2>2, <2>3
<1>31. CASE UNCHANGED flowVars  BY <1>3, <1>31 DEF KindInd, flowVars
<1>. QED
  BY <1>10, <1>11, <1>12, <1>13, <1>14, <1>15, <1>16, <1>17, <1>18, <1>19, <1>20, <1>21, <1>22,
     <1>23, <1>24, <1>25, <1>26, <1>27, <1>28, <1>29, <1>30, <1>31
  DEF FlowNext, HandlerStep, HandStep

-----------------------------------------------------------------------------
\* A request goes to the end of the queue, and the handler takes the first.
LEMMA QueueGrows ==
  ASSUME inbox \in Seq(Requests), NEW r \in Requests, inbox' = Append(inbox, r)
  PROVE  Queue' = Queue \cup {r} /\ (Once /\ r \notin Queue => Once')
<1>1. /\ Len(inbox) \in Nat /\ Len(inbox') = Len(inbox) + 1 /\ inbox'[Len(inbox) + 1] = r
      /\ \A i \in 1 .. Len(inbox) : inbox'[i] = inbox[i]
  BY AppendProperties
<1>2. \A i : i \in 1 .. Len(inbox') <=> i \in 1 .. Len(inbox) \/ i = Len(inbox) + 1
  BY <1>1
<1>3. Queue' = Queue \cup {r}
  BY <1>1, <1>2 DEF Queue
<1>4. ASSUME Once, r \notin Queue PROVE Once'
  BY <1>1, <1>2, <1>4 DEF Once, Queue
<1>. QED  BY <1>3, <1>4

\* Taking the head of the queue takes that request, and only that one.
LEMMA QueueShrinks ==
  ASSUME inbox \in Seq(Requests), inbox # <<>>, inbox' = Tail(inbox)
  PROVE  /\ Head(inbox) \in Queue /\ Queue' \subseteq Queue /\ Queue \subseteq Queue' \cup {Head(inbox)}
         /\ Once => Once' /\ Head(inbox) \notin Queue'
<1>1. /\ Len(inbox) \in Nat \ {0} /\ Len(inbox') = Len(inbox) - 1 /\ inbox[1] = Head(inbox)
      /\ \A i \in 1 .. Len(inbox') : inbox'[i] = inbox[i + 1]
  BY HeadTailProperties, EmptySeq
<1>2. \A i \in 1 .. Len(inbox') : i + 1 \in 1 .. Len(inbox) /\ i + 1 # 1
  BY <1>1
<1>3. \A i \in 1 .. Len(inbox) : i # 1 => i - 1 \in 1 .. Len(inbox') /\ (i - 1) + 1 = i
  BY <1>1
<1>4. 1 \in 1 .. Len(inbox)  BY <1>1
<1>5. Head(inbox) \in Queue /\ Queue' \subseteq Queue  BY <1>1, <1>2, <1>4 DEF Queue
<1>6. ASSUME NEW x \in Queue PROVE x \in Queue' \cup {Head(inbox)}
  <2>1. PICK i \in 1 .. Len(inbox) : x = inbox[i]  BY DEF Queue
  <2>2. CASE i = 1  BY <1>1, <2>1, <2>2
  <2>3. CASE i # 1
    <3>1. i - 1 \in 1 .. Len(inbox') /\ inbox'[i - 1] = x  BY <1>1, <1>3, <2>1, <2>3
    <3>. QED  BY <3>1 DEF Queue
  <2>. QED  BY <2>2, <2>3
<1>7. ASSUME Once PROVE Once' /\ Head(inbox) \notin Queue'
  BY <1>1, <1>2, <1>4, <1>7 DEF Once, Queue
<1>. QED  BY <1>5, <1>6, <1>7

-----------------------------------------------------------------------------
(***************************************************************************)
(* What all the handlers of clicks have in common.                         *)
(***************************************************************************)
Touches(c) ==
  /\ UNCHANGED <<kind, wait, told, inbox, posting, posted, watched, cache, breaks>>
  /\ entries' \subseteq entries /\ groups' \subseteq groups
  /\ \A r \in Requests : chan'[r] # chan[r] =>
       chan[r] = "open" /\ (r = hand[c].slot[1] \/ \E s \in entries : s[1] = r)
  /\ \A s \in Slots : screen'[s] # screen[s] =>
       s[1] = hand[c].slot[1] \/ s \in hand[c].rest
  /\ hand'[c].slot \in entries \cup {hand[c].slot, NoSlot}
  /\ hand'[c].rest \subseteq hand[c].rest \cup entries
  /\ \A d \in Clickers \ {c} : hand'[d] = hand[d]

\* A handler only works on its message and on messages that are registered.
LEMMA HandledTouches ==
  ASSUME StateTypes, KindInd, NEW c \in Clickers, Handled(c)
  PROVE  Touches(c)
<1>. USE DEF Touches
<1>1. ASSUME Freed(c) \/ \E d : Goes(c, d)
      PROVE  /\ hand'[c].slot \in entries \cup {hand[c].slot, NoSlot}
             /\ hand'[c].rest \subseteq hand[c].rest \cup entries
             /\ \A d \in Clickers \ {c} : hand'[d] = hand[d]
  BY <1>1 DEF Goes, Freed
<1>2. ASSUME NEW d, Decides({hand[c].slot[1]}, d)
      PROVE  \A r \in Requests : chan'[r] # chan[r] =>
               chan[r] = "open" /\ (r = hand[c].slot[1] \/ \E s \in entries : s[1] = r)
  BY <1>2 DEF Decides
<1>3. ASSUME NEW s, NEW l, Draws(s, l), s = hand[c].slot \/ s \in hand[c].rest
      PROVE  \A x \in Slots : screen'[x] # screen[x] =>
               x[1] = hand[c].slot[1] \/ x \in hand[c].rest
  BY <1>3 DEF Draws
<1>. USE DEF HandledVars
<1>4. CASE TooLate(c)  BY <1>1, <1>4, TooLateDoes
<1>5. CASE DecideOnce(c)  BY <1>1, <1>2, <1>5, DecideOnceDoes
<1>6. CASE ReadEntry(c)  BY <1>1, <1>6, ReadEntryDoes
<1>7. CASE DrawLevel2(c)  BY <1>1, <1>3, <1>7, DrawLevel2Does
<1>8. CASE TakeForAlways(c)  BY <1>1, <1>3, <1>8, TakeForAlwaysDoes DEF Edits
<1>9. CASE ShowOutcome(c)  BY <1>1, <1>3, <1>9, ShowOutcomeDoes DEF Edits
<1>10. CASE SaveSucceeds(c)  BY <1>1, <1>2, <1>10, SaveSucceedsDoes
<1>11. CASE SaveFails(c)  BY <1>1, <1>2, <1>11, SaveFailsDoes
<1>12. CASE RestartAndDismiss(c)
  <2>1. PICK D \in SUBSET entries :
          /\ Decides({s[1] : s \in D}, "always tool")
          /\ entries' = entries \ D
          /\ hand'[c].slot = hand[c].slot /\ hand'[c].rest = D
          /\ \A x \in Clickers \ {c} : hand'[x] = hand[x]
          /\ UNCHANGED <<HandledVars, groups, screen>>
    BY <1>12, RestartAndDismissDoes
  <2>2. ASSUME NEW r \in {s[1] : s \in D} PROVE \E s \in entries : s[1] = r
    OBVIOUS
  <2>. QED  BY <2>1, <2>2 DEF Decides
<1>13. CASE LeaveDialog(c) \/ CloseDialog(c)
  BY <1>1, <1>13, LeaveDialogDoes, CloseDialogDoes
<1>14. CASE TakeAnswer(c)  BY <1>1, <1>2, <1>14, TakeAnswerDoes
<1>15. CASE RecordAnswer(c)
  <2>1. Decides({hand[c].slot[1]}, "answer") \/ chan' = chan  BY <1>15, RecordAnswerDoes
  <2>2. groups' \subseteq groups  BY <1>15, RecordAnswerDoes
  <2>. QED  BY <1>1, <1>2, <1>15, <2>1, <2>2, RecordAnswerDoes
<1>16. CASE CancelQuestion(c)
  <2>1. Decides({hand[c].slot[1]}, "deny") \/ chan' = chan  BY <1>16, CancelQuestionDoes
  <2>2. groups' \subseteq groups /\ entries' \subseteq entries  BY <1>16, CancelQuestionDoes
  <2>. QED  BY <1>1, <1>2, <1>16, <2>1, <2>2, CancelQuestionDoes
<1>17. ASSUME NEW s \in Slots, ShowDismissed(c, s) PROVE Touches(c)
  BY <1>3, <1>17, ShowDismissedDoes DEF Edits
<1>18. ASSUME NEW s \in Slots, Click(c, s) PROVE Touches(c)
  BY <1>18, ClickDoes
<1>. QED
  BY <1>4, <1>5, <1>6, <1>7, <1>8, <1>9, <1>10, <1>11, <1>12, <1>13, <1>14, <1>15, <1>16,
     <1>17, <1>18
  DEF Handled, HandStep

-----------------------------------------------------------------------------
(***************************************************************************)
(* A request in the queue, or that never gets there, is touched by nobody. *)
(***************************************************************************)
LEMMA FreshStep == StateTypes /\ KindInd /\ FreshInd /\ [FlowNext]_flowVars => FreshInd'
<1>. SUFFICES ASSUME StateTypes, KindInd, FreshInd, [FlowNext]_flowVars PROVE FreshInd'
  OBVIOUS
<1>. DEFINE Early == {"new", "auto", "full"}
            Kept(r) == wait[r] \in Early \/ r \in Queue
<1>1. /\ \A r \in Requests : wait[r] \in Early => r \notin Queue
      /\ \A r \in Requests : Kept(r) => Untouched(r)
      /\ Once
  BY DEF FreshInd
<1>. HIDE DEF Early
<1>2. ASSUME \A r \in Requests : wait'[r] \in Early => r \notin Queue',
             \A r \in Requests : (wait'[r] \in Early \/ r \in Queue') => Untouched(r)',
             Once'
      PROVE  FreshInd'
  BY <1>2 DEF FreshInd, Early
<1>. HIDE DEF Kept
<1>3. ASSUME UNCHANGED inbox PROVE Queue' = Queue /\ (Once => Once')
  BY <1>3 DEF Queue, Once
<1>4. ASSUME UNCHANGED <<chan, posting, groups, watched, entries, screen, hand>>
      PROVE  \A r : Untouched(r)' <=> Untouched(r)
  BY <1>4 DEF Untouched
<1>5. ASSUME UNCHANGED inbox,
             \A r \in Requests : wait'[r] # wait[r] => wait[r] \notin Early /\ wait'[r] \notin Early,
             \A r \in Requests : Untouched(r) => Untouched(r)'
      PROVE  FreshInd'
  BY <1>1, <1>2, <1>3, <1>5 DEF Kept
<1>6. ASSUME NEW r \in Requests, Arrive(r) PROVE FreshInd'
  <2>1. wait[r] \in Early /\ UNCHANGED <<chan, posting, groups, watched, entries, screen, hand>>
    BY <1>6 DEF Arrive, Early
  <2>2. wait' = [wait EXCEPT ![r] = wait'[r]]  BY <1>6 DEF Arrive, StateTypes
  <2>3. \A x \in Requests \ {r} : wait'[x] = wait[x]  BY <1>6 DEF Arrive, StateTypes
  <2>4. r \notin Queue /\ Untouched(r)  BY <1>1, <2>1 DEF Kept
  <2>5. CASE UNCHANGED inbox
    BY <1>1, <1>2, <1>3, <1>4, <2>1, <2>3, <2>4, <2>5 DEF Kept
  <2>6. CASE inbox' = Append(inbox, r) /\ wait' = [wait EXCEPT ![r] = "waiting"]
    <3>1. Queue' = Queue \cup {r} /\ Once'  BY <1>1, <2>4, <2>6, QueueGrows DEF StateTypes
    <3>2. wait'[r] \notin Early  BY <2>6 DEF StateTypes, Early
    <3>. QED  BY <1>1, <1>2, <1>4, <2>1, <2>3, <2>4, <3>1, <3>2 DEF Kept
  <2>. QED  BY <1>6, <2>5, <2>6 DEF Arrive
<1>7. ASSUME NEW r \in Requests, WorkerStep(r) PROVE FreshInd'
  <2>1. UNCHANGED <<inbox, chan, posting, groups, watched, entries, screen, hand>>
    BY <1>7 DEF WorkerStep, Resolve, PermissionTimeout
  <2>2. \A x \in Requests : wait'[x] # wait[x] => wait[x] \notin Early /\ wait'[x] \notin Early
    BY <1>7 DEF WorkerStep, Resolve, PermissionTimeout, Early, StateTypes
  <2>. QED  BY <1>4, <1>5, <2>1, <2>2
<1>8. CASE InterruptAll
  <2>1. UNCHANGED <<inbox, chan, posting, groups, watched, entries, screen, hand>>
    BY <1>8 DEF InterruptAll
  <2>2. \A x \in Requests : wait'[x] # wait[x] => wait[x] \notin Early /\ wait'[x] \notin Early
    BY <1>8 DEF InterruptAll, Early
  <2>. QED  BY <1>4, <1>5, <2>1, <2>2
<1>9. ASSUME NEW r \in Requests, Watcher(r) PROVE FreshInd'
  <2>1. UNCHANGED <<wait, inbox, chan, posting, groups, hand>> /\ r \in watched
        /\ watched' \subseteq watched /\ entries' \subseteq entries
    BY <1>9 DEF Watcher
  <2>2. \A s \in Slots : screen'[s] # screen[s] => s[1] = r
    BY <1>9, SlotPairs DEF Watcher, Close, StateTypes
  <2>3. ASSUME NEW x \in Requests, Untouched(x) PROVE Untouched(x)'
    <3>1. x # r  BY <2>1, <2>3 DEF Untouched
    <3>. QED  BY <2>1, <2>2, <2>3, <3>1 DEF Untouched
  <2>. QED  BY <1>5, <2>1, <2>3
<1>10. CASE CleanupPrompts
  <2>. DEFINE R == groups \cup {r \in Requests : <<r, 0>> \in entries /\ kind[r] # "group"}
  <2>1. UNCHANGED <<wait, inbox, posting, watched, screen, hand>> /\ entries' = {} /\ groups' = {}
        /\ chan' = Sent(R, "dropped")
    BY <1>10 DEF CleanupPrompts
  <2>2. ASSUME NEW x \in Requests, Untouched(x) PROVE Untouched(x)'
    <3>1. x \notin R  BY <2>2, SlotPairs DEF Untouched
    <3>2. chan'[x] = chan[x]  BY <2>1, <3>1 DEF Sent
    <3>. QED  BY <2>1, <2>2, <3>2 DEF Untouched
  <2>. QED  BY <1>5, <2>1, <2>2
<1>11. CASE TakeRequest
  <2>. DEFINE h == Head(inbox)
  <2>1. h \in Queue /\ Queue' \subseteq Queue /\ Once' /\ h \notin Queue' /\ h \in Requests
    BY <1>1, <1>11, QueueShrinks DEF TakeRequest, StateTypes
  <2>2. /\ UNCHANGED <<wait, chan, watched, entries, screen, hand>>
        /\ posting' = <<h, 0>> /\ groups' \subseteq groups \cup {h}
    BY <1>11 DEF TakeRequest
  <2>3. wait[h] \notin Early  BY <1>1, <2>1
  <2>4. ASSUME NEW x \in Requests, x # h, Untouched(x) PROVE Untouched(x)'
    BY <2>2, <2>4 DEF Untouched
  <2>. QED  BY <1>1, <1>2, <2>1, <2>2, <2>3, <2>4 DEF Kept
<1>12. CASE PostPrompt
  <2>1. UNCHANGED <<wait, inbox, chan, posting, groups, watched, entries, hand>>
        /\ \A s \in Slots : screen'[s] # screen[s] => s = posting
    BY <1>12 DEF PostPrompt, StateTypes
  <2>2. \A x \in Requests : Untouched(x) => Untouched(x)'  BY <2>1 DEF Untouched
  <2>. QED  BY <1>5, <2>1, <2>2
<1>13. CASE RegisterPrompt
  <2>1. /\ UNCHANGED <<wait, inbox, chan, groups, screen, hand>>
        /\ entries' = entries \cup {posting} /\ watched' \subseteq watched \cup {posting[1]}
        /\ posting'[1] \in {posting[1], Nobody}
    BY <1>13 DEF RegisterPrompt, NoSlot
  <2>2. \A x \in Requests : Untouched(x) => Untouched(x)'
    BY <2>1, FlowAssumption DEF Untouched
  <2>. QED  BY <1>5, <2>1, <2>2
<1>14. CASE PostFails
  <2>1. /\ UNCHANGED <<wait, inbox, watched, screen, hand>>
        /\ entries' \subseteq entries /\ groups' \subseteq groups /\ posting' = NoSlot
        /\ chan' = chan \/ chan' = Sent({posting[1]}, "deny")
    BY <1>14 DEF PostFails
  <2>2. ASSUME NEW x \in Requests, Untouched(x) PROVE Untouched(x)'
    <3>1. chan'[x] = chan[x]  BY <2>1, <2>2 DEF Untouched, Sent
    <3>2. posting'[1] # x  BY <2>1, SlotPairs
    <3>. QED  BY <2>1, <2>2, <3>1, <3>2 DEF Untouched
  <2>. QED  BY <1>5, <2>1, <2>2
<1>15. ASSUME NEW c \in Clickers, Handled(c) PROVE FreshInd'
  <2>1. Touches(c)  BY <1>15, HandledTouches
  <2>2. ASSUME NEW x \in Requests, Untouched(x) PROVE Untouched(x)'
    <3>1. /\ hand[c].slot[1] # x /\ \A s \in hand[c].rest : s[1] # x
          /\ \A s \in entries : s[1] # x
          /\ \A d \in Clickers : hand[d].slot[1] # x /\ \A s \in hand[d].rest : s[1] # x
      BY <2>2, PromptPairs DEF Untouched, StateTypes
    <3>2. chan'[x] = chan[x] /\ \A s \in Slots : s[1] = x => screen'[s] = screen[s]
      BY <2>1, <3>1 DEF Touches
    <3>3. hand'[c].slot[1] # x /\ \A s \in hand'[c].rest : s[1] # x
      BY <2>1, <3>1, SlotPairs DEF Touches
    <3>4. \A d \in Clickers : hand'[d].slot[1] # x /\ \A s \in hand'[d].rest : s[1] # x
      BY <2>1, <3>1, <3>3 DEF Touches
    <3>. QED  BY <2>1, <2>2, <3>1, <3>2, <3>4 DEF Touches, Untouched
  <2>3. UNCHANGED <<inbox, wait>>  BY <2>1 DEF Touches
  <2>. QED  BY <1>5, <2>2, <2>3
<1>16. CASE UNCHANGED flowVars
  <2>1. UNCHANGED <<inbox, wait, chan, posting, groups, watched, entries, screen, hand>>
    BY <1>16 DEF flowVars
  <2>. QED  BY <1>4, <1>5, <2>1
<1>. QED
  BY <1>6, <1>7, <1>8, <1>9, <1>10, <1>11, <1>12, <1>13, <1>14, <1>15, <1>16
  DEF FlowNext, HandlerStep, Handled

\* A decision is final: who comes later finds the channel taken.
LEMMA DecisionsStay ==
  ASSUME StateTypes, KindInd, [FlowNext]_flowVars
  PROVE  \A r \in Requests : chan'[r] # chan[r] => chan[r] = "open"
<1>1. ASSUME NEW R, NEW d, chan' = Sent(R, d)
      PROVE  \A r \in Requests : chan'[r] # chan[r] => chan[r] = "open"
  BY <1>1 DEF Sent
<1>2. ASSUME NEW c \in Clickers, Handled(c)
      PROVE  \A r \in Requests : chan'[r] # chan[r] => chan[r] = "open"
  BY <1>2, HandledTouches DEF Touches
<1>3. CASE CleanupPrompts
  <2>1. \E R : chan' = Sent(R, "dropped")  BY <1>3 DEF CleanupPrompts
  <2>. QED  BY <1>1, <2>1
<1>4. CASE PostFails
  <2>1. chan' = chan \/ chan' = Sent({posting[1]}, "deny")  BY <1>4 DEF PostFails
  <2>. QED  BY <1>1, <2>1
<1>5. ASSUME NEW r \in Requests, Arrive(r) \/ WorkerStep(r) \/ Watcher(r) PROVE chan' = chan
  BY <1>5 DEF Arrive, WorkerStep, Resolve, PermissionTimeout, Watcher
<1>6. CASE InterruptAll \/ TakeRequest \/ PostPrompt \/ RegisterPrompt
  BY <1>6 DEF InterruptAll, TakeRequest, PostPrompt, RegisterPrompt
<1>. QED  BY <1>2, <1>3, <1>4, <1>5, <1>6 DEF FlowNext, HandlerStep, Handled, flowVars

-----------------------------------------------------------------------------
(***************************************************************************)
(* Where an allowance comes from.                                          *)
(***************************************************************************)
LEMMA RuleStep == StateTypes /\ KindInd /\ RuleInd /\ [FlowNext]_flowVars => RuleInd'
<1>. SUFFICES ASSUME StateTypes, KindInd, RuleInd, [FlowNext]_flowVars PROVE RuleInd'
  OBVIOUS
<1>. DEFINE CanAllow(r) == r \in chosen \/ kind[r] \in ruled
<1>1. /\ cache \subseteq ruled
      /\ \A c \in Clickers : hand[c].do = "restart tool" => kind[hand[c].slot[1]] \in ruled
      /\ \A r \in Requests : chan[r] = "always tool" => kind[r] \in ruled
      /\ \A r \in Requests : chan[r] \in Allows => CanAllow(r)
      /\ \A r \in Requests : wait[r] = "auto" => kind[r] \in ruled
  BY DEF RuleInd
\* The worker and the handler only pass on what was allowed before.
<1>2. ASSUME UNCHANGED <<kind, hand, ruled, chosen>>, cache' \subseteq ruled,
             \A r \in Requests : chan'[r] # chan[r] => chan'[r] \notin Allows,
             \A r \in Requests : wait'[r] = "auto" => kind[r] \in ruled
      PROVE  RuleInd'
  BY <1>1, <1>2 DEF RuleInd, Allows
<1>3. ASSUME NEW r \in Requests, Arrive(r) PROVE RuleInd'
  <2>1. \A x \in Requests : wait'[x] = "auto" => kind[x] \in ruled
    BY <1>1, <1>3 DEF Arrive, StateTypes
  <2>. QED  BY <1>1, <1>2, <1>3, <2>1 DEF Arrive
<1>4. ASSUME NEW r \in Requests, WorkerStep(r) PROVE RuleInd'
  <2>1. \A x \in Requests : wait'[x] = "auto" => kind[x] \in ruled
    BY <1>1, <1>4 DEF WorkerStep, Resolve, PermissionTimeout, StateTypes
  <2>2. cache' \subseteq ruled
    BY <1>1, <1>4 DEF WorkerStep, Resolve, PermissionTimeout, CacheAfter
  <2>. QED  BY <1>2, <1>4, <2>1, <2>2 DEF WorkerStep, Resolve, PermissionTimeout
<1>5. ASSUME NEW r \in Requests, Watcher(r) PROVE RuleInd'
  BY <1>1, <1>2, <1>5 DEF Watcher
<1>6. CASE InterruptAll
  <2>1. \A x \in Requests : wait'[x] = "auto" => kind[x] \in ruled
    BY <1>1, <1>6 DEF InterruptAll
  <2>. QED  BY <1>1, <1>2, <1>6, <2>1 DEF InterruptAll
<1>7. CASE CleanupPrompts \/ PostFails
  <2>1. \A r \in Requests : chan'[r] # chan[r] => chan'[r] \notin Allows
    BY <1>7 DEF CleanupPrompts, PostFails, Sent, Allows
  <2>2. UNCHANGED <<kind, hand, ruled, chosen, cache, wait>>
    BY <1>7 DEF CleanupPrompts, PostFails
  <2>. QED  BY <1>1, <1>2, <2>1, <2>2
<1>8. CASE TakeRequest \/ PostPrompt \/ RegisterPrompt
  BY <1>1, <1>2, <1>8 DEF TakeRequest, PostPrompt, RegisterPrompt
<1>9. CASE UNCHANGED flowVars  BY <1>1, <1>2, <1>9 DEF flowVars
\* A handler allows with a click or with the rule it saved.
<1>10. ASSUME NEW c \in Clickers, Handled(c) PROVE RuleInd'
  <2>1. UNCHANGED <<kind, wait, cache>> /\ \A d \in Clickers \ {c} : hand'[d] = hand[d]
    BY <1>10, HandledTouches DEF Touches
  <2>2. ASSUME ruled \subseteq ruled', chosen \subseteq chosen',
               hand'[c].do = "restart tool" => kind[hand'[c].slot[1]] \in ruled',
               \A r \in Requests : chan'[r] # chan[r] =>
                 /\ chan'[r] = "always tool" => kind[r] \in ruled'
                 /\ chan'[r] \in Allows => r \in chosen' \/ kind[r] \in ruled'
        PROVE  RuleInd'
    BY <1>1, <2>1, <2>2 DEF RuleInd
  <2>3. CASE DecideOnce(c)
    <3>1. ruled' = ruled /\ chosen \subseteq chosen' /\ hand'[c].do # "restart tool"
      BY <2>3, DecideOnceDoes DEF Goes
    <3>2. CASE Decides({hand[c].slot[1]}, "once") /\ chosen' = chosen \cup {hand[c].slot[1]}
      BY <2>2, <3>1, <3>2 DEF Decides
    <3>3. CASE Decides({hand[c].slot[1]}, "deny")
      BY <2>2, <3>1, <3>3 DEF Decides, Allows
    <3>. QED  BY <2>3, <3>2, <3>3, DecideOnceDoes
  <2>4. CASE SaveSucceeds(c)
    <3>1. chosen' = chosen \cup {hand[c].slot[1]} /\ ruled \subseteq ruled'
      BY <2>4, SaveSucceedsDoes
    <3>2. CASE /\ Decides({hand[c].slot[1]}, "always tool") /\ Goes(c, "restart tool")
               /\ ruled' = ruled \cup {kind[hand[c].slot[1]]}
      BY <2>2, <3>1, <3>2 DEF Decides, Goes
    <3>3. CASE Decides({hand[c].slot[1]}, "always exact") /\ Goes(c, "restart")
      BY <2>2, <3>1, <3>3 DEF Decides, Goes
    <3>. QED  BY <2>4, <3>2, <3>3, SaveSucceedsDoes
  <2>5. CASE RestartAndDismiss(c)
    <3>1. PICK D \in SUBSET entries :
            /\ hand[c].do \in {"restart tool", "restart"}
            /\ hand[c].do = "restart" => D = {}
            /\ \A s \in D : kind[s[1]] = kind[hand[c].slot[1]]
            /\ Decides({s[1] : s \in D}, "always tool")
            /\ hand'[c].do = "show saved"
            /\ ruled' = ruled /\ chosen' = chosen
      BY <2>5, RestartAndDismissDoes
    <3>2. ASSUME NEW r \in Requests, chan'[r] # chan[r] PROVE kind[r] \in ruled
      <4>1. PICK s \in D : r = s[1]  BY <3>1, <3>2 DEF Decides
      <4>. QED  BY <1>1, <3>1, <4>1
    <3>. QED  BY <2>2, <3>1, <3>2
  <2>6. CASE \/ TooLate(c) \/ ReadEntry(c) \/ DrawLevel2(c) \/ LeaveDialog(c) \/ CloseDialog(c)
             \/ ShowOutcome(c) \/ TakeForAlways(c) \/ (\E s \in Slots : ShowDismissed(c, s) \/ Click(c, s))
    <3>1. UNCHANGED <<chan, ruled, chosen>>
      BY <2>6, TooLateDoes, ReadEntryDoes, DrawLevel2Does, LeaveDialogDoes, CloseDialogDoes,
         ShowOutcomeDoes, TakeForAlwaysDoes, ShowDismissedDoes, ClickDoes
    <3>2. hand'[c].do # "restart tool"
      BY <2>6, TooLateDoes, ReadEntryDoes, DrawLevel2Does, LeaveDialogDoes, CloseDialogDoes,
         ShowOutcomeDoes, TakeForAlwaysDoes, ShowDismissedDoes, ClickDoes
      DEF Freed, Goes, Saves, Level1, Level2, QuestionButtons
    <3>. QED  BY <2>2, <3>1, <3>2
  <2>7. CASE SaveFails(c) \/ TakeAnswer(c) \/ RecordAnswer(c) \/ CancelQuestion(c)
    <3>1. UNCHANGED <<ruled, chosen>> /\ hand'[c].do # "restart tool"
      BY <2>7, SaveFailsDoes, TakeAnswerDoes, RecordAnswerDoes, CancelQuestionDoes
      DEF Goes, Freed
    <3>2. chan' = chan \/ \E d \in {"deny", "answer"} : Decides({hand[c].slot[1]}, d)
      BY <2>7, SaveFailsDoes, TakeAnswerDoes, RecordAnswerDoes, CancelQuestionDoes
    <3>3. \A r \in Requests : chan'[r] # chan[r] => chan'[r] \notin Allows
      BY <3>2 DEF Decides, Allows
    <3>. QED  BY <2>2, <3>1, <3>3 DEF Allows
  <2>. QED  BY <1>10, <2>3, <2>4, <2>5, <2>6, <2>7 DEF Handled, HandStep
<1>. QED
  BY <1>3, <1>4, <1>5, <1>6, <1>7, <1>8, <1>9, <1>10 DEF FlowNext, HandlerStep, Handled

\* What Claude was told, and why the worker stopped waiting.
LEMMA ToldStep == StateTypes /\ KindInd /\ ToldInd /\ [FlowNext]_flowVars => ToldInd'
<1>. SUFFICES ASSUME StateTypes, KindInd, ToldInd, [FlowNext]_flowVars PROVE ToldInd'
  OBVIOUS
<1>1. \A r \in Requests : chan'[r] # chan[r] => chan[r] = "open"  BY DecisionsStay
<1>. DEFINE Ok(r) ==
              /\ told[r] = "allow" => wait[r] = "auto" \/ (wait[r] = "resolved" /\ chan[r] \in Allows)
              /\ wait[r] = "resolved" => chan[r] # "open"
              /\ wait[r] = "interrupt" => breaks > 0
<1>2. /\ \A r \in Requests : Ok(r)
      /\ (\A r \in Requests : Ok(r)') => ToldInd'
  BY DEF ToldInd
<1>3. breaks' \in Nat /\ breaks \in Nat  BY TypesStep DEF StateTypes
<1>4. ASSUME UNCHANGED <<wait, told>>, breaks' >= breaks PROVE ToldInd'
  <2>1. breaks > 0 => breaks' > 0  BY <1>3, <1>4
  <2>2. ASSUME NEW r \in Requests PROVE Ok(r)'
    BY <1>1, <1>2, <1>4, <2>1 DEF Allows
  <2>. QED  BY <1>2, <2>2
<1>5. ASSUME NEW r \in Requests, Arrive(r) PROVE ToldInd'
  <2>1. UNCHANGED <<chan, breaks>> /\ wait[r] = "new"  BY <1>5 DEF Arrive
  <2>2. \A x \in Requests \ {r} : wait'[x] = wait[x] /\ told'[x] = told[x]
    BY <1>5 DEF Arrive, StateTypes
  <2>3. \/ wait'[r] = "auto"
        \/ wait'[r] = "full" /\ told'[r] = "deny"
        \/ wait'[r] = "waiting" /\ told'[r] = told[r]
    BY <1>5 DEF Arrive, StateTypes
  <2>4. \A x \in Requests \ {r} : Ok(x)'  BY <1>2, <2>1, <2>2
  <2>5. told[r] # "allow"  BY <1>2, <2>1
  <2>6. Ok(r)'  BY <2>3, <2>5
  <2>. QED  BY <1>2, <2>4, <2>6
<1>6. ASSUME NEW r \in Requests, Resolve(r) PROVE ToldInd'
  <2>1. UNCHANGED <<chan, breaks>> /\ chan[r] # "open"  BY <1>6 DEF Resolve
  <2>2. \A x \in Requests \ {r} : wait'[x] = wait[x] /\ told'[x] = told[x]
    BY <1>6 DEF Resolve, StateTypes
  <2>3. wait'[r] = "resolved" /\ (told'[r] = "allow" => chan[r] \in Allows)
    BY <1>6 DEF Resolve, StateTypes
  <2>4. \A x \in Requests \ {r} : Ok(x)'  BY <1>2, <2>1, <2>2
  <2>5. Ok(r)'  BY <2>1, <2>3
  <2>. QED  BY <1>2, <2>4, <2>5
<1>7. ASSUME NEW r \in Requests, PermissionTimeout(r) PROVE ToldInd'
  <2>1. UNCHANGED <<chan, breaks>>  BY <1>7 DEF PermissionTimeout
  <2>2. \A x \in Requests \ {r} : wait'[x] = wait[x] /\ told'[x] = told[x]
    BY <1>7 DEF PermissionTimeout, StateTypes
  <2>3. wait'[r] = "timeout" /\ told'[r] = "deny"
    BY <1>7 DEF PermissionTimeout, StateTypes
  <2>4. \A x \in Requests \ {r} : Ok(x)'  BY <1>2, <2>1, <2>2
  <2>5. Ok(r)'  BY <2>1, <2>3
  <2>. QED  BY <1>2, <2>4, <2>5
<1>8. CASE InterruptAll
  <2>1. UNCHANGED chan /\ breaks' = breaks + 1  BY <1>8 DEF InterruptAll
  <2>2. breaks' > 0  BY <1>3, <2>1
  <2>3. \A x \in Requests : \/ wait'[x] = wait[x] /\ told'[x] = told[x]
                            \/ wait'[x] = "interrupt" /\ told'[x] = "deny"
    BY <1>8 DEF InterruptAll
  <2>4. ASSUME NEW x \in Requests PROVE Ok(x)'
    BY <1>2, <2>1, <2>2, <2>3
  <2>. QED  BY <1>2, <2>4
<1>9. CASE CleanupPrompts  BY <1>3, <1>4, <1>9 DEF CleanupPrompts
<1>10. ASSUME \/ \E r \in Requests : Watcher(r)
              \/ TakeRequest \/ PostPrompt \/ RegisterPrompt \/ PostFails \/ UNCHANGED flowVars
       PROVE  ToldInd'
  <2>1. UNCHANGED <<wait, told, breaks>>
    BY <1>10 DEF Watcher, TakeRequest, PostPrompt, RegisterPrompt, PostFails, flowVars
  <2>. QED  BY <1>3, <1>4, <2>1
<1>11. ASSUME NEW c \in Clickers, Handled(c) PROVE ToldInd'
  BY <1>3, <1>4, <1>11, HandledTouches DEF Touches
<1>. QED
  BY <1>5, <1>6, <1>7, <1>8, <1>9, <1>10, <1>11 DEF FlowNext, WorkerStep, HandlerStep, Handled

-----------------------------------------------------------------------------
(***************************************************************************)
(* Who owns the decision of a tool.                                        *)
(***************************************************************************)
Takes(s) == s \in entries /\ s \notin entries'
Saver(c, s) == hand[c].slot = s /\ hand[c].do \in Saves

\* A handler decides a tool whose entry it removes, or whose rule it saved; it
\* becomes who saves the rule, or who dismisses, by removing the entry.
Moves(c, s) ==
  /\ chan'[s[1]] # chan[s[1]] => Takes(s) \/ Saver(c, s)
  /\ Saver(c, s)' => Takes(s)
  /\ s \in hand'[c].rest => s \in hand[c].rest \/ Takes(s)

\* A tool has one message.
LEMMA ToolSlots == \A s, t \in ToolPrompts : s[1] = t[1] => s = t
BY PromptPairs

\* How a handler moves the prompt of a tool: it takes the entry into its own hands,
\* or decides a request that it holds.
LEMMA HandledMoves ==
  ASSUME StateTypes, KindInd, NEW c \in Clickers, Handled(c), NEW s \in ToolPrompts
  PROVE  Moves(c, s)
<1>1. s[1] \in Requests /\ IsTool(s[1])  BY PromptPairs
<1>2. \A d : Goes(c, d) => /\ Saver(c, s)' => d \in Saves /\ hand[c].slot = s
                           /\ s \in hand'[c].rest => s \in hand[c].rest
  BY DEF Goes, Saver
<1>3. Freed(c) => ~Saver(c, s)' /\ s \notin hand'[c].rest
  BY DEF Freed, Saver, Saves
<1>4. \A d : hand[c].slot \in ToolPrompts /\ Decides({hand[c].slot[1]}, d) =>
        (chan'[s[1]] # chan[s[1]] => s = hand[c].slot)
  BY <1>1, ToolSlots DEF Decides
<1>5. \A d : ~IsTool(hand[c].slot[1]) /\ Decides({hand[c].slot[1]}, d) =>
        chan'[s[1]] = chan[s[1]]
  BY <1>1 DEF Decides
<1>. USE DEF Moves
<1>6. CASE \/ TooLate(c) \/ ReadEntry(c) \/ DrawLevel2(c) \/ LeaveDialog(c) \/ CloseDialog(c)
           \/ ShowOutcome(c)
  <2>1. chan' = chan
    BY <1>6, TooLateDoes, ReadEntryDoes, DrawLevel2Does, LeaveDialogDoes, CloseDialogDoes,
       ShowOutcomeDoes
  <2>2. Freed(c) \/ \E d \in {"draw", "answer", "confirmed"} : Goes(c, d)
    BY <1>6, TooLateDoes, ReadEntryDoes, DrawLevel2Does, LeaveDialogDoes, CloseDialogDoes,
       ShowOutcomeDoes
  <2>. QED  BY <1>2, <1>3, <2>1, <2>2 DEF Saves
<1>7. CASE DecideOnce(c)
  <2>1. /\ hand[c].slot \in ToolPrompts /\ hand[c].slot \in entries
        /\ entries' = entries \ {hand[c].slot}
        /\ \E d : Decides({hand[c].slot[1]}, d)
        /\ \E d \in {"show allowed", "show denied"} : Goes(c, d)
    BY <1>7, DecideOnceDoes
  <2>. QED  BY <1>2, <1>4, <2>1 DEF Takes, Saves
<1>8. CASE TakeForAlways(c)
  <2>1. /\ hand[c].slot \in ToolPrompts /\ hand[c].slot \in entries
        /\ entries' = entries \ {hand[c].slot} /\ chan' = chan
        /\ \E d \in Saves : Goes(c, d)
    BY <1>8, TakeForAlwaysDoes
  <2>. QED  BY <1>2, <2>1 DEF Takes
<1>9. CASE SaveSucceeds(c) \/ SaveFails(c)
  <2>1. /\ hand[c].slot \in ToolPrompts /\ hand[c].do \in Saves
        /\ \E d : Decides({hand[c].slot[1]}, d)
        /\ \E d \in {"restart tool", "restart", "show save failed"} : Goes(c, d)
    BY <1>9, SaveSucceedsDoes, SaveFailsDoes
  <2>. QED  BY <1>2, <1>4, <2>1 DEF Saver, Saves
<1>10. CASE RestartAndDismiss(c)
  <2>1. PICK D \in SUBSET entries :
          /\ D \subseteq ToolPrompts /\ entries' = entries \ D
          /\ Decides({x[1] : x \in D}, "always tool")
          /\ hand'[c].do = "show saved" /\ hand'[c].rest = D
    BY <1>10, RestartAndDismissDoes
  <2>2. ASSUME chan'[s[1]] # chan[s[1]] PROVE s \in D
    <3>1. s[1] \in {x[1] : x \in D}  BY <1>1, <2>1, <2>2 DEF Decides
    <3>2. PICK x \in D : x[1] = s[1]  BY <3>1
    <3>. QED  BY <2>1, <3>2, ToolSlots
  <2>. QED  BY <2>1, <2>2 DEF Takes, Saver, Saves
<1>11. CASE TakeAnswer(c) \/ RecordAnswer(c) \/ CancelQuestion(c)
  <2>1. /\ ~IsTool(hand[c].slot[1])
        /\ chan' = chan \/ \E d : Decides({hand[c].slot[1]}, d)
        /\ Freed(c) \/ \E d \in {"show answered", "record"} : Goes(c, d)
    BY <1>11, TakeAnswerDoes, RecordAnswerDoes, CancelQuestionDoes
  <2>. QED  BY <1>2, <1>3, <1>5, <2>1 DEF Saves
<1>12. ASSUME NEW x \in Slots, ShowDismissed(c, x) PROVE Moves(c, s)
  BY <1>12, ShowDismissedDoes DEF Saver, Saves
<1>13. ASSUME NEW x \in Slots, Click(c, x) PROVE Moves(c, s)
  BY <1>13, ClickDoes DEF Saver, Saves, Level1, Level2, QuestionButtons
<1>. QED
  BY <1>6, <1>7, <1>8, <1>9, <1>10, <1>11, <1>12, <1>13 DEF Handled, HandStep

\* Who is posted is known to nobody else.
LEMMA PostedStep ==
  StateTypes /\ KindInd /\ FreshInd /\ PostedAlone /\ [FlowNext]_flowVars => PostedAlone'
<1>. SUFFICES ASSUME StateTypes, KindInd, FreshInd, PostedAlone, [FlowNext]_flowVars,
                     posting' \in ToolPrompts'
              PROVE  PostedAlone'
  BY DEF PostedAlone
<1>1. Prompts' = Prompts /\ ToolPrompts' = ToolPrompts  BY KindConst, KindsStay
<1>2. posting' \in ToolPrompts /\ posting' \in Slots /\ posting' # NoSlot /\ IsTool(posting'[1])
      /\ posting' = <<posting'[1], 0>> /\ posting'[1] \in Requests
  BY <1>1, PromptPairs
<1>. DEFINE Alone == /\ chan[posting[1]] = "open" /\ posting \notin entries
                     /\ posting[1] \notin watched
                     /\ (\A c \in Clickers : hand[c].slot # posting) /\ ~Dismissed(posting)
<1>3. posting \in ToolPrompts => Alone /\ (~posted => screen[posting] = "none")
  BY DEF PostedAlone
<1>4. Alone' /\ (~posted' => screen'[posting'] = "none") => PostedAlone'
  BY DEF PostedAlone
<1>5. ASSUME UNCHANGED <<posting, chan, hand>>, entries' \subseteq entries, watched' \subseteq watched,
             posted' \/ (posted' = posted /\ screen'[posting] = screen[posting])
      PROVE  PostedAlone'
  BY <1>2, <1>3, <1>4, <1>5 DEF Dismissed
<1>6. ASSUME NEW r \in Requests, Arrive(r) \/ WorkerStep(r) PROVE PostedAlone'
  BY <1>5, <1>6 DEF Arrive, WorkerStep, Resolve, PermissionTimeout
<1>7. ASSUME NEW r \in Requests, Watcher(r) PROVE PostedAlone'
  <2>1. /\ UNCHANGED <<posting, posted, chan, hand>> /\ r \in watched
        /\ entries' \subseteq entries /\ watched' \subseteq watched
    BY <1>7 DEF Watcher
  <2>2. posting # <<r, 0>>  BY <1>2, <1>3, <2>1, SlotPairs
  <2>3. screen'[posting] = screen[posting]
    BY <1>2, <1>7, <2>1, <2>2 DEF Watcher, Close, StateTypes
  <2>. QED  BY <1>5, <2>1, <2>3
<1>8. CASE InterruptAll  BY <1>5, <1>8 DEF InterruptAll
<1>9. CASE CleanupPrompts
  <2>. DEFINE R == groups \cup {r \in Requests : <<r, 0>> \in entries /\ kind[r] # "group"}
  <2>1. UNCHANGED <<posting, posted, watched, screen, hand>> /\ entries' = {}
        /\ chan' = Sent(R, "dropped")
    BY <1>9 DEF CleanupPrompts
  <2>2. posting[1] \notin R /\ posting[1] \in Requests
    BY <1>2, <1>3, <2>1, PromptPairs DEF StateTypes
  <2>3. chan'[posting[1]] = chan[posting[1]]  BY <2>1, <2>2 DEF Sent
  <2>. QED  BY <1>2, <1>3, <1>4, <2>1, <2>3 DEF Dismissed
<1>10. CASE TakeRequest
  <2>1. /\ UNCHANGED <<posted, chan, watched, screen, hand, entries>> /\ ~posted
        /\ posting'[1] = Head(inbox)
    BY <1>10 DEF TakeRequest, StateTypes
  <2>2. Head(inbox) \in Queue  BY <1>10, QueueShrinks DEF TakeRequest, StateTypes
  <2>3. Untouched(posting'[1])  BY <1>2, <2>1, <2>2 DEF FreshInd
  <2>4. Alone' /\ screen'[posting'] = "none"
    BY <1>2, <2>1, <2>3 DEF Untouched, Dismissed
  <2>. QED  BY <1>4, <2>4
<1>11. CASE PostPrompt  BY <1>5, <1>11 DEF PostPrompt
<1>12. CASE RegisterPrompt
  <2>1. posting \in Prompts /\ posting[1] \in Requests
    BY <1>12, PromptPairs DEF RegisterPrompt, StateTypes
  <2>2. posting' = <<posting[1], posting[2] + 1>> /\ posting' \in SlotsOf(posting[1])
    BY <1>2, <1>12 DEF RegisterPrompt
  <2>3. posting'[1] = posting[1] /\ posting'[2] = posting[2] + 1  BY <2>2
  <2>4. posting \in ToolPrompts  BY <1>2, <2>1, <2>3 DEF ToolPrompts
  <2>5. posting = posting'  BY <1>2, <2>3, <2>4, ToolSlots
  <2>6. posting[2] \in {0, 1}  BY <2>4, PromptPairs, SlotPairs
  <2>. QED  BY <2>3, <2>5, <2>6
<1>13. CASE PostFails  BY <1>2, <1>13 DEF PostFails
<1>14. ASSUME NEW c \in Clickers, Handled(c) PROVE PostedAlone'
  <2>1. Touches(c) /\ posting' = posting  BY <1>14, HandledTouches DEF Touches
  <2>2. Moves(c, posting)  BY <1>2, <1>14, <2>1, HandledMoves
  <2>3. Alone  BY <1>2, <1>3, <2>1
  <2>4. hand[c].slot \in ToolPrompts \/ hand[c].slot[1] # posting[1]
    <3>1. hand[c].do \in Dos  BY DEF StateTypes, HandType
    <3>2. CASE hand[c].do \in ToolDos \cup QuestionDos  BY <1>2, <2>1, <3>2, HandsAt
    <3>3. CASE hand[c].do = "none"
      BY <1>2, <2>1, <3>3, SlotPairs DEF KindInd, HandKinds
    <3>. QED  BY <3>1, <3>2, <3>3 DEF Dos
  <2>5. hand[c].slot[1] # posting[1]  BY <1>2, <2>1, <2>3, <2>4, ToolSlots
  <2>6. screen'[posting] = screen[posting]
    BY <1>2, <2>1, <2>3, <2>5 DEF Touches, Dismissed
  <2>7. chan'[posting[1]] = chan[posting[1]]
    BY <2>2, <2>3 DEF Moves, Takes, Saver
  <2>8. hand'[c].slot # posting /\ posting \notin hand'[c].rest
    BY <1>2, <2>1, <2>3 DEF Touches, Dismissed
  <2>9. \A d \in Clickers : hand'[d].slot # posting /\ posting \notin hand'[d].rest
    BY <2>1, <2>3, <2>8 DEF Touches, Dismissed
  <2>10. Alone'  BY <2>1, <2>3, <2>7, <2>9 DEF Touches, Dismissed
  <2>. QED  BY <1>2, <1>3, <1>4, <2>1, <2>6, <2>10 DEF Touches
<1>15. CASE UNCHANGED flowVars  BY <1>5, <1>15 DEF flowVars
<1>. QED
  BY <1>6, <1>7, <1>8, <1>9, <1>10, <1>11, <1>12, <1>13, <1>14, <1>15
  DEF FlowNext, HandlerStep, Handled

\* Clean up and a failed message only decide requests whose entries they remove,
\* or whose message was being posted.
LEMMA TidyMoves ==
  ASSUME StateTypes, CleanupPrompts \/ PostFails
  PROVE  /\ UNCHANGED <<kind, hand, screen, watched, posted, wait, told, revived>>
         /\ entries' \subseteq entries /\ groups' \subseteq groups
         /\ posting' = posting \/ posting' = NoSlot
         /\ \A s \in ToolPrompts :
              /\ chan'[s[1]] # chan[s[1]] => Takes(s) \/ posting = s
              /\ chan'[s[1]] # chan[s[1]] => chan'[s[1]] \in {"dropped", "deny"}
<1>1. CASE CleanupPrompts
  <2>. DEFINE R == groups \cup {r \in Requests : <<r, 0>> \in entries /\ kind[r] # "group"}
  <2>1. /\ UNCHANGED <<kind, hand, screen, watched, posted, posting, wait, told, revived>>
        /\ entries' = {} /\ groups' = {} /\ chan' = Sent(R, "dropped")
    BY <1>1 DEF CleanupPrompts
  <2>2. ASSUME NEW s \in ToolPrompts, chan'[s[1]] # chan[s[1]]
        PROVE  Takes(s) /\ chan'[s[1]] = "dropped"
    <3>1. s[1] \in R /\ s[1] \in Requests /\ chan'[s[1]] = "dropped"
      BY <2>1, <2>2, PromptPairs DEF Sent
    <3>2. s[1] \notin groups /\ s = <<s[1], 0>>  BY PromptPairs DEF StateTypes
    <3>3. s \in entries  BY <3>1, <3>2
    <3>. QED  BY <2>1, <3>1, <3>3 DEF Takes
  <2>. QED  BY <2>1, <2>2
<1>2. CASE PostFails
  <2>1. /\ UNCHANGED <<kind, hand, screen, watched, posted, wait, told, revived>>
        /\ entries' \subseteq entries /\ groups' \subseteq groups /\ posting' = NoSlot
        /\ posting \in Prompts
        /\ chan' = chan \/ chan' = Sent({posting[1]}, "deny")
    BY <1>2 DEF PostFails, StateTypes
  <2>2. ASSUME NEW s \in ToolPrompts, chan'[s[1]] # chan[s[1]]
        PROVE  posting = s /\ chan'[s[1]] = "deny"
    <3>1. s[1] = posting[1] /\ chan'[s[1]] = "deny"
      BY <2>1, <2>2, PromptPairs DEF Sent
    <3>2. posting \in ToolPrompts  BY <2>1, <3>1, PromptPairs DEF ToolPrompts
    <3>. QED  BY <3>1, <3>2, ToolSlots
  <2>. QED  BY <2>1, <2>2
<1>. QED  BY <1>1, <1>2

\* A registered tool is not decided, nor is anybody about to.
LEMMA EntryStep ==
  StateTypes /\ KindInd /\ PostedAlone /\ EntryOwns /\ [FlowNext]_flowVars => EntryOwns'
<1>. SUFFICES ASSUME StateTypes, KindInd, PostedAlone, EntryOwns, [FlowNext]_flowVars
              PROVE  EntryOwns'
  OBVIOUS
<1>1. ToolPrompts' = ToolPrompts  BY KindConst, KindsStay
<1>. DEFINE Owns(s) == chan[s[1]] = "open" /\ ~Saved(s) /\ ~Dismissed(s)
<1>2. /\ \A s \in ToolPrompts : s \in entries => Owns(s)
      /\ (\A s \in ToolPrompts : s \in entries' => Owns(s)') => EntryOwns'
  BY <1>1 DEF EntryOwns
<1>3. ASSUME UNCHANGED <<chan, hand>>, entries' \subseteq entries PROVE EntryOwns'
  BY <1>2, <1>3 DEF Saved, Dismissed
<1>4. ASSUME \/ \E r \in Requests : Arrive(r) \/ WorkerStep(r) \/ Watcher(r)
             \/ InterruptAll \/ TakeRequest \/ PostPrompt \/ UNCHANGED flowVars
      PROVE  EntryOwns'
  BY <1>3, <1>4
  DEF Arrive, WorkerStep, Resolve, PermissionTimeout, Watcher, InterruptAll, TakeRequest,
      PostPrompt, flowVars
<1>5. CASE CleanupPrompts \/ PostFails
  <2>1. ASSUME NEW s \in ToolPrompts, s \in entries' PROVE Owns(s)'
    <3>1. UNCHANGED hand /\ s \in entries /\ Owns(s)  BY <1>2, <1>5, <2>1, TidyMoves
    <3>2. posting # s  BY <3>1 DEF PostedAlone
    <3>3. chan'[s[1]] = chan[s[1]]  BY <1>5, <2>1, <3>2, TidyMoves DEF Takes
    <3>. QED  BY <3>1, <3>3 DEF Saved, Dismissed
  <2>. QED  BY <1>2, <2>1
<1>6. CASE RegisterPrompt
  <2>1. UNCHANGED <<chan, hand>> /\ entries' = entries \cup {posting}
    BY <1>6 DEF RegisterPrompt
  <2>2. posting \in ToolPrompts => Owns(posting)  BY DEF PostedAlone, Saved
  <2>3. \A s \in ToolPrompts : s \in entries' => Owns(s)  BY <1>2, <2>1, <2>2
  <2>. QED  BY <1>2, <2>1, <2>3 DEF Saved, Dismissed
<1>7. ASSUME NEW c \in Clickers, Handled(c) PROVE EntryOwns'
  <2>1. Touches(c)  BY <1>7, HandledTouches
  <2>2. ASSUME NEW s \in ToolPrompts, s \in entries' PROVE Owns(s)'
    <3>1. s \in entries /\ Owns(s) /\ ~Takes(s)  BY <1>2, <2>1, <2>2 DEF Touches, Takes
    <3>2. Moves(c, s)  BY <1>7, HandledMoves
    <3>3. ~Saver(c, s) /\ s \notin hand[c].rest  BY <3>1 DEF Saved, Saver, Dismissed
    <3>4. chan'[s[1]] = chan[s[1]] /\ ~Saver(c, s)' /\ s \notin hand'[c].rest
      BY <3>1, <3>2, <3>3 DEF Moves
    <3>5. \A d \in Clickers : ~Saver(d, s)' /\ s \notin hand'[d].rest
      BY <2>1, <3>1, <3>4 DEF Touches, Saver, Saved, Dismissed
    <3>. QED  BY <3>1, <3>4, <3>5 DEF Saved, Saver, Dismissed
  <2>. QED  BY <1>2, <2>2
<1>. QED  BY <1>4, <1>5, <1>6, <1>7 DEF FlowNext, HandlerStep, Handled

\* Who saves a rule took the entry.
LEMMA SaversTake ==
  ASSUME StateTypes, KindInd, NEW c \in Clickers, Handled(c), hand'[c].do \in Saves
  PROVE  TakeForAlways(c)
<1>1. ~Freed(c) /\ \A d : Goes(c, d) => d \in Saves  BY DEF Freed, Goes, Saves
<1>2. ASSUME \/ TooLate(c) \/ ReadEntry(c) \/ DrawLevel2(c) \/ LeaveDialog(c) \/ CloseDialog(c)
             \/ ShowOutcome(c) \/ DecideOnce(c) \/ SaveSucceeds(c) \/ SaveFails(c)
             \/ TakeAnswer(c) \/ RecordAnswer(c) \/ CancelQuestion(c)
      PROVE  FALSE
  <2>1. Freed(c) \/ \E d \in Dos \ Saves : Goes(c, d)
    BY <1>2, TooLateDoes, ReadEntryDoes, DrawLevel2Does, LeaveDialogDoes, CloseDialogDoes,
       ShowOutcomeDoes,
       DecideOnceDoes, SaveSucceedsDoes, SaveFailsDoes, TakeAnswerDoes, RecordAnswerDoes,
       CancelQuestionDoes
    DEF Dos, ToolDos, QuestionDos, Saves
  <2>. QED  BY <1>1, <2>1
<1>3. ~RestartAndDismiss(c)  BY RestartAndDismissDoes DEF Saves
<1>4. ~\E s \in Slots : ShowDismissed(c, s) \/ Click(c, s)
  BY ShowDismissedDoes, ClickDoes DEF Saves, Level1, Level2, QuestionButtons
<1>. QED  BY <1>2, <1>3, <1>4 DEF Handled, HandStep

\* One click saves a rule for a tool, which is not decided meanwhile.
LEMMA SaverStep ==
  StateTypes /\ KindInd /\ PostedAlone /\ EntryOwns /\ SaverOwns /\ [FlowNext]_flowVars => SaverOwns'
<1>. SUFFICES ASSUME StateTypes, KindInd, PostedAlone, EntryOwns, SaverOwns, [FlowNext]_flowVars
              PROVE  SaverOwns'
  OBVIOUS
<1>. DEFINE Alone(c) == /\ chan[hand[c].slot[1]] = "open"
                        /\ \A d \in Clickers :
                             hand[d].slot = hand[c].slot /\ hand[d].do \in Saves => d = c
<1>1. /\ \A c \in Clickers : hand[c].do \in Saves => Alone(c)
      /\ (\A c \in Clickers : hand'[c].do \in Saves => Alone(c)') => SaverOwns'
  BY DEF SaverOwns
<1>2. ASSUME UNCHANGED <<chan, hand>> PROVE SaverOwns'
  BY <1>1, <1>2
<1>3. ASSUME \/ \E r \in Requests : Arrive(r) \/ WorkerStep(r) \/ Watcher(r)
             \/ InterruptAll \/ TakeRequest \/ PostPrompt \/ RegisterPrompt \/ UNCHANGED flowVars
      PROVE  SaverOwns'
  BY <1>2, <1>3
  DEF Arrive, WorkerStep, Resolve, PermissionTimeout, Watcher, InterruptAll, TakeRequest,
      PostPrompt,
      RegisterPrompt, flowVars
<1>4. ASSUME NEW c \in Clickers, hand[c].do \in Saves
      PROVE  /\ hand[c].slot \in ToolPrompts /\ hand[c].slot \notin entries
             /\ Saver(c, hand[c].slot) /\ posting # hand[c].slot
  <2>1. hand[c].slot \in ToolPrompts  BY <1>4, HandsAt DEF Saves, ToolDos
  <2>. QED  BY <1>4, <2>1 DEF EntryOwns, Saved, Saver, PostedAlone
<1>5. CASE CleanupPrompts \/ PostFails
  <2>1. UNCHANGED hand  BY <1>5, TidyMoves
  <2>2. ASSUME NEW c \in Clickers, hand[c].do \in Saves
        PROVE  chan'[hand[c].slot[1]] = chan[hand[c].slot[1]]
    BY <1>4, <1>5, <2>2, TidyMoves DEF Takes
  <2>. QED  BY <1>1, <2>1, <2>2
<1>6. ASSUME NEW c \in Clickers, Handled(c) PROVE SaverOwns'
  <2>1. Touches(c)  BY <1>6, HandledTouches
  <2>2. ASSUME NEW d \in Clickers, hand'[d].do \in Saves, d # c
        PROVE  Alone(d)'
    <3>1. hand'[d] = hand[d] /\ hand[d].do \in Saves /\ Alone(d)
      BY <1>1, <2>1, <2>2 DEF Touches
    <3>2. PICK s \in ToolPrompts : s = hand[d].slot /\ s \notin entries  BY <1>4, <3>1
    <3>3. ~Saver(c, s)  BY <2>2, <3>1, <3>2 DEF Saver
    <3>4. chan'[s[1]] = chan[s[1]] /\ ~Saver(c, s)'
      BY <1>6, <3>2, <3>3, HandledMoves DEF Moves, Takes
    <3>5. \A e \in Clickers : hand'[e].slot = s /\ hand'[e].do \in Saves => e = d
      BY <2>1, <3>1, <3>2, <3>4 DEF Touches, Saver
    <3>. QED  BY <3>1, <3>2, <3>4, <3>5
  <2>3. ASSUME hand'[c].do \in Saves PROVE Alone(c)'
    <3>. DEFINE s == hand'[c].slot
    <3>1. TakeForAlways(c)  BY <1>6, <2>3, SaversTake
    <3>2. s = hand[c].slot /\ s \in ToolPrompts /\ s \in entries /\ chan' = chan
      BY <3>1, TakeForAlwaysDoes DEF Goes
    <3>3. chan[s[1]] = "open" /\ ~Saved(s)  BY <3>2 DEF EntryOwns
    <3>4. \A d \in Clickers \ {c} : ~(hand'[d].slot = s /\ hand'[d].do \in Saves)
      BY <2>1, <3>3 DEF Touches, Saved
    <3>. QED  BY <3>2, <3>3, <3>4
  <2>. QED  BY <1>1, <2>2, <2>3
<1>. QED  BY <1>3, <1>5, <1>6 DEF FlowNext, HandlerStep, Handled

\* What a handler is about to show.
Allowing == {"show allowed", "restart tool", "restart", "show saved"}
Denying == {"show denied", "show save failed"}
Decided(c) == /\ hand[c].do \in Allowing => chan[hand[c].slot[1]] \in Allows
              /\ hand[c].do \in Denying => chan[hand[c].slot[1]] = "deny"
Dismisses(c) == \A s \in hand[c].rest : chan[s[1]] \in Allows

\* Who shows a decision made it, and it stays.
LEMMA HandsStep ==
  StateTypes /\ KindInd /\ EntryOwns /\ SaverOwns /\ HandsKnow /\ [FlowNext]_flowVars => HandsKnow'
<1>. SUFFICES ASSUME StateTypes, KindInd, EntryOwns, SaverOwns, HandsKnow, [FlowNext]_flowVars
              PROVE  HandsKnow'
  OBVIOUS
<1>1. ToolPrompts' = ToolPrompts /\ StateTypes' /\ KindInd'
  BY KindConst, KindsStay, TypesStep, KindStep
<1>. DEFINE Knows(c) == Decided(c) /\ Dismisses(c)
<1>2. \A c \in Clickers : Knows(c)
  BY DEF HandsKnow, Dismissed, KindInd, HandKinds, Decided, Dismisses, Allowing, Denying
<1>3. (\A c \in Clickers : Knows(c)') => HandsKnow'
  BY <1>1 DEF HandsKnow, Dismissed, Decided, Dismisses, Allowing, Denying
<1>4. \A s \in Prompts : chan[s[1]] # "open" => chan'[s[1]] = chan[s[1]]
  BY DecisionsStay, PromptPairs
<1>5. "open" \notin Allows  BY DEF Allows
<1>6. ASSUME NEW c \in Clickers, hand'[c] = hand[c] PROVE Knows(c)'
  <2>1. hand[c].do \in Allowing \cup Denying => hand[c].slot \in ToolPrompts
    BY HandsAt DEF ToolDos, Allowing, Denying
  <2>2. hand[c].rest \subseteq ToolPrompts  BY DEF KindInd, HandKinds
  <2>3. hand[c].do \in Allowing \cup Denying => chan'[hand[c].slot[1]] = chan[hand[c].slot[1]]
    <3>1. ASSUME hand[c].do \in Allowing \cup Denying PROVE chan[hand[c].slot[1]] # "open"
      BY <1>2, <1>5, <3>1 DEF Decided, Denying, Allowing
    <3>. QED  BY <1>4, <2>1, <3>1, PromptPairs
  <2>4. Decided(c)'  BY <1>2, <1>6, <2>3 DEF Decided
  <2>5. Dismisses(c)'  BY <1>2, <1>4, <1>5, <1>6, <2>2, PromptPairs DEF Dismisses
  <2>. QED  BY <2>4, <2>5
<1>7. CASE UNCHANGED hand  BY <1>3, <1>6, <1>7
<1>8. ASSUME NEW c \in Clickers, Handled(c) PROVE HandsKnow'
  <2>1. ASSUME hand'[c].do \notin Allowing, hand'[c].do \notin Denying, hand'[c].rest = {}
        PROVE  Knows(c)'
    <3>1. Decided(c)'  BY <2>1 DEF Decided
    <3>2. Dismisses(c)'  BY <2>1 DEF Dismisses
    <3>. QED  BY <3>1, <3>2
  <2>2. ASSUME NEW d \in Allowing, Goes(c, d), hand[c].rest = {}, chan'[hand[c].slot[1]] \in Allows
         PROVE  Knows(c)'
    <3>1. hand'[c].do \notin Denying /\ hand'[c].slot = hand[c].slot /\ hand'[c].rest = {}
      BY <2>2 DEF Goes, Allowing, Denying
    <3>2. hand'[c].do = d  BY <2>2 DEF Goes
    <3>. QED  BY <2>2, <3>1, <3>2 DEF Decided, Dismisses
  <2>3. ASSUME NEW d \in Denying, Goes(c, d), hand[c].rest = {}, chan'[hand[c].slot[1]] = "deny"
         PROVE  Knows(c)'
    <3>1. hand'[c].do \notin Allowing /\ hand'[c].slot = hand[c].slot /\ hand'[c].rest = {}
      BY <2>3 DEF Goes, Allowing, Denying
    <3>2. hand'[c].do = d  BY <2>3 DEF Goes
    <3>. QED  BY <2>3, <3>1, <3>2 DEF Decided, Dismisses
  <2>4. \A d \in Clickers \ {c} : hand'[d] = hand[d]  BY <1>8, HandledTouches DEF Touches
  <2>. SUFFICES Knows(c)'  BY <1>3, <1>6, <2>4
  <2>. HIDE DEF Knows
  <2>5. CASE TooLate(c) \/ ReadEntry(c) \/ DrawLevel2(c) \/ LeaveDialog(c) \/ CloseDialog(c)
             \/ ShowOutcome(c) \/ CancelQuestion(c)
    <3>1. hand[c].rest = {}
      BY <2>5, TooLateDoes, ReadEntryDoes, DrawLevel2Does, LeaveDialogDoes, CloseDialogDoes,
         ShowOutcomeDoes, CancelQuestionDoes, HandsAt DEF Dialogs, Allows
    <3>2. Freed(c) \/ \E d \in {"draw", "answer", "confirmed"} : Goes(c, d)
      BY <2>5, TooLateDoes, ReadEntryDoes, DrawLevel2Does, LeaveDialogDoes, CloseDialogDoes,
         ShowOutcomeDoes, CancelQuestionDoes
    <3>3. hand'[c].do \in {"none", "draw", "answer", "confirmed"} /\ hand'[c].rest = {}
      BY <3>1, <3>2 DEF Freed, Goes
    <3>. QED  BY <2>1, <3>3 DEF Allowing, Denying
  <2>6. CASE TakeForAlways(c) \/ TakeAnswer(c) \/ RecordAnswer(c)
    <3>1. hand[c].rest = {}
      BY <2>6, TakeForAlwaysDoes, TakeAnswerDoes, RecordAnswerDoes, HandsAt
    <3>2. \E d \in {"save tool", "save exact", "show answered", "record"} : Goes(c, d)
      BY <2>6, TakeForAlwaysDoes, TakeAnswerDoes, RecordAnswerDoes DEF Saves
    <3>3. hand'[c].do \in {"save tool", "save exact", "show answered", "record"} /\ hand'[c].rest = {}
      BY <3>1, <3>2 DEF Goes
    <3>. QED  BY <2>1, <3>3 DEF Allowing, Denying
  <2>7. CASE DecideOnce(c)
    <3>1. hand[c].slot \in ToolPrompts /\ hand[c].slot \in entries /\ hand[c].rest = {}
      BY <2>7, DecideOnceDoes, HandsAt
    <3>2. chan[hand[c].slot[1]] = "open" /\ hand[c].slot[1] \in Requests
      BY <3>1, PromptPairs DEF EntryOwns
    <3>3. CASE Decides({hand[c].slot[1]}, "once") /\ Goes(c, "show allowed")
      <4>1. chan'[hand[c].slot[1]] \in Allows  BY <3>2, <3>3 DEF Decides, Allows
      <4>. QED  BY <2>2, <3>1, <3>3, <4>1 DEF Allowing
    <3>4. CASE Decides({hand[c].slot[1]}, "deny") /\ Goes(c, "show denied")
      <4>1. chan'[hand[c].slot[1]] = "deny"  BY <3>2, <3>4 DEF Decides
      <4>. QED  BY <2>3, <3>1, <3>4, <4>1 DEF Denying
    <3>. QED  BY <2>7, <3>3, <3>4, DecideOnceDoes
  <2>8. CASE SaveSucceeds(c) \/ SaveFails(c)
    <3>1. hand[c].slot \in ToolPrompts /\ hand[c].do \in Saves /\ hand[c].rest = {}
      BY <2>8, SaveSucceedsDoes, SaveFailsDoes, HandsAt DEF Saves
    <3>2. chan[hand[c].slot[1]] = "open" /\ hand[c].slot[1] \in Requests
      BY <3>1, PromptPairs DEF SaverOwns
    <3>3. CASE \/ Decides({hand[c].slot[1]}, "always tool") /\ Goes(c, "restart tool")
               \/ Decides({hand[c].slot[1]}, "always exact") /\ Goes(c, "restart")
      <4>1. chan'[hand[c].slot[1]] \in Allows  BY <3>2, <3>3 DEF Decides, Allows
      <4>. QED  BY <2>2, <3>1, <3>3, <4>1 DEF Allowing
    <3>4. CASE Decides({hand[c].slot[1]}, "deny") /\ Goes(c, "show save failed")
      <4>1. chan'[hand[c].slot[1]] = "deny"  BY <3>2, <3>4 DEF Decides
      <4>. QED  BY <2>3, <3>1, <3>4, <4>1 DEF Denying
    <3>. QED  BY <2>8, <3>3, <3>4, SaveSucceedsDoes, SaveFailsDoes
  <2>9. CASE RestartAndDismiss(c)
    <3>1. PICK D \in SUBSET entries :
            /\ hand[c].slot \in ToolPrompts /\ hand[c].do \in {"restart tool", "restart"}
            /\ D \subseteq ToolPrompts /\ Decides({s[1] : s \in D}, "always tool")
            /\ hand'[c].do = "show saved" /\ hand'[c].slot = hand[c].slot /\ hand'[c].rest = D
      BY <2>9, RestartAndDismissDoes
    <3>2. chan'[hand'[c].slot[1]] \in Allows
      <4>1. chan[hand[c].slot[1]] \in Allows  BY <1>2, <3>1 DEF Knows, Decided, Allowing
      <4>. QED  BY <1>4, <1>5, <3>1, <4>1, PromptPairs
    <3>3. ASSUME NEW s \in D PROVE chan'[s[1]] \in Allows
      <4>1. chan[s[1]] = "open" /\ s[1] \in Requests  BY <3>1, PromptPairs DEF EntryOwns
      <4>2. s[1] \in {x[1] : x \in D}  OBVIOUS
      <4>. QED  BY <3>1, <4>1, <4>2 DEF Decides, Allows
    <3>4. hand'[c].do \notin Denying  BY <3>1 DEF Denying
    <3>5. Dismisses(c)'  BY <3>1, <3>3 DEF Dismisses
    <3>6. Decided(c)'  BY <3>2, <3>4 DEF Decided
    <3>. QED  BY <3>5, <3>6 DEF Knows
  <2>10. ASSUME NEW s \in Slots, ShowDismissed(c, s) PROVE Knows(c)'
    <3>1. /\ hand[c].do = "show saved" /\ hand'[c].do = "show saved" /\ hand'[c].slot = hand[c].slot
          /\ hand'[c].rest \subseteq hand[c].rest /\ chan' = chan
      BY <2>10, ShowDismissedDoes
    <3>2. Decided(c)'  BY <1>2, <3>1 DEF Decided, Knows
    <3>3. Dismisses(c)'  BY <1>2, <3>1 DEF Dismisses, Knows
    <3>. QED  BY <3>2, <3>3 DEF Knows
  <2>11. ASSUME NEW s \in Slots, Click(c, s) PROVE Knows(c)'
    BY <2>1, <2>11, ClickDoes DEF Level1, Level2, QuestionButtons, Allowing, Denying
  <2>. QED
    BY <1>8, <2>5, <2>6, <2>7, <2>8, <2>9, <2>10, <2>11 DEF Handled, HandStep
<1>9. CASE CleanupPrompts \/ PostFails  BY <1>7, <1>9, TidyMoves
<1>. QED
  BY <1>7, <1>8, <1>9 DEF FlowNext, HandlerStep, Handled, Arrive, WorkerStep, Resolve,
                          PermissionTimeout,
    Watcher, InterruptAll, TakeRequest, PostPrompt, RegisterPrompt, flowVars

\* Which decision is sent, and what is shown.
LEMMA HandledAllows ==
  ASSUME StateTypes, KindInd, NEW c \in Clickers, Handled(c), NEW s \in ToolPrompts
  PROVE  \/ screen'[s] = screen[s]
         \/ screen'[s] \in {"level 2", "working"}
         \/ screen'[s] = "dismissed" /\ s \in hand[c].rest /\ chan' = chan
         \/ /\ screen'[s] = Shown(hand[c].do) /\ s = hand[c].slot /\ chan' = chan
            /\ hand[c].do \in {"show allowed", "show denied", "show saved", "show save failed"}
<1>1. s \in Slots  BY PromptPairs
<1>2. ASSUME NEW x \in Slots, ShowDismissed(c, x)
      PROVE  screen'[s] = screen[s] \/ (screen'[s] = "dismissed" /\ s \in hand[c].rest /\ chan' = chan)
  <2>1. Draws(x, "dismissed") /\ x \in hand[c].rest /\ chan' = chan
    BY <1>2, ShowDismissedDoes DEF Edits
  <2>. QED  BY <1>1, <2>1 DEF Draws
<1>3. CASE ShowOutcome(c)
  <2>1. /\ hand[c].do \in {"show allowed", "show denied", "show saved", "show save failed", "show answered"}
        /\ Draws(hand[c].slot, Shown(hand[c].do)) /\ chan' = chan
    BY <1>3, ShowOutcomeDoes DEF Edits
  <2>2. CASE s = hand[c].slot
    <3>1. hand[c].do # "show answered"  BY <2>2, HandsAt, PromptPairs DEF QuestionDos
    <3>. QED  BY <2>1, <2>2, <3>1 DEF Draws
  <2>3. CASE s # hand[c].slot  BY <1>1, <2>1, <2>3 DEF Draws
  <2>. QED  BY <2>2, <2>3
<1>4. CASE DrawLevel2(c) \/ TakeForAlways(c)
  <2>1. \E l \in {"level 2", "working"} : Draws(hand[c].slot, l)
    BY <1>4, DrawLevel2Does, TakeForAlwaysDoes DEF Edits
  <2>. QED  BY <1>1, <2>1 DEF Draws
<1>5. CASE CancelQuestion(c)
  <2>1. ~IsTool(hand[c].slot[1]) /\ IsTool(s[1])  BY <1>5, CancelQuestionDoes, PromptPairs
  <2>. QED  BY <1>1, <1>5, <2>1, CancelQuestionDoes
<1>6. CASE \/ TooLate(c) \/ DecideOnce(c) \/ ReadEntry(c) \/ SaveSucceeds(c) \/ SaveFails(c)
           \/ RestartAndDismiss(c) \/ LeaveDialog(c) \/ CloseDialog(c) \/ TakeAnswer(c) \/ RecordAnswer(c)
  <2>1. screen' = screen
    BY <1>6 DEF TooLate, DecideOnce, ReadEntry, SaveSucceeds, SaveFails, RestartAndDismiss,
                LeaveDialog,
      CloseDialog, TakeAnswer, RecordAnswer
  <2>. QED  BY <2>1
<1>7. ASSUME NEW x \in Slots, Click(c, x) PROVE screen' = screen  BY <1>7 DEF Click
<1>. QED  BY <1>2, <1>3, <1>4, <1>5, <1>6, <1>7 DEF Handled, HandStep

\* What is shown was decided, and who says denied shuts the door on allowing.
LEMMA ScreensStep ==
  StateTypes /\ KindInd /\ FreshInd /\ OwnerInd /\ [FlowNext]_flowVars => ScreensTrue'
<1>. SUFFICES ASSUME StateTypes, KindInd, FreshInd, OwnerInd, [FlowNext]_flowVars
              PROVE  ScreensTrue'
  OBVIOUS
<1>1. ToolPrompts' = ToolPrompts  BY KindConst, KindsStay
<1>. DEFINE Says(s) == screen[s] \in SaysAllowed => chan[s[1]] \in Allows
            Shut(s) == chan[s[1]] \notin Allows /\ s \notin entries /\ ~Saved(s) /\ posting # s
            Denies(s) == screen[s] \in SaysDenied => Shut(s)
<1>2. /\ \A s \in ToolPrompts : Says(s) /\ Denies(s)
      /\ (\A s \in ToolPrompts : Says(s)' /\ Denies(s)') => ScreensTrue'
  BY <1>1 DEF OwnerInd, ScreensTrue
<1>3. PostedAlone /\ EntryOwns /\ SaverOwns /\ HandsKnow  BY DEF OwnerInd
<1>4. \A s \in ToolPrompts : chan[s[1]] # "open" => chan'[s[1]] = chan[s[1]]
  BY DecisionsStay, PromptPairs
<1>5. "open" \notin Allows /\ "deny" \notin Allows /\ "dropped" \notin Allows  BY DEF Allows
<1>6. ASSUME NEW s \in ToolPrompts, screen'[s] = screen[s] PROVE Says(s)'
  BY <1>2, <1>4, <1>5, <1>6
<1>7. ASSUME NEW s \in ToolPrompts, UNCHANGED <<chan, hand>>, entries' \subseteq entries, posting' # s, Shut(s)
      PROVE  Shut(s)'
  BY <1>7 DEF Saved
<1>8. ASSUME UNCHANGED <<chan, hand, posting, screen>>, entries' \subseteq entries
      PROVE  ScreensTrue'
  BY <1>2, <1>6, <1>7, <1>8
<1>9. ASSUME \/ \E r \in Requests : Arrive(r) \/ WorkerStep(r)
             \/ InterruptAll \/ UNCHANGED flowVars
      PROVE  ScreensTrue'
  BY <1>8, <1>9 DEF Arrive, WorkerStep, Resolve, PermissionTimeout, InterruptAll, flowVars
<1>10. ASSUME NEW r \in Requests, Watcher(r) PROVE ScreensTrue'
  <2>1. UNCHANGED <<chan, hand, posting>> /\ entries' \subseteq entries /\ r \in watched
    BY <1>10 DEF Watcher
  <2>2. CASE screen' = screen  BY <1>8, <2>1, <2>2
  <2>3. CASE <<r, 0>> \in entries /\ entries' = entries \ {<<r, 0>>}
             /\ screen' = [screen EXCEPT ![<<r, 0>>] = "timed out"]
    <3>1. PICK x \in ToolPrompts : x = <<r, 0>> /\ x[1] = r
      BY <2>1, PromptPairs DEF StateTypes
    <3>2. x \in Slots  BY <3>1, PromptPairs
    <3>3. Shut(x)'
      BY <1>3, <1>5, <2>1, <2>3, <3>1 DEF PostedAlone, EntryOwns, Saved
    <3>4. screen'[x] = "timed out" /\ \A s \in Slots \ {x} : screen'[s] = screen[s]
      BY <2>3, <3>1, <3>2 DEF StateTypes
    <3>5. Says(x)' /\ Denies(x)'  BY <3>3, <3>4 DEF SaysAllowed
    <3>6. ASSUME NEW s \in ToolPrompts, s # x PROVE Says(s)' /\ Denies(s)'
      <4>1. screen'[s] = screen[s]  BY <3>4, <3>6, PromptPairs
      <4>. QED  BY <1>2, <1>6, <1>7, <2>1, <4>1
    <3>. QED  BY <1>2, <3>5, <3>6
  <2>. QED  BY <1>10, <2>2, <2>3 DEF Watcher, Close
<1>11. CASE CleanupPrompts \/ PostFails
  <2>1. UNCHANGED <<hand, screen>> /\ entries' \subseteq entries /\ posting' \in {posting, NoSlot}
    BY <1>11, TidyMoves
  <2>2. ASSUME NEW s \in ToolPrompts, Shut(s) PROVE Shut(s)'
    <3>1. chan'[s[1]] \notin Allows
      BY <1>5, <1>11, <2>2, TidyMoves
    <3>2. posting' # s  BY <2>1, <2>2, PromptPairs
    <3>. QED  BY <2>1, <2>2, <3>1, <3>2 DEF Saved
  <2>. QED  BY <1>2, <1>6, <2>1, <2>2
<1>12. CASE TakeRequest
  <2>1. UNCHANGED <<chan, hand, screen, entries>> /\ posting' = <<Head(inbox), 0>>
    BY <1>12 DEF TakeRequest
  <2>2. Head(inbox) \in Queue /\ Head(inbox) \in Requests
    BY <1>12, QueueShrinks DEF TakeRequest, StateTypes
  <2>3. Untouched(Head(inbox))  BY <2>2 DEF FreshInd
  <2>4. ASSUME NEW s \in ToolPrompts, screen[s] \in SaysDenied PROVE posting' # s
    BY <2>1, <2>3, <2>4, PromptPairs DEF Untouched, SaysDenied
  <2>. QED  BY <1>2, <1>6, <1>7, <2>1, <2>4
<1>13. CASE PostPrompt
  <2>1. UNCHANGED <<chan, hand, posting, entries>>
        /\ \A s \in Slots : screen'[s] = screen[s] \/ screen'[s] \in {"level 1", "question"}
    BY <1>13 DEF PostPrompt, StateTypes
  <2>2. ASSUME NEW s \in ToolPrompts PROVE Says(s)' /\ Denies(s)'
    <3>1. screen'[s] = screen[s] \/ screen'[s] \in {"level 1", "question"}
      BY <2>1, PromptPairs
    <3>2. CASE screen'[s] = screen[s]  BY <1>2, <1>6, <1>7, <2>1, <3>2
    <3>3. CASE screen'[s] \in {"level 1", "question"}  BY <3>3 DEF SaysAllowed, SaysDenied
    <3>. QED  BY <3>1, <3>2, <3>3
  <2>. QED  BY <1>2, <2>2
<1>14. CASE RegisterPrompt
  <2>1. UNCHANGED <<chan, hand, screen>> /\ entries' = entries \cup {posting}
        /\ posting'[1] \in {posting[1], Nobody} /\ posting \in Prompts
    BY <1>14 DEF RegisterPrompt, NoSlot, StateTypes
  <2>2. ASSUME NEW s \in ToolPrompts, Shut(s) PROVE Shut(s)'
    <3>1. posting # s /\ s \notin entries'  BY <2>1, <2>2
    <3>2. posting' # s
      <4>1. posting'[1] = Nobody => posting' # s  BY PromptPairs, FlowAssumption
      <4>2. posting[1] = s[1] => posting \in ToolPrompts  BY <2>1, PromptPairs DEF ToolPrompts
      <4>3. posting[1] # s[1]  BY <3>1, <4>2, ToolSlots
      <4>. QED  BY <2>1, <4>1, <4>3
    <3>. QED  BY <2>1, <2>2, <3>1, <3>2 DEF Saved
  <2>. QED  BY <1>2, <1>6, <2>1, <2>2
<1>15. ASSUME NEW c \in Clickers, Handled(c), NEW s \in ToolPrompts PROVE Says(s)' /\ Denies(s)'
  <2>1. Touches(c) /\ Moves(c, s)  BY <1>15, HandledTouches, HandledMoves
  <2>2. ASSUME Shut(s) PROVE Shut(s)'
    <3>1. ~Takes(s) /\ ~Saver(c, s)  BY <2>2 DEF Takes, Saver, Saved
    <3>2. chan'[s[1]] = chan[s[1]] /\ ~Saver(c, s)'  BY <2>1, <3>1 DEF Moves
    <3>3. \A d \in Clickers : ~Saver(d, s)'  BY <2>1, <2>2, <3>2 DEF Touches, Saver, Saved
    <3>4. s \notin entries' /\ posting' # s  BY <2>1, <2>2 DEF Touches
    <3>. QED  BY <2>2, <3>2, <3>3, <3>4 DEF Saved, Saver
  <2>3. CASE screen'[s] = screen[s]  BY <1>2, <1>6, <2>2, <2>3
  <2>4. CASE screen'[s] \in {"level 2", "working"}  BY <2>4 DEF SaysAllowed, SaysDenied
  <2>5. CASE screen'[s] = "dismissed" /\ s \in hand[c].rest /\ chan' = chan
    BY <1>3, <2>5 DEF HandsKnow, Dismissed, SaysDenied
  <2>6. CASE /\ screen'[s] = Shown(hand[c].do) /\ s = hand[c].slot /\ chan' = chan
             /\ hand[c].do \in {"show allowed", "show denied", "show saved", "show save failed"}
    <3>1. CASE hand[c].do \in {"show allowed", "show saved"}
      BY <1>3, <2>6, <3>1 DEF HandsKnow, Shown, SaysDenied
    <3>2. CASE hand[c].do \in {"show denied", "show save failed"}
      <4>1. chan[s[1]] = "deny" /\ screen'[s] \notin SaysAllowed
        BY <1>3, <2>6, <3>2 DEF HandsKnow, Shown, SaysAllowed
      <4>2. Shut(s)
        BY <1>3, <1>5, <4>1 DEF PostedAlone, EntryOwns, SaverOwns, Saved
      <4>. QED  BY <2>2, <4>1, <4>2
    <3>. QED  BY <2>6, <3>1, <3>2
  <2>. QED  BY <1>15, <2>3, <2>4, <2>5, <2>6, HandledAllows
<1>. QED
  BY <1>2, <1>9, <1>10, <1>11, <1>12, <1>13, <1>14, <1>15 DEF FlowNext, HandlerStep, Handled

\* Every step keeps one owner for a prompt, who shows what it decided.
LEMMA OwnerStep ==
  StateTypes /\ KindInd /\ FreshInd /\ OwnerInd /\ [FlowNext]_flowVars => OwnerInd'
BY PostedStep, EntryStep, SaverStep, HandsStep, ScreensStep DEF OwnerInd

-----------------------------------------------------------------------------
(***************************************************************************)
(* A request that is waited for can be decided.                            *)
(***************************************************************************)
\* A handler leaves a request undecided only if it leaves its entry, or takes
\* the entry to save a rule, which decides it then.
KeepsOwner(c, r) ==
  LET s == <<r, 0>> IN
  chan'[r] = "open" /\ kind[r] # "group" =>
    /\ s \in entries /\ s \notin entries' => hand'[c].slot = s /\ hand'[c].do \in Saves
    /\ ~(hand[c].slot = s /\ hand[c].do \in Saves)

\* A handler that removes a tool's entry without deciding is who saves the rule.
LEMMA HandledKeepsOwner ==
  ASSUME StateTypes, KindInd, NEW c \in Clickers, Handled(c), NEW r \in Requests
  PROVE  KeepsOwner(c, r)
<1>. DEFINE s == <<r, 0>>
<1>1. s \in Prompts /\ s[1] = r  BY PromptPairs
<1>. HIDE DEF s
<1>2. ASSUME NEW d, d # "open", Decides({hand[c].slot[1]}, d), hand[c].slot[1] = r
      PROVE  chan'[r] # "open"
  BY <1>2 DEF Decides
<1>3. ASSUME entries' = entries, hand[c].do \notin Saves PROVE KeepsOwner(c, r)
  BY <1>3 DEF KeepsOwner
<1>4. ASSUME NEW d, d # "open", Decides({hand[c].slot[1]}, d),
             \A x \in entries : x \notin entries' => x[1] = hand[c].slot[1]
      PROVE  KeepsOwner(c, r)
  <2>1. CASE hand[c].slot[1] = r  BY <1>2, <1>4, <2>1 DEF KeepsOwner
  <2>2. CASE hand[c].slot[1] # r  BY <1>1, <1>4, <2>2 DEF KeepsOwner, s
  <2>. QED  BY <2>1, <2>2
<1>5. CASE \/ TooLate(c) \/ ReadEntry(c) \/ DrawLevel2(c) \/ LeaveDialog(c) \/ CloseDialog(c)
           \/ ShowOutcome(c) \/ RecordAnswer(c)
           \/ \E x \in Slots : ShowDismissed(c, x) \/ Click(c, x)
  <2>1. entries' = entries
    BY <1>5, TooLateDoes, ReadEntryDoes, DrawLevel2Does, LeaveDialogDoes, CloseDialogDoes,
       ShowOutcomeDoes,
       RecordAnswerDoes, ShowDismissedDoes, ClickDoes
  <2>2. hand[c].do \notin Saves
    BY <1>5, TooLateDoes, ReadEntryDoes, DrawLevel2Does, LeaveDialogDoes, CloseDialogDoes,
       ShowOutcomeDoes,
       RecordAnswerDoes, ShowDismissedDoes, ClickDoes DEF Saves, Allows, Dialogs
  <2>. QED  BY <1>3, <2>1, <2>2
<1>6. CASE DecideOnce(c)
  <2>1. /\ \E d \in {"once", "deny"} : Decides({hand[c].slot[1]}, d)
        /\ entries' = entries \ {hand[c].slot}
    BY <1>6, DecideOnceDoes
  <2>. QED  BY <1>4, <2>1
<1>7. CASE TakeForAlways(c)
  <2>1. /\ entries' = entries \ {hand[c].slot} /\ hand[c].do \notin Saves
        /\ \E d \in Saves : Goes(c, d)
    BY <1>7, TakeForAlwaysDoes DEF Saves
  <2>2. hand'[c].slot = hand[c].slot /\ hand'[c].do \in Saves  BY <2>1 DEF Goes
  <2>. QED  BY <2>1, <2>2 DEF KeepsOwner
<1>8. CASE SaveSucceeds(c) \/ SaveFails(c)
  <2>1. /\ \E d \in {"always tool", "always exact", "deny"} : Decides({hand[c].slot[1]}, d)
        /\ entries' = entries
    BY <1>8, SaveSucceedsDoes, SaveFailsDoes
  <2>. QED  BY <1>4, <2>1
<1>9. CASE RestartAndDismiss(c)
  <2>1. PICK D \in SUBSET entries :
          /\ hand[c].do \in {"restart tool", "restart"} /\ entries' = entries \ D
          /\ Decides({x[1] : x \in D}, "always tool")
    BY <1>9, RestartAndDismissDoes
  <2>2. ASSUME s \in D PROVE chan'[r] # "open"
    <3>1. r \in {x[1] : x \in D}  BY <1>1, <2>2
    <3>. QED  BY <2>1, <3>1 DEF Decides
  <2>. QED  BY <2>1, <2>2 DEF KeepsOwner, Saves, s
<1>10. CASE TakeAnswer(c)
  <2>1. CASE Decides({hand[c].slot[1]}, "answer") /\ entries' = entries \ {hand[c].slot}
    BY <1>4, <2>1
  <2>2. CASE kind[hand[c].slot[1]] # "question" /\ entries' = entries \ {hand[c].slot}
    <3>1. kind[hand[c].slot[1]] = "group"
      <4>1. hand[c].slot[1] \in Requests /\ ~IsTool(hand[c].slot[1])
        BY <1>10, TakeAnswerDoes, PromptPairs
      <4>. QED  BY <2>2, <4>1 DEF StateTypes, IsTool
    <3>2. hand[c].do \notin Saves  BY <1>10, TakeAnswerDoes DEF Saves
    <3>. QED  BY <1>1, <2>2, <3>1, <3>2 DEF KeepsOwner, s
  <2>. QED  BY <1>10, <2>1, <2>2, TakeAnswerDoes
<1>11. CASE CancelQuestion(c)
  <2>1. CASE Decides({hand[c].slot[1]}, "deny") /\ entries' = entries \ SlotsOf(hand[c].slot[1])
    <3>1. \A x \in SlotsOf(hand[c].slot[1]) : x[1] = hand[c].slot[1]
      <4>1. hand[c].slot[1] \in Requests  BY <1>11, CancelQuestionDoes, PromptPairs
      <4>. QED  BY <4>1, PromptPairs
    <3>. QED  BY <1>4, <2>1, <3>1
  <2>2. CASE entries' = entries
    BY <1>3, <1>11, <2>2, CancelQuestionDoes DEF Saves
  <2>. QED  BY <1>11, <2>1, <2>2, CancelQuestionDoes
<1>. QED
  BY <1>5, <1>6, <1>7, <1>8, <1>9, <1>10, <1>11 DEF Handled, HandStep

\* It takes a group away with a decision only, and a question's entry only to
\* record the answer.
KeepsGroup(c, r) ==
  /\ chan'[r] = "open" /\ r \in groups => r \in groups'
  /\ r \in groups' =>
       /\ answered[r] \subseteq answered'[r]
       /\ \A i \in {0, 1} :
            /\ <<r, i>> \in entries =>
                 <<r, i>> \in entries' \/ (hand'[c].slot = <<r, i>> /\ hand'[c].do = "record")
            /\ Records(c, <<r, i>>) => i \in answered'[r]

\* A handler that takes one question of a group goes on to record its answer.
LEMMA HandledKeepsGroup ==
  ASSUME StateTypes, KindInd, NEW c \in Clickers, Handled(c), NEW r \in Requests
  PROVE  KeepsGroup(c, r)
<1>1. ASSUME r \in groups PROVE kind[r] = "group" /\ ~IsTool(r)
  <2>1. kind[r] = "group"  BY <1>1 DEF StateTypes
  <2>. QED  BY <2>1, FlowAssumption DEF IsTool
<1>2. \A i \in {0, 1} : <<r, i>>[1] = r /\ <<r, i>>[2] = i /\ <<r, i>> \in Slots  BY SlotPairs
<1>3. groups' \subseteq groups  BY HandledTouches DEF Touches
<1>4. ASSUME groups' = groups, answered' = answered, hand[c].do # "record",
             \A x \in entries : x \notin entries' => IsTool(x[1])
      PROVE  KeepsGroup(c, r)
  BY <1>1, <1>2, <1>4 DEF KeepsGroup, Records
<1>5. CASE \/ TooLate(c) \/ ReadEntry(c) \/ DrawLevel2(c) \/ LeaveDialog(c) \/ CloseDialog(c)
           \/ ShowOutcome(c) \/ SaveSucceeds(c) \/ SaveFails(c)
  <2>1. UNCHANGED <<entries, groups, answered>>
    BY <1>5 DEF TooLate, ReadEntry, DrawLevel2, LeaveDialog, CloseDialog, ShowOutcome,
                SaveSucceeds, SaveFails
  <2>2. hand[c].do # "record"
    BY <1>5, TooLateDoes, ReadEntryDoes, DrawLevel2Does, LeaveDialogDoes, CloseDialogDoes,
       ShowOutcomeDoes,
       SaveSucceedsDoes, SaveFailsDoes DEF Saves, Allows, Dialogs
  <2>. QED  BY <1>4, <2>1, <2>2
<1>6. ASSUME NEW x \in Slots, ShowDismissed(c, x) \/ Click(c, x) PROVE KeepsGroup(c, r)
  <2>1. UNCHANGED <<entries, groups, answered>>  BY <1>6 DEF ShowDismissed, Click
  <2>2. hand[c].do # "record"  BY <1>6, ShowDismissedDoes, ClickDoes
  <2>. QED  BY <1>4, <2>1, <2>2
<1>7. CASE DecideOnce(c) \/ TakeForAlways(c)
  <2>1. /\ hand[c].slot \in ToolPrompts /\ entries' = entries \ {hand[c].slot}
        /\ UNCHANGED <<groups, answered>> /\ hand[c].do # "record"
    BY <1>7, DecideOnceDoes, TakeForAlwaysDoes DEF HandledVars
  <2>. QED  BY <1>4, <2>1, PromptPairs
<1>8. CASE RestartAndDismiss(c)
  <2>1. PICK D \in SUBSET entries :
          /\ hand[c].do \in {"restart tool", "restart"} /\ entries' = entries \ D
          /\ D \subseteq ToolPrompts /\ UNCHANGED <<groups, answered>>
    BY <1>8, RestartAndDismissDoes DEF HandledVars
  <2>. QED  BY <1>4, <2>1, PromptPairs
<1>9. CASE TakeAnswer(c)
  <2>1. /\ UNCHANGED <<groups, answered>> /\ hand[c].do = "answer"
        /\ entries' = entries \ {hand[c].slot}
    BY <1>9, TakeAnswerDoes DEF HandledVars
  <2>2. ASSUME r \in groups, NEW i \in {0, 1}, <<r, i>> = hand[c].slot
        PROVE  hand'[c].slot = <<r, i>> /\ hand'[c].do = "record"
    <3>1. kind[hand[c].slot[1]] = "group"  BY <1>1, <1>2, <2>2
    <3>2. Goes(c, "record")  BY <1>9, <3>1, TakeAnswerDoes
    <3>. QED  BY <2>2, <3>2 DEF Goes
  <2>. QED  BY <2>1, <2>2 DEF KeepsGroup, Records
<1>10. CASE RecordAnswer(c)
  <2>. DEFINE q == hand[c].slot
  <2>1. /\ entries' = entries
        /\ \/ Decides({q[1]}, "answer") /\ groups' = groups \ {q[1]}
           \/ chan' = chan /\ groups' = groups
        /\ \A x \in groups' : answered'[x] = IF x = q[1] THEN answered[x] \cup {q[2]} ELSE answered[x]
    BY <1>10, RecordAnswerDoes
  <2>2. chan'[r] = "open" /\ r \in groups => r \in groups'
    BY <2>1 DEF Decides
  <2>3. r \in groups' => answered[r] \subseteq answered'[r]  BY <2>1
  <2>4. ASSUME r \in groups', NEW i \in {0, 1}, Records(c, <<r, i>>) PROVE i \in answered'[r]
    <3>1. q[1] = r /\ q[2] = i  BY <1>2, <2>4 DEF Records
    <3>. QED  BY <2>1, <2>4, <3>1
  <2>. QED  BY <2>1, <2>2, <2>3, <2>4 DEF KeepsGroup
<1>11. CASE CancelQuestion(c)
  <2>1. UNCHANGED answered /\ hand[c].do = "confirmed" /\ hand[c].slot[1] \in Requests
    BY <1>11, CancelQuestionDoes, PromptPairs DEF HandledVars
  <2>2. CASE /\ Decides({hand[c].slot[1]}, "deny") /\ groups' = groups \ {hand[c].slot[1]}
             /\ entries' = entries \ SlotsOf(hand[c].slot[1])
    <3>1. chan'[r] = "open" /\ r \in groups => r \in groups'  BY <2>2 DEF Decides
    <3>2. ASSUME r \in groups', NEW i \in {0, 1}, <<r, i>> \in entries
          PROVE  <<r, i>> \in entries'
      BY <1>2, <2>1, <2>2, <3>2, PromptPairs
    <3>. QED  BY <2>1, <3>1, <3>2 DEF KeepsGroup, Records
  <2>3. CASE UNCHANGED <<groups, entries>>  BY <1>4, <2>1, <2>3
  <2>. QED  BY <1>11, <2>2, <2>3, CancelQuestionDoes
<1>. QED
  BY <1>5, <1>7, <1>8, <1>9, <1>10, <1>11, <1>6 DEF Handled, HandStep

\* Every request that is waited for keeps somebody who can decide it.
LEMMA DeciderStep ==
  StateTypes /\ KindInd /\ DeciderInd /\ [FlowNext]_flowVars => DeciderInd'
<1>. SUFFICES ASSUME StateTypes, KindInd, DeciderInd, [FlowNext]_flowVars,
                     NEW r \in Requests
              PROVE  HasOwner(r)' /\ HasGroup(r)' /\ HasAnswers(r)'
  BY DEF DeciderInd
<1>1. kind' = kind /\ Parts(r)' = Parts(r)  BY KindConst, KindsStay
<1>2. HasOwner(r) /\ HasGroup(r) /\ HasAnswers(r)  BY DEF DeciderInd
<1>3. \A i \in {0, 1} : <<r, i>> \in Slots /\ <<r, i>>[1] = r /\ <<r, i>>[2] = i  BY SlotPairs
<1>4. 0 \in Parts(r) /\ Parts(r) \subseteq {0, 1} /\ (kind[r] = "group" => Parts(r) = {0, 1} /\ ~IsTool(r))
  BY FlowAssumption DEF Parts, IsTool
<1>5. <<r, 0>> \in Prompts /\ (r \in groups => kind[r] = "group" /\ r \in Requests)
  BY PromptPairs DEF StateTypes
\* Nothing that matters to r changes, except that it may be decided.
<1>6. ASSUME Waiting(r)' => Waiting(r), Queue' = Queue, UNCHANGED <<posting, groups, answered, hand>>,
             Waiting(r)' => (<<r, 0>> \in entries => <<r, 0>> \in entries'),
             r \in groups => \A i \in {0, 1} : <<r, i>> \in entries => <<r, i>> \in entries'
      PROVE  HasOwner(r)' /\ HasGroup(r)' /\ HasAnswers(r)'
  <2>1. HasOwner(r)'  BY <1>1, <1>2, <1>6 DEF HasOwner, Saved
  <2>2. HasGroup(r)'  BY <1>1, <1>2, <1>6 DEF HasGroup
  <2>3. HasAnswers(r)'  BY <1>1, <1>2, <1>4, <1>6 DEF HasAnswers, Records
  <2>. QED  BY <2>1, <2>2, <2>3
<1>7. UNCHANGED inbox => Queue' = Queue  BY DEF Queue
<1>8. chan'[r] = "open" => chan[r] = "open"  BY DecisionsStay
<1>9. ASSUME NEW q \in Requests, Arrive(q)
      PROVE  HasOwner(r)' /\ HasGroup(r)' /\ HasAnswers(r)'
  <2>1. UNCHANGED <<chan, posting, groups, answered, hand, entries>> /\ wait[q] = "new"
    BY <1>9 DEF Arrive
  <2>2. CASE UNCHANGED inbox
    <3>1. Waiting(r)' => Waiting(r)
      BY <1>9, <2>1, <2>2 DEF Waiting, Arrive, StateTypes
    <3>. QED  BY <1>6, <1>7, <2>1, <2>2, <3>1
  <2>3. CASE inbox' = Append(inbox, q)
    <3>1. Queue' = Queue \cup {q}  BY <2>3, QueueGrows DEF StateTypes
    <3>2. r # q => (Waiting(r)' <=> Waiting(r))
      BY <1>9, <2>1 DEF Waiting, Arrive, StateTypes
    <3>3. HasOwner(r)'  BY <1>1, <1>2, <2>1, <3>1, <3>2 DEF HasOwner, Saved
    <3>4. HasGroup(r)'  BY <1>1, <1>2, <2>1, <3>1, <3>2 DEF HasGroup
    <3>5. HasAnswers(r)'  BY <1>1, <1>2, <2>1 DEF HasAnswers, Records
    <3>. QED  BY <3>3, <3>4, <3>5
  <2>. QED  BY <1>9, <2>2, <2>3 DEF Arrive
<1>10. ASSUME NEW q \in Requests, WorkerStep(q)
       PROVE  HasOwner(r)' /\ HasGroup(r)' /\ HasAnswers(r)'
  <2>1. UNCHANGED <<inbox, chan, posting, groups, answered, hand, entries>>
    BY <1>10 DEF WorkerStep, Resolve, PermissionTimeout
  <2>2. Waiting(r)' => Waiting(r)
    BY <1>10, <2>1 DEF WorkerStep, Resolve, PermissionTimeout, Waiting, StateTypes
  <2>. QED  BY <1>6, <1>7, <2>1, <2>2
<1>11. CASE InterruptAll
  <2>1. UNCHANGED <<inbox, chan, posting, groups, answered, hand, entries>>
    BY <1>11 DEF InterruptAll
  <2>2. Waiting(r)' => Waiting(r)  BY <1>11, <2>1 DEF InterruptAll, Waiting
  <2>. QED  BY <1>6, <1>7, <2>1, <2>2
<1>12. ASSUME NEW q \in Requests, Watcher(q)
       PROVE  HasOwner(r)' /\ HasGroup(r)' /\ HasAnswers(r)'
  <2>1. UNCHANGED <<wait, inbox, chan, posting, groups, answered, hand>> /\ IsTool(q)
    BY <1>12 DEF Watcher, StateTypes
  <2>2. Waiting(r)' <=> Waiting(r)  BY <2>1 DEF Waiting
  <2>3. \A i \in {0, 1} : <<r, i>> \in entries => <<r, i>> \in entries' \/ (r = q /\ wait[r] = "timeout")
    BY <1>3, <1>12 DEF Watcher
  <2>4. r \in groups => r # q  BY <1>4, <1>5, <2>1
  <2>5. Waiting(r) => wait[r] # "timeout"  BY DEF Waiting
  <2>. QED  BY <1>6, <1>7, <2>1, <2>2, <2>3, <2>4, <2>5
<1>13. CASE CleanupPrompts
  <2>. DEFINE R == groups \cup {x \in Requests : <<x, 0>> \in entries /\ kind[x] # "group"}
  <2>1. UNCHANGED <<wait, inbox, posting, hand>> /\ groups' = {} /\ chan' = Sent(R, "dropped")
    BY <1>13 DEF CleanupPrompts
  <2>2. chan'[r] = "open" => r \notin R  BY <2>1 DEF Sent
  <2>3. Waiting(r)' => Waiting(r)  BY <1>8, <2>1 DEF Waiting
  <2>4. HasOwner(r)'
    BY <1>1, <1>2, <1>7, <2>1, <2>2, <2>3 DEF HasOwner, Saved, Waiting
  <2>5. HasGroup(r)'  BY <1>1, <1>2, <1>7, <2>1, <2>2, <2>3 DEF HasGroup, Waiting
  <2>6. HasAnswers(r)'  BY <2>1 DEF HasAnswers
  <2>. QED  BY <2>4, <2>5, <2>6
<1>14. CASE TakeRequest
  <2>. DEFINE h == Head(inbox)
  <2>1. Queue \subseteq Queue' \cup {h} /\ h \in Requests
    BY <1>14, QueueShrinks DEF TakeRequest, StateTypes
  <2>2. /\ UNCHANGED <<wait, chan, hand, entries, answered>> /\ posting = NoSlot /\ posting' = <<h, 0>>
        /\ groups' = groups \cup {x \in {h} : kind[x] = "group"}
    BY <1>14 DEF TakeRequest
  <2>3. posting[1] # r /\ posting'[1] = h /\ posting'[2] = 0  BY <2>2, SlotPairs
  <2>4. Waiting(r)' <=> Waiting(r)  BY <2>2 DEF Waiting
  <2>5. HasOwner(r)'
    BY <1>1, <1>2, <2>1, <2>2, <2>3, <2>4 DEF HasOwner, Saved
  <2>6. HasGroup(r)'  BY <1>1, <1>2, <2>1, <2>2, <2>4 DEF HasGroup
  <2>7. HasAnswers(r)'
    <3>1. CASE r = h  BY <1>1, <1>4, <2>3, <3>1 DEF HasAnswers
    <3>2. CASE r # h  BY <1>1, <1>2, <2>2, <2>3, <3>2 DEF HasAnswers, Records
    <3>. QED  BY <3>1, <3>2
  <2>. QED  BY <2>5, <2>6, <2>7
<1>15. CASE PostPrompt
  BY <1>6, <1>7, <1>15 DEF PostPrompt, Waiting
<1>16. CASE RegisterPrompt
  <2>1. /\ UNCHANGED <<wait, inbox, chan, groups, answered, hand>> /\ entries' = entries \cup {posting}
        /\ posting \in Prompts
        /\ posting' = IF <<posting[1], posting[2] + 1>> \in SlotsOf(posting[1])
                      THEN <<posting[1], posting[2] + 1>> ELSE NoSlot
    BY <1>16 DEF RegisterPrompt, StateTypes
  <2>2. Waiting(r)' <=> Waiting(r)  BY <2>1 DEF Waiting
  <2>3. HasOwner(r)'
    <3>1. posting[1] = r /\ kind[r] # "group" => posting = <<r, 0>>  BY <2>1, PromptPairs
    <3>. QED  BY <1>1, <1>2, <1>7, <2>1, <2>2, <3>1 DEF HasOwner, Saved
  <2>4. HasGroup(r)'  BY <1>1, <1>2, <1>7, <2>1, <2>2 DEF HasGroup
  <2>5. ASSUME r \in groups, NEW i \in Parts(r) \ answered[r], posting[1] = r, i >= posting[2]
        PROVE  <<r, i>> \in entries' \/ (posting'[1] = r /\ i >= posting'[2])
    <3>1. posting = <<r, posting[2]>> /\ posting[2] \in {0, 1} /\ i \in {0, 1}
      BY <1>4, <2>1, <2>5, PromptPairs, SlotPairs
    <3>2. CASE i = posting[2]  BY <2>1, <3>1, <3>2
    <3>3. CASE i # posting[2]
      <4>1. posting[2] = 0 /\ i = 1 /\ posting[2] + 1 = 1  BY <2>5, <3>1, <3>3
      <4>2. <<r, 1>> \in SlotsOf(r)  BY <1>4, <1>5, <2>5 DEF SlotsOf
      <4>3. posting' = <<r, 1>>  BY <2>1, <2>5, <4>1, <4>2
      <4>. QED  BY <1>3, <4>1, <4>3
    <3>. QED  BY <3>2, <3>3
  <2>6. HasAnswers(r)'  BY <1>1, <1>2, <2>1, <2>5 DEF HasAnswers, Records
  <2>. QED  BY <2>3, <2>4, <2>6
<1>17. CASE PostFails
  <2>. DEFINE q == posting[1]
  <2>1. /\ UNCHANGED <<wait, inbox, answered, hand>> /\ posting \in Prompts
        /\ posting' = NoSlot /\ groups' = groups \ {q} /\ entries' = entries \ SlotsOf(q)
        /\ (q \notin groups /\ kind[q] = "group") \/ chan' = Sent({q}, "deny")
    BY <1>17 DEF PostFails, StateTypes
  <2>2. Waiting(r)' => Waiting(r)  BY <1>8, <2>1 DEF Waiting
  <2>3. CASE r = q
    <3>1. chan'[r] = "open" => kind[r] = "group" /\ r \notin groups
      BY <2>1, <2>3 DEF Sent
    <3>2. HasOwner(r)' BY <1>1, <3>1 DEF HasOwner, Waiting
    <3>3. HasGroup(r)'  BY <1>1, <1>2, <1>7, <2>1, <2>2, <3>1 DEF HasGroup, Waiting
    <3>4. HasAnswers(r)'  BY <2>1, <2>3 DEF HasAnswers
    <3>. QED  BY <3>2, <3>3, <3>4
  <2>4. CASE r # q
    <3>1. \A i \in {0, 1} : <<r, i>> \in entries => <<r, i>> \in entries'
      BY <1>3, <2>1, <2>4, PromptPairs
    <3>2. HasOwner(r)'  BY <1>1, <1>2, <1>7, <2>1, <2>2, <2>4, <3>1 DEF HasOwner, Saved
    <3>3. HasGroup(r)'  BY <1>1, <1>2, <1>7, <2>1, <2>2, <2>4 DEF HasGroup
    <3>4. HasAnswers(r)'  BY <1>1, <1>2, <1>4, <2>1, <2>4, <3>1 DEF HasAnswers, Records
    <3>. QED  BY <3>2, <3>3, <3>4
  <2>. QED  BY <2>3, <2>4
<1>18. ASSUME NEW c \in Clickers, Handled(c)
       PROVE  HasOwner(r)' /\ HasGroup(r)' /\ HasAnswers(r)'
  <2>1. Touches(c) /\ KeepsOwner(c, r) /\ KeepsGroup(c, r)
    BY <1>18, HandledTouches, HandledKeepsOwner, HandledKeepsGroup
  <2>2. UNCHANGED <<wait, inbox, posting>> /\ groups' \subseteq groups
        /\ \A d \in Clickers \ {c} : hand'[d] = hand[d]
    BY <2>1 DEF Touches
  <2>3. Waiting(r)' => Waiting(r) /\ chan'[r] = "open"  BY <1>8, <2>2 DEF Waiting
  <2>4. ASSUME Waiting(r)', kind[r] # "group", Saved(<<r, 0>>) PROVE Saved(<<r, 0>>)'
    <3>1. PICK d \in Clickers : hand[d].slot = <<r, 0>> /\ hand[d].do \in Saves
      BY <2>4 DEF Saved
    <3>2. d # c  BY <2>1, <2>3, <2>4, <3>1 DEF KeepsOwner
    <3>3. hand'[d].slot = <<r, 0>> /\ hand'[d].do \in Saves  BY <2>2, <3>1, <3>2
    <3>. QED  BY <3>3 DEF Saved
  <2>5. ASSUME Waiting(r)', kind[r] # "group", <<r, 0>> \in entries
        PROVE  <<r, 0>> \in entries' \/ Saved(<<r, 0>>)'
    BY <2>1, <2>3, <2>5 DEF KeepsOwner, Saved
  <2>6. HasOwner(r)'
    BY <1>1, <1>2, <1>7, <2>2, <2>3, <2>4, <2>5 DEF HasOwner
  <2>7. HasGroup(r)'
    BY <1>1, <1>2, <1>7, <2>1, <2>2, <2>3 DEF HasGroup, KeepsGroup
  <2>8. HasAnswers(r)'
    <3>. SUFFICES ASSUME r \in groups', NEW i \in Parts(r) \ answered'[r]
                  PROVE  \/ posting[1] = r /\ i >= posting[2]
                         \/ <<r, i>> \in entries'
                         \/ \E d \in Clickers : hand'[d].slot = <<r, i>> /\ hand'[d].do = "record"
      BY <1>1, <2>2 DEF HasAnswers, Records
    <3>1. r \in groups /\ i \in Parts(r) \ answered[r] /\ i \in {0, 1}
      BY <1>4, <2>1, <2>2 DEF KeepsGroup
    <3>2. CASE <<r, i>> \in entries  BY <2>1, <3>1, <3>2 DEF KeepsGroup
    <3>3. ASSUME NEW d \in Clickers, Records(d, <<r, i>>)
          PROVE  hand'[d].slot = <<r, i>> /\ hand'[d].do = "record"
      <4>1. d # c  BY <2>1, <3>1, <3>3 DEF KeepsGroup
      <4>. QED  BY <2>2, <3>3, <4>1 DEF Records
    <3>. QED  BY <1>2, <3>1, <3>2, <3>3 DEF HasAnswers
  <2>. QED  BY <2>6, <2>7, <2>8
<1>19. CASE UNCHANGED flowVars
  <2>1. UNCHANGED <<wait, inbox, chan, posting, groups, answered, hand, entries>>
    BY <1>19 DEF flowVars
  <2>2. Waiting(r)' <=> Waiting(r)  BY <2>1 DEF Waiting
  <2>. QED  BY <1>6, <1>7, <2>1, <2>2
<1>. QED
  BY <1>9, <1>10, <1>11, <1>12, <1>13, <1>14, <1>15, <1>16, <1>17, <1>18, <1>19
  DEF FlowNext, HandlerStep, Handled

-----------------------------------------------------------------------------
(***************************************************************************)
(* A prompt that is decided loses its buttons.                             *)
(***************************************************************************)
\* A handler that leaves buttons on a prompt leaves somebody to remove them.
KeepsButtons(c, s) ==
  /\ screen'[s] \in Buttons /\ s \in Left => s \in Left'
  /\ screen'[s] \in Buttons /\ s \notin Left' =>
       /\ screen[s] \in Buttons \/ s \in entries'
       /\ Takes(s) => Shows(c, s)' \/ s \in hand'[c].rest
       /\ ~Shows(c, s)
       /\ s \in hand[c].rest => s \in hand'[c].rest

\* A handler that decides a tool's prompt draws it, or goes on to draw it.
LEMMA HandledKeepsButtons ==
  ASSUME StateTypes, KindInd, NEW c \in Clickers, Handled(c), NEW s \in ToolPrompts
  PROVE  KeepsButtons(c, s)
<1>1. s \in Slots  BY PromptPairs
<1>2. ASSUME UNCHANGED <<screen, entries, Left>>, hand[c].rest = {},
             hand[c].do \notin {"show allowed", "show denied"}
      PROVE  KeepsButtons(c, s)
  BY <1>2 DEF KeepsButtons, Takes, Shows
<1>3. CASE \/ TooLate(c) \/ ReadEntry(c) \/ LeaveDialog(c) \/ CloseDialog(c)
           \/ SaveSucceeds(c) \/ SaveFails(c) \/ RecordAnswer(c)
  <2>1. UNCHANGED <<screen, entries, Left>>
    BY <1>3 DEF TooLate, ReadEntry, LeaveDialog, CloseDialog, SaveSucceeds, SaveFails,
                RecordAnswer, Left
  <2>2. hand[c].do \in Allows \cup Saves \cup Dialogs \cup {"deny", "answer", "toggle", "expand", "record"}
    BY <1>3, TooLateDoes, ReadEntryDoes, LeaveDialogDoes, CloseDialogDoes, SaveSucceedsDoes,
       SaveFailsDoes,
       RecordAnswerDoes
  <2>3. hand[c].do \notin {"show allowed", "show denied", "show saved"}
    BY <2>2 DEF Allows, Saves, Dialogs
  <2>. QED  BY <1>2, <2>1, <2>3, HandsAt
<1>4. CASE DecideOnce(c)
  <2>1. /\ entries' = entries \ {hand[c].slot} /\ UNCHANGED <<screen, Left>>
        /\ hand[c].do \in {"once", "deny"}
        /\ \E d \in {"show allowed", "show denied"} : Goes(c, d)
    BY <1>4, DecideOnceDoes DEF Left
  <2>2. hand[c].rest = {} /\ hand[c].do \notin {"show allowed", "show denied"}
    BY <2>1, HandsAt
  <2>3. Shows(c, hand[c].slot)'  BY <2>1 DEF Goes, Shows
  <2>4. Takes(s) => s = hand[c].slot  BY <2>1 DEF Takes
  <2>5. Takes(s) => hand'[c].slot = s /\ hand'[c].do \in {"show allowed", "show denied"}
    BY <2>1, <2>4 DEF Goes
  <2>. QED  BY <2>1, <2>2, <2>5 DEF KeepsButtons, Shows
<1>5. CASE DrawLevel2(c)
  <2>1. /\ hand[c].do = "draw" /\ Draws(hand[c].slot, "level 2") /\ UNCHANGED entries
        /\ Left \subseteq Left'
        /\ hand[c].slot \in entries \/ hand[c].slot \in Left' \/ screen' = screen
    BY <1>5, DrawLevel2Does DEF Left
  <2>2. hand[c].rest = {}  BY <2>1, HandsAt
  <2>3. CASE s = hand[c].slot  BY <2>1, <2>2, <2>3 DEF KeepsButtons, Takes, Shows
  <2>4. CASE s # hand[c].slot
    <3>1. screen'[s] = screen[s]  BY <1>1, <2>1, <2>4 DEF Draws
    <3>. QED  BY <2>1, <2>2, <3>1 DEF KeepsButtons, Takes, Shows
  <2>. QED  BY <2>3, <2>4
<1>6. CASE TakeForAlways(c)
  <2>1. /\ hand[c].do \in {"always tool", "always exact"} /\ Edits(hand[c].slot, "working")
        /\ entries' = entries \ {hand[c].slot} /\ UNCHANGED revived
    BY <1>6, TakeForAlwaysDoes
  <2>2. hand[c].rest = {} /\ hand[c].do \notin {"show allowed", "show denied"}
    BY <2>1, HandsAt
  <2>3. CASE s = hand[c].slot
    <3>1. screen'[s] \in Buttons => s \in Left'  BY <2>1, <2>3 DEF Edits, Buttons, Left
    <3>. QED  BY <3>1 DEF KeepsButtons
  <2>4. CASE s # hand[c].slot
    <3>1. screen'[s] = screen[s] /\ (s \in Left <=> s \in Left')
      BY <1>1, <2>1, <2>4 DEF Edits, Draws, Left
    <3>. QED  BY <2>1, <2>2, <2>4, <3>1 DEF KeepsButtons, Takes, Shows
  <2>. QED  BY <2>3, <2>4
<1>7. CASE RestartAndDismiss(c)
  <2>1. PICK D \in SUBSET entries :
          /\ hand[c].do \in {"restart tool", "restart"} /\ entries' = entries \ D
          /\ hand'[c].rest = D /\ UNCHANGED <<screen, Left>>
    BY <1>7, RestartAndDismissDoes DEF Left
  <2>2. hand[c].rest = {}  BY <2>1, HandsAt
  <2>. QED  BY <2>1, <2>2 DEF KeepsButtons, Takes, Shows
<1>8. CASE ShowOutcome(c)
  <2>1. /\ Edits(hand[c].slot, Shown(hand[c].do)) /\ hand[c].rest = {} /\ UNCHANGED <<entries, revived>>
    BY <1>8, ShowOutcomeDoes
  <2>2. CASE s = hand[c].slot
    <3>1. screen'[s] \in Buttons => s \in Left'
      BY <2>1, <2>2 DEF Edits, Shown, Buttons, Left
    <3>. QED  BY <3>1 DEF KeepsButtons
  <2>3. CASE s # hand[c].slot
    <3>1. screen'[s] = screen[s] /\ (s \in Left <=> s \in Left')
      BY <1>1, <2>1, <2>3 DEF Edits, Draws, Left
    <3>. QED  BY <2>1, <2>3, <3>1 DEF KeepsButtons, Takes, Shows
  <2>. QED  BY <2>2, <2>3
<1>9. ASSUME ~IsTool(hand[c].slot[1]), hand[c].rest = {}, s \in Left <=> s \in Left',
             screen'[s] = screen[s], ~Takes(s)
      PROVE  KeepsButtons(c, s)
  BY <1>9, PromptPairs DEF KeepsButtons, Shows
<1>10. IsTool(s[1])  BY PromptPairs
<1>11. CASE TakeAnswer(c)
  <2>1. /\ ~IsTool(hand[c].slot[1]) /\ hand[c].do = "answer"
        /\ entries' = entries \ {hand[c].slot} /\ UNCHANGED <<screen, Left>>
    BY <1>11, TakeAnswerDoes DEF Left
  <2>2. ~Takes(s)  BY <1>10, <2>1 DEF Takes
  <2>3. hand[c].rest = {}  BY <2>1, HandsAt
  <2>. QED  BY <1>9, <2>1, <2>2, <2>3
<1>12. CASE CancelQuestion(c)
  <2>1. /\ ~IsTool(hand[c].slot[1]) /\ hand[c].do = "confirmed" /\ UNCHANGED revived
        /\ hand[c].slot[1] \in Requests
    BY <1>12, CancelQuestionDoes, PromptPairs
  <2>2. s \notin SlotsOf(hand[c].slot[1])  BY <1>10, <2>1, PromptPairs
  <2>3. screen'[s] = screen[s] /\ ~Takes(s)
    BY <1>1, <1>10, <1>12, <2>1, <2>2, CancelQuestionDoes DEF Takes
  <2>4. s \in Left <=> s \in Left'
    BY <1>1, <1>12, <2>1, <2>2, CancelQuestionDoes DEF Left
  <2>. QED  BY <1>9, <2>1, <2>3, <2>4, HandsAt
<1>13. ASSUME NEW x \in Slots, ShowDismissed(c, x) PROVE KeepsButtons(c, s)
  <2>1. /\ hand[c].do = "show saved" /\ Edits(x, "dismissed")
        /\ hand'[c].rest = hand[c].rest \ {x} /\ UNCHANGED <<entries, revived>>
    BY <1>13, ShowDismissedDoes
  <2>2. CASE s = x
    <3>1. screen'[s] \in Buttons => s \in Left'  BY <2>1, <2>2 DEF Edits, Buttons, Left
    <3>. QED  BY <3>1 DEF KeepsButtons
  <2>3. CASE s # x
    <3>1. screen'[s] = screen[s] /\ (s \in Left <=> s \in Left')
      BY <1>1, <2>1, <2>3 DEF Edits, Draws, Left
    <3>. QED  BY <2>1, <2>3, <3>1 DEF KeepsButtons, Takes, Shows
  <2>. QED  BY <2>2, <2>3
<1>14. ASSUME NEW x \in Slots, Click(c, x) PROVE KeepsButtons(c, s)
  <2>1. UNCHANGED <<screen, entries, Left>> /\ hand[c].do = "none"
    BY <1>14, ClickDoes DEF Left
  <2>. QED  BY <1>2, <2>1, HandsAt
<1>. QED
  BY <1>3, <1>4, <1>5, <1>6, <1>7, <1>8, <1>11, <1>12, <1>13, <1>14 DEF Handled, HandStep

\* Every step keeps who will remove the buttons.
LEMMA CloseStep ==
  /\ StateTypes /\ KindInd /\ FreshInd /\ OwnerInd /\ ToldInd /\ CloseInd /\ [FlowNext]_flowVars
  => CloseInd'
<1>. SUFFICES ASSUME StateTypes, KindInd, FreshInd, OwnerInd, ToldInd, CloseInd, [FlowNext]_flowVars
              PROVE  CloseInd'
  OBVIOUS
<1>1. ToolPrompts' = ToolPrompts  BY KindConst, KindsStay
<1>. SUFFICES ASSUME NEW s \in ToolPrompts PROVE Closes(s)' /\ IsWatched(s)'
  BY <1>1 DEF CloseInd
<1>2. Closes(s) /\ IsWatched(s)  BY DEF CloseInd
<1>3. s \in Slots /\ s[1] \in Requests /\ s = <<s[1], 0>> /\ IsTool(s[1]) /\ s # NoSlot
  BY PromptPairs
<1>4. breaks \in Nat /\ breaks' \in Nat  BY TypesStep DEF StateTypes
<1>5. PostedAlone /\ EntryOwns  BY DEF OwnerInd
<1>6. breaks' > 0 => Closes(s)' /\ IsWatched(s)'  BY DEF Closes, IsWatched
<1>7. ASSUME UNCHANGED <<screen, entries, Left, breaks, posting, hand, watched>>
      PROVE  Closes(s)' /\ IsWatched(s)'
  BY <1>2, <1>7 DEF Closes, IsWatched, Dismissed, Shows
<1>8. ASSUME \/ \E r \in Requests : Arrive(r) \/ WorkerStep(r)
             \/ UNCHANGED flowVars
      PROVE  Closes(s)' /\ IsWatched(s)'
  BY <1>7, <1>8 DEF Arrive, WorkerStep, Resolve, PermissionTimeout, flowVars, Left
<1>9. CASE InterruptAll \/ CleanupPrompts
  <2>1. breaks' > 0  BY <1>4, <1>9 DEF InterruptAll, CleanupPrompts
  <2>. QED  BY <1>6, <2>1
<1>10. ASSUME NEW r \in Requests, Watcher(r) PROVE Closes(s)' /\ IsWatched(s)'
  <2>1. /\ UNCHANGED <<breaks, posting, hand>> /\ watched' = watched \ {r} /\ wait[r] # "waiting"
        /\ entries' \subseteq entries /\ r \in Requests
    BY <1>10 DEF Watcher
  <2>2. CASE s[1] # r
    <3>1. s # <<r, 0>>  BY <1>3, <2>2, SlotPairs
    <3>2. /\ screen'[s] = screen[s] /\ (s \in entries <=> s \in entries')
          /\ s \in Left <=> s \in Left'
      BY <1>3, <1>10, <3>1 DEF Watcher, Close, StateTypes, Left
    <3>. QED  BY <1>2, <2>1, <2>2, <3>2 DEF Closes, IsWatched, Dismissed, Shows
  <2>3. CASE s[1] = r /\ wait[r] = "timeout" /\ s \in entries
    <3>1. entries' = entries \ {s} /\ (screen'[s] = "timed out" \/ s \in Left')
      BY <1>3, <1>10, <2>3 DEF Watcher, Close, StateTypes, Left
    <3>. QED  BY <3>1 DEF Closes, IsWatched, Buttons
  <2>4. CASE s[1] = r /\ ~(wait[r] = "timeout" /\ s \in entries)
    <3>1. UNCHANGED <<entries, screen, Left>>  BY <1>3, <1>10, <2>4 DEF Watcher, Left
    <3>2. Closes(s)'  BY <1>2, <2>1, <3>1 DEF Closes, Dismissed, Shows
    <3>3. ASSUME s \in entries PROVE breaks > 0
      <4>1. chan[r] = "open"  BY <1>5, <2>4, <3>3 DEF EntryOwns
      <4>2. wait[r] # "resolved"  BY <2>1, <4>1 DEF ToldInd
      <4>3. ~Untouched(r)  BY <1>3, <2>4, <3>3 DEF Untouched
      <4>4. wait[r] \notin {"new", "auto", "full"}  BY <2>1, <4>3 DEF FreshInd
      <4>5. wait[r] \in Waits  BY <2>1 DEF StateTypes
      <4>6. wait[r] = "interrupt"  BY <2>1, <2>4, <3>3, <4>2, <4>4, <4>5 DEF Waits
      <4>. QED  BY <2>1, <4>6 DEF ToldInd
    <3>. QED  BY <2>1, <3>1, <3>2, <3>3 DEF IsWatched
  <2>. QED  BY <2>2, <2>3, <2>4
<1>11. CASE TakeRequest
  <2>1. UNCHANGED <<screen, entries, Left, breaks, hand, watched>> /\ posting = NoSlot
    BY <1>11 DEF TakeRequest, Left
  <2>. QED  BY <1>2, <1>3, <2>1 DEF Closes, IsWatched, Dismissed, Shows
<1>12. CASE PostPrompt
  <2>1. UNCHANGED <<posting, entries, Left, breaks, hand, watched>>
        /\ (s # posting => screen'[s] = screen[s])
    BY <1>3, <1>12 DEF PostPrompt, StateTypes, Left
  <2>. QED  BY <1>2, <2>1 DEF Closes, IsWatched, Dismissed, Shows
<1>13. CASE RegisterPrompt
  <2>1. /\ UNCHANGED <<screen, Left, breaks, hand>> /\ entries' = entries \cup {posting}
        /\ watched \subseteq watched' /\ (IsTool(posting[1]) => posting[1] \in watched')
    BY <1>13 DEF RegisterPrompt, Left
  <2>2. Closes(s)'  BY <1>2, <2>1 DEF Closes, Dismissed, Shows
  <2>3. IsWatched(s)'  BY <1>2, <1>3, <2>1 DEF IsWatched
  <2>. QED  BY <2>2, <2>3
<1>14. CASE PostFails
  <2>1. /\ UNCHANGED <<screen, Left, breaks, hand, watched>> /\ posting \in Prompts /\ ~posted
        /\ entries' = entries \ SlotsOf(posting[1])
    BY <1>14 DEF PostFails, StateTypes, Left
  <2>2. posting = s => screen[s] = "none" /\ s \notin entries  BY <1>5, <2>1 DEF PostedAlone
  <2>3. CASE posting = s
    <3>1. s \notin entries' /\ screen'[s] \notin Buttons  BY <2>1, <2>2, <2>3 DEF Buttons
    <3>. QED  BY <3>1 DEF Closes, IsWatched
  <2>4. CASE posting # s
    <3>1. posting[1] \in Requests  BY <2>1, PromptPairs
    <3>2. s[1] # posting[1]
      <4>1. s[1] = posting[1] => posting \in ToolPrompts  BY <1>3, <2>1 DEF ToolPrompts
      <4>. QED  BY <2>4, <4>1, ToolSlots
    <3>3. s \notin SlotsOf(posting[1])  BY <3>1, <3>2, PromptPairs
    <3>4. s \in entries <=> s \in entries'  BY <2>1, <3>3
    <3>. QED  BY <1>2, <2>1, <2>4, <3>4 DEF Closes, IsWatched, Dismissed, Shows
  <2>. QED  BY <2>3, <2>4
<1>15. ASSUME NEW c \in Clickers, Handled(c) PROVE Closes(s)' /\ IsWatched(s)'
  <2>1. Touches(c) /\ KeepsButtons(c, s)  BY <1>15, HandledTouches, HandledKeepsButtons
  <2>2. UNCHANGED <<breaks, posting, watched>> /\ entries' \subseteq entries
        /\ \A d \in Clickers \ {c} : hand'[d] = hand[d]
    BY <2>1 DEF Touches
  <2>3. IsWatched(s)'  BY <1>2, <2>2 DEF IsWatched
  <2>4. SUFFICES ASSUME screen'[s] \in Buttons PROVE Closes(s)'
    BY <2>3 DEF Closes
  <2>5. CASE s \in entries' \/ s \in Left'  BY <2>5 DEF Closes
  <2>6. CASE screen[s] \in Buttons /\ s \notin entries' /\ s \notin Left'
    <3>1. /\ s \notin Left /\ ~Shows(c, s)
          /\ Takes(s) => Shows(c, s)' \/ s \in hand'[c].rest
          /\ s \in hand[c].rest => s \in hand'[c].rest
      BY <2>1, <2>4, <2>6 DEF KeepsButtons
    <3>2. CASE s \in entries
      <4>1. Takes(s)  BY <2>6, <3>2 DEF Takes
      <4>. QED  BY <3>1, <4>1 DEF Closes, Dismissed
    <3>3. CASE breaks > 0 \/ posting = s  BY <2>2, <3>3 DEF Closes
    <3>4. CASE Dismissed(s)
      <4>1. PICK d \in Clickers : s \in hand[d].rest  BY <3>4 DEF Dismissed
      <4>2. s \in hand'[d].rest  BY <2>2, <3>1, <4>1
      <4>. QED  BY <4>2 DEF Closes, Dismissed
    <3>5. ASSUME NEW d \in Clickers, Shows(d, s) PROVE Closes(s)'
      <4>1. d # c  BY <3>1, <3>5
      <4>2. Shows(d, s)'  BY <2>2, <3>5, <4>1 DEF Shows
      <4>. QED  BY <4>2 DEF Closes
    <3>. QED  BY <1>2, <2>6, <3>1, <3>2, <3>3, <3>4, <3>5 DEF Closes
  <2>. QED  BY <2>1, <2>4, <2>5, <2>6 DEF KeepsButtons
<1>. QED
  BY <1>8, <1>9, <1>10, <1>11, <1>12, <1>13, <1>14, <1>15 DEF FlowNext, HandlerStep, Handled

-----------------------------------------------------------------------------
(***************************************************************************)
(* The invariant holds, and the properties follow.                         *)
(***************************************************************************)
\* No request has been made and no message is shown at the start.
LEMMA FlowInitial == FlowInit => FlowInd
<1>. SUFFICES ASSUME FlowInit PROVE FlowInd  OBVIOUS
<1>1. Len(inbox) = 0 /\ inbox \in Seq(Requests) /\ Queue = {} /\ Once
  BY DEF FlowInit, Queue, Once
<1>2. /\ posting = NoSlot /\ posted = FALSE /\ entries = {} /\ groups = {} /\ watched = {} /\ breaks = 0
      /\ cache = {} /\ \A c \in Clickers : hand[c] = Free
      /\ \A s \in Slots : screen[s] = "none"
      /\ \A r \in Requests : wait[r] = "new" /\ told[r] = "none" /\ chan[r] = "open"
  BY DEF FlowInit
<1>3. \A c \in Clickers : hand[c].do = "none" /\ hand[c].slot = NoSlot /\ hand[c].rest = {}
  BY <1>2 DEF Free
<1>4. StateTypes
  <2>1. Free \in HandType  BY DEF Free, HandType, Dos
  <2>2. hand \in [Clickers -> HandType]  BY <2>1 DEF FlowInit
  <2>3. kind \in [Requests -> Tools \cup {"question", "group"}]  BY DEF FlowInit
  <2>4. wait \in [Requests -> Waits]  BY DEF FlowInit, Waits
  <2>5. /\ told \in [Requests -> {"none", "allow", "deny", "answer"}]
        /\ chan \in [Requests -> Decisions]
    BY DEF FlowInit, Decisions
  <2>6. answered \in [Requests -> SUBSET {0, 1}]  BY DEF FlowInit
  <2>7. screen \in [Slots -> Labels]  BY DEF FlowInit, Labels
  <2>8. groups \subseteq {r \in Requests : kind[r] = "group"} /\ watched \subseteq {r \in Requests : IsTool(r)}
    BY <1>2
  <2>. QED  BY <1>1, <1>2, <2>2, <2>3, <2>4, <2>5, <2>6, <2>7, <2>8 DEF StateTypes
<1>5. KindInd
  <2>1. HandKinds  BY <1>3 DEF HandKinds, ToolDos, QuestionDos
  <2>2. ScreenKinds  BY <1>2 DEF ScreenKinds, ToolScreens, QuestionScreens
  <2>3. ChanKinds  BY <1>2 DEF ChanKinds, Allows
  <2>. QED  BY <2>1, <2>2, <2>3 DEF KindInd
<1>6. FreshInd
  <2>1. \A r \in Requests : Untouched(r)  BY <1>2, <1>3, SlotPairs DEF Untouched
  <2>. QED  BY <1>1, <2>1 DEF FreshInd
<1>7. RuleInd  BY <1>2, <1>3 DEF RuleInd, Allows
<1>8. OwnerInd
  <2>1. PostedAlone  BY <1>2, PromptPairs DEF PostedAlone
  <2>2. EntryOwns /\ SaverOwns  BY <1>2, <1>3 DEF EntryOwns, SaverOwns, Saves
  <2>3. HandsKnow  BY <1>3 DEF HandsKnow, Dismissed
  <2>4. ScreensTrue  BY <1>2, PromptPairs DEF ScreensTrue, SaysAllowed, SaysDenied
  <2>. QED  BY <2>1, <2>2, <2>3, <2>4 DEF OwnerInd
<1>9. ToldInd  BY <1>2 DEF ToldInd
<1>10. DeciderInd  BY <1>2 DEF DeciderInd, HasOwner, HasGroup, HasAnswers, Waiting
<1>11. CloseInd  BY <1>2, PromptPairs DEF CloseInd, Closes, IsWatched, Buttons
<1>. QED  BY <1>4, <1>5, <1>6, <1>7, <1>8, <1>9, <1>10, <1>11 DEF FlowInd

\* The inductive invariant, for any requests, tools, users and channel capacity.
THEOREM FlowInvariant == FlowSpec => []FlowInd
<1>1. FlowInd /\ [FlowNext]_flowVars => FlowInd'
  BY TypesStep, KindStep, FreshStep, RuleStep, OwnerStep, ToldStep, DeciderStep, CloseStep
  DEF FlowInd
<1>. QED  BY FlowInitial, <1>1, PTL DEF FlowSpec

\* A tool is allowed only by a click on its request or by a saved rule for it:
\* the allowance comes from the channel or from the worker's cache
\* (permission_wait.rs), and both only hold what a handler put there.
THEOREM AllowancesAreChosen == FlowSpec => []AllowedByUser
<1>1. FlowInd => AllowedByUser
  BY DEF FlowInd, ToldInd, RuleInd, AllowedByUser
<1>. QED  BY FlowInvariant, <1>1, PTL

\* A prompt says what Claude was or will be told: who removes the entry sends
\* the decision that it shows, and nobody after it can send another.
THEOREM PromptsTellTheTruth == FlowSpec => []LabelsAgree
<1>1. ASSUME FlowInd PROVE LabelsAgree
  <2>1. SUFFICES ASSUME NEW s \in Slots
                 PROVE  /\ screen[s] \in SaysDenied => told[s[1]] # "allow" /\ chan[s[1]] \notin Allows
                        /\ screen[s] \in SaysAllowed => chan[s[1]] \in Allows
    BY DEF LabelsAgree
  <2>2. s[1] \in Requests  BY SlotPairs
  <2>3. screen[s] # "none" /\ told[s[1]] = "allow" => chan[s[1]] \in Allows
    BY <1>1, <2>2 DEF FlowInd, ToldInd, FreshInd, Untouched
  <2>4. CASE s \in ToolPrompts
    BY <1>1, <2>3, <2>4 DEF FlowInd, OwnerInd, ScreensTrue, SaysDenied
  <2>5. CASE s \notin ToolPrompts
    <3>1. screen[s] \notin ToolScreens  BY <1>1, <2>5 DEF FlowInd, KindInd, ScreenKinds
    <3>2. screen[s] \notin SaysAllowed  BY <3>1 DEF SaysAllowed, ToolScreens
    <3>3. ASSUME screen[s] \in SaysDenied PROVE chan[s[1]] \notin Allows
      <4>1. screen[s] \in QuestionScreens
        BY <3>1, <3>3 DEF SaysDenied, ToolScreens, QuestionScreens
      <4>2. s \in Prompts \ ToolPrompts  BY <1>1, <4>1 DEF FlowInd, KindInd, ScreenKinds
      <4>3. ~IsTool(s[1])  BY <4>2, PromptPairs
      <4>. QED  BY <1>1, <2>2, <4>3 DEF FlowInd, KindInd, ChanKinds
    <3>. QED  BY <2>3, <3>2, <3>3 DEF SaysDenied
  <2>. QED  BY <2>4, <2>5
<1>. QED  BY FlowInvariant, <1>1, PTL

\* Nobody is waited for in vain: the queue, run_permission_handler, the entry,
\* the group or a click without a dialog can still decide.
THEOREM WaitsCanEnd == FlowSpec => []WaitHasDecider
<1>1. ASSUME FlowInd PROVE WaitHasDecider
  <2>1. SUFFICES ASSUME NEW r \in Requests, Waiting(r)
                 PROVE  \/ \E i \in 1 .. Len(inbox) : inbox[i] = r
                        \/ posting[1] = r
                        \/ /\ kind[r] # "group"
                           /\ \/ <<r, 0>> \in entries
                              \/ \E c \in Clickers : hand[c].slot = <<r, 0>> /\ hand[c].do \notin Dialogs
                        \/ /\ kind[r] = "group" /\ r \in groups
                           /\ \A i \in Parts(r) \ answered[r] :
                                \/ <<r, i>> \in entries
                                \/ \E c \in Clickers : hand[c].slot = <<r, i>> /\ hand[c].do = "record"
    BY DEF WaitHasDecider, Waiting
  <2>2. r \in Queue => \E i \in 1 .. Len(inbox) : inbox[i] = r  BY DEF Queue
  <2>3. HasOwner(r) /\ HasGroup(r) /\ HasAnswers(r)  BY <1>1 DEF FlowInd, DeciderInd
  <2>4. CASE kind[r] # "group"
    BY <2>1, <2>2, <2>3, <2>4 DEF HasOwner, Saved, Saves, Dialogs
  <2>5. CASE kind[r] = "group"
    BY <2>1, <2>2, <2>3, <2>5 DEF HasGroup, HasAnswers, Records
  <2>. QED  BY <2>4, <2>5
<1>. QED  BY FlowInvariant, <1>1, PTL

\* The buttons of a decided prompt go, for whoever removed its entry, or the
\* watcher, draws it once more, and only a failure of that edit leaves them.
THEOREM ButtonsGo == FlowSpec => []DecidedPromptsClose
<1>1. ASSUME FlowInd PROVE DecidedPromptsClose
  <2>1. SUFFICES ASSUME NEW r \in Requests, IsTool(r), screen[<<r, 0>>] \in Buttons
                 PROVE  \/ breaks > 0 \/ <<r, 0>> \in Left \/ r \in watched
                        \/ posting = <<r, 0>>
                        \/ \E c \in Clickers : hand[c].slot = <<r, 0>> \/ <<r, 0>> \in hand[c].rest
    BY DEF DecidedPromptsClose, Left
  <2>2. PICK s \in ToolPrompts : s = <<r, 0>> /\ s[1] = r  BY <2>1, PromptPairs
  <2>3. Closes(s) /\ IsWatched(s)  BY <1>1 DEF FlowInd, CloseInd
  <2>. QED  BY <2>1, <2>2, <2>3 DEF Closes, IsWatched, Dismissed, Shows
<1>. QED  BY FlowInvariant, <1>1, PTL

-----------------------------------------------------------------------------
(* The bounds of the channel and of the histories. *)

HistoryTypes ==
  /\ Len(inbox) <= ChannelCap
  /\ ruled \subseteq Tools /\ chosen \subseteq Requests /\ revived \subseteq Slots
  /\ unedited \subseteq Slots
  /\ clicks \in 0..MaxClicks /\ breaks \in 0..MaxBreaks

\* try_send never puts more into the channel than it holds; a rule is for a tool.
LEMMA HistoryStep == FlowInd /\ HistoryTypes /\ [FlowNext]_flowVars => HistoryTypes'
<1>. SUFFICES ASSUME FlowInd, HistoryTypes, [FlowNext]_flowVars PROVE HistoryTypes'  OBVIOUS
<1>. USE FlowAssumption DEF HistoryTypes
<1>1. StateTypes /\ KindInd /\ inbox \in Seq(Requests) /\ Len(inbox) \in Nat
  BY DEF FlowInd, StateTypes
<1>2. ASSUME NEW r \in Requests, Arrive(r) PROVE HistoryTypes'
  <2>1. UNCHANGED <<ruled, chosen, revived, unedited, clicks, breaks>>  BY <1>2 DEF Arrive
  <2>2. CASE inbox' = inbox  BY <2>1, <2>2
  <2>3. CASE ~InboxFull /\ inbox' = Append(inbox, r)
    <3>1. Len(inbox') = Len(inbox) + 1  BY <1>1, <2>3
    <3>2. Len(inbox) + 1 <= ChannelCap  BY <1>1, <2>3 DEF InboxFull
    <3>. QED  BY <2>1, <3>1, <3>2
  <2>. QED  BY <1>2, <2>2, <2>3 DEF Arrive
<1>3. ASSUME NEW r \in Requests, WorkerStep(r) \/ Watcher(r) PROVE HistoryTypes'
  BY <1>3, SlotPairs DEF WorkerStep, Resolve, PermissionTimeout, Watcher, Close
<1>4. CASE InterruptAll \/ CleanupPrompts
  <2>1. UNCHANGED <<inbox, ruled, chosen, revived, unedited, clicks>>
        /\ breaks < MaxBreaks /\ breaks' = breaks + 1
    BY <1>4 DEF InterruptAll, CleanupPrompts
  <2>. QED  BY <2>1
<1>5. CASE TakeRequest
  <2>1. inbox' = Tail(inbox) /\ inbox # <<>> /\ UNCHANGED <<ruled, chosen, revived, unedited, clicks, breaks>>
    BY <1>5 DEF TakeRequest
  <2>2. Len(inbox') = Len(inbox) - 1  BY <1>1, <2>1
  <2>. QED  BY <1>1, <2>1, <2>2
<1>6. CASE PostPrompt \/ RegisterPrompt \/ PostFails
  BY <1>6 DEF PostPrompt, RegisterPrompt, PostFails
<1>7. ASSUME NEW c \in Clickers, NEW s \in Slots, Click(c, s) PROVE HistoryTypes'
  <2>1. UNCHANGED <<inbox, ruled, chosen, revived, unedited, breaks>> /\ clicks < MaxClicks /\ clicks' = clicks + 1
    BY <1>7 DEF Click
  <2>. QED  BY <2>1
<1>8. ASSUME NEW c \in Clickers, HandStep(c) PROVE HistoryTypes'
  <2>1. CASE TooLate(c) \/ ReadEntry(c) \/ SaveFails(c) \/ LeaveDialog(c)
             \/ CloseDialog(c) \/ TakeAnswer(c) \/ RecordAnswer(c) \/ RestartAndDismiss(c)
    <3>1. UNCHANGED <<inbox, ruled, chosen, revived, unedited, clicks, breaks>>
      BY <2>1 DEF TooLate, ReadEntry, SaveFails, LeaveDialog, CloseDialog, TakeAnswer,
                  RecordAnswer, RestartAndDismiss
    <3>. QED  BY <3>1
  <2>6. CASE ShowOutcome(c) \/ TakeForAlways(c) \/ \E s \in Slots : ShowDismissed(c, s)
    <3>1. UNCHANGED <<inbox, ruled, chosen, revived, clicks, breaks>>
      BY <2>6 DEF ShowOutcome, TakeForAlways, ShowDismissed
    <3>2. CASE \E s \in Slots : ShowDismissed(c, s)
      <4>1. unedited' \subseteq Slots  BY <3>2 DEF ShowDismissed, Close
      <4>. QED  BY <3>1, <4>1
    <3>3. CASE ShowOutcome(c) \/ TakeForAlways(c)
      <4>1. hand[c].slot \in Slots
        BY <1>1, <3>3, ShowOutcomeDoes, TakeForAlwaysDoes, PromptPairs
      <4>2. unedited' \subseteq unedited \cup {hand[c].slot}
        BY <3>3 DEF ShowOutcome, TakeForAlways, Close
      <4>. QED  BY <3>1, <4>1, <4>2
    <3>. QED  BY <2>6, <3>2, <3>3
  <2>7. CASE CancelQuestion(c)
    <3>1. UNCHANGED <<inbox, ruled, chosen, revived, clicks, breaks>>
      BY <2>7 DEF CancelQuestion
    <3>2. entries \subseteq Slots  BY <1>1, PromptPairs DEF StateTypes
    <3>3. unedited' \subseteq unedited \cup entries  BY <2>7 DEF CancelQuestion
    <3>. QED  BY <3>1, <3>2, <3>3
  <2>3. CASE DecideOnce(c)
    <3>1. hand[c].slot[1] \in Requests
      BY <1>1, <2>3, DecideOnceDoes, PromptPairs
    <3>. QED  BY <2>3, <3>1 DEF DecideOnce
  <2>4. CASE DrawLevel2(c)
    <3>1. hand[c].slot \in Slots  BY <1>1, <2>4, DrawLevel2Does, PromptPairs
    <3>. QED  BY <2>4, <3>1 DEF DrawLevel2
  <2>5. CASE SaveSucceeds(c)
    <3>1. hand[c].do \in ToolDos  BY <2>5 DEF SaveSucceeds, ToolDos
    <3>2. hand[c].slot \in ToolPrompts  BY <1>1, <3>1, HandsAt
    <3>3. hand[c].slot[1] \in Requests /\ kind[hand[c].slot[1]] \in Tools
      BY <3>2, PromptPairs DEF IsTool
    <3>. QED  BY <2>5, <3>3 DEF SaveSucceeds
  <2>. QED  BY <1>8, <2>1, <2>3, <2>4, <2>5, <2>6, <2>7 DEF HandStep
<1>9. CASE UNCHANGED flowVars  BY <1>9 DEF flowVars
<1>. QED  BY <1>2, <1>3, <1>4, <1>5, <1>6, <1>7, <1>8, <1>9 DEF FlowNext, HandlerStep

\* Whether the thread is to restart is a matter of yes or no.
LEMMA RestartStep == restart \in BOOLEAN /\ [FlowNext]_flowVars => (restart \in BOOLEAN)'
<1>. SUFFICES ASSUME restart \in BOOLEAN, [FlowNext]_flowVars PROVE restart' \in BOOLEAN  OBVIOUS
<1>1. restart' = restart \/ restart' = TRUE
  <2>1. ASSUME NEW r \in Requests, Arrive(r) \/ WorkerStep(r) \/ Watcher(r) PROVE restart' = restart
    BY <2>1 DEF Arrive, WorkerStep, Resolve, PermissionTimeout, Watcher
  <2>2. CASE InterruptAll \/ CleanupPrompts \/ HandlerStep
    BY <2>2 DEF InterruptAll, CleanupPrompts, HandlerStep, TakeRequest, PostPrompt,
                RegisterPrompt, PostFails
  <2>3. ASSUME NEW c \in Clickers, HandStep(c) PROVE restart' = restart \/ restart' = TRUE
    BY <2>3 DEF HandStep, TooLate, DecideOnce, ReadEntry, DrawLevel2, TakeForAlways,
                SaveSucceeds, SaveFails, RestartAndDismiss, LeaveDialog, CloseDialog,
                TakeAnswer, RecordAnswer, CancelQuestion, ShowOutcome, ShowDismissed
  <2>4. ASSUME NEW c \in Clickers, NEW s \in Slots, Click(c, s) PROVE restart' = restart
    BY <2>4 DEF Click
  <2>5. CASE UNCHANGED flowVars  BY <2>5 DEF flowVars
  <2>. QED  BY <2>1, <2>2, <2>3, <2>4, <2>5 DEF FlowNext
<1>. QED  BY <1>1, Zenon

\* Every variable of the prompts keeps to its values: the channel from the worker never
\* holds more requests than its capacity (try_send, permission_wait.rs), and only tools are
\* cached and saved.
THEOREM FlowIsTyped == FlowSpec => []FlowTypeOK
<1>1. FlowInit => HistoryTypes /\ restart \in BOOLEAN
  <2>. SUFFICES ASSUME FlowInit PROVE HistoryTypes /\ restart \in BOOLEAN  OBVIOUS
  <2>1. restart = FALSE /\ Len(inbox) = 0  BY DEF FlowInit
  <2>2. restart \in BOOLEAN  BY <2>1, Zenon
  <2>3. HistoryTypes  BY <2>1, FlowAssumption DEF FlowInit, HistoryTypes
  <2>. QED  BY <2>2, <2>3
<1>2. FlowInd /\ HistoryTypes /\ [FlowNext]_flowVars => HistoryTypes'  BY HistoryStep
<1>3. restart \in BOOLEAN /\ [FlowNext]_flowVars => (restart \in BOOLEAN)'  BY RestartStep
<1>4. ASSUME FlowInd, HistoryTypes, restart \in BOOLEAN PROVE FlowTypeOK
  <2>1. StateTypes /\ KindInd /\ cache \subseteq ruled  BY <1>4 DEF FlowInd, RuleInd
  <2>2. \A c \in Clickers : hand[c].slot \in Slots \cup {NoSlot} /\ hand[c].rest \subseteq Slots
    BY <2>1 DEF StateTypes, HandType
  <2>3. posting \in Slots \cup {NoSlot} /\ entries \subseteq Slots
    BY <2>1, PromptPairs DEF StateTypes
  <2>4. /\ groups \subseteq Requests /\ watched \subseteq Requests /\ DOMAIN screen = Slots
        /\ cache \subseteq Tools /\ ruled \subseteq Tools
    BY <1>4, <2>1 DEF StateTypes, HistoryTypes
  <2>. QED
    BY <1>4, <2>1, <2>2, <2>3, <2>4 DEF FlowTypeOK, StateTypes, HistoryTypes, Waits, Decisions
<1>. QED  BY FlowInvariant, <1>1, <1>2, <1>3, <1>4, PTL DEF FlowSpec

-----------------------------------------------------------------------------
\* The editor and the prompts of MCPermissions.

\* Nothing in the settings file, the calls that edit it, the prompts and the worker's requests
\* leaves the values its module names, whichever of the two components moves (editor.rs,
\* permission_ui.rs, permission_wait.rs).
THEOREM PermissionsAreTyped == PermissionsSpec => []PermissionsTypeOK
<1>1. PermissionsInit => EditorInit /\ FlowInit  BY DEF PermissionsInit
<1>2. [PermissionsNext]_allVars => [EditorNext]_editorVars
  BY DEF PermissionsNext, allVars
<1>3. [PermissionsNext]_allVars => [FlowNext]_flowVars
  BY DEF PermissionsNext, allVars
<1>4. PermissionsSpec => EditorInit /\ [][EditorNext]_editorVars /\ FlowInit /\ [][FlowNext]_flowVars
  BY <1>1, <1>2, <1>3, PTL DEF PermissionsSpec
<1>. QED  BY <1>4, EditorIsTyped, FlowIsTyped, PTL DEF PermissionsTypeOK, EditorSpec, FlowSpec

=============================================================================
