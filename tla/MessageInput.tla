---------------------------- MODULE MessageInput ----------------------------
(***************************************************************************)
(* What a message carries to Claude (handler/message/mod.rs).               *)
(*                                                                         *)
(* First machine: the context of the thread, which belongs to the first     *)
(* message of a session and to the first one after a /compact               *)
(* (needs_context), and the next-step buttons under a summary, whose click  *)
(* starts a turn.  Handlers hold the dispatch lock from Enter until their   *)
(* message is sent; one handler has a turn at a time.                       *)
(*                                                                         *)
(* Second machine: the files of one message, from the download to the line  *)
(* that names them.  The two share no variable.                            *)
(***************************************************************************)
EXTENDS Naturals, Sequences, SequencesExt, FiniteSets

CONSTANTS Handlers,   \* messages, direct executions and clicks
          MaxOffers,  \* bound: summaries with buttons
          FileNames,  \* names of attachments
          MaxFile,    \* max_file_size
          MaxTotal    \* max_aggregate_size

ASSUME InputAssumption == {MaxOffers, MaxFile, MaxTotal} \subseteq Nat

VARIABLES row,     \* the session row is there
          needs,   \* needs_context
          lock,    \* who holds the dispatch lock: a set of at most one handler
          primary, \* who has the turn: a set of at most one handler
          input,   \* each handler: [at, kind, fresh, context, offer]
          button,  \* next_step_button, 0 for none
          buttons,   \* the offers whose buttons are on Discord
          offers,  \* how many were posted
          owed,    \* history: Claude has still to be told the context
          stray    \* history: offers whose buttons nobody looks after

VARIABLES attached,  \* the attachments of a message: [name, size]
          step,      \* "choose", "download", "send", "sent" or "failed"
          disk,      \* files in the download directory of the thread
          paths,     \* the attachments that were downloaded, in order
          errors,    \* how many were refused or failed
          leftover    \* history: files a failed write left behind

contextVars == <<row, needs, lock, primary, input, button, buttons, offers, owed, stray>>
fileVars == <<attached, step, disk, paths, errors, leftover>>
-----------------------------------------------------------------------------
Idle == [at |-> "new", kind |-> "text", fresh |-> FALSE, context |-> FALSE, offer |-> 0]

ContextInit ==
  /\ row = FALSE /\ needs = FALSE /\ lock = {} /\ primary = {}
  /\ input = [h \in Handlers |-> Idle]
  /\ button = 0 /\ buttons = {} /\ offers = 0 /\ owed = FALSE /\ stray = {}

HandlerTo(h, at) == input' = [input EXCEPT ![h] = IF at = "done" THEN [Idle EXCEPT !.at = "done"]
                                          ELSE [@ EXCEPT !.at = at]]

\* A message finds or creates the session row; a direct execution needs one.
Arrive(h, kind) ==
  /\ input[h].at = "new"
  /\ kind = "direct" => row
  /\ input' = [input EXCEPT ![h] = [Idle EXCEPT !.at = "lock", !.kind = kind, !.fresh = ~row]]
  /\ row' = TRUE /\ owed' = (owed \/ ~row)
  /\ UNCHANGED <<needs, lock, primary, button, buttons, offers, stray>>

Enter(h) ==
  /\ input[h].at = "lock" /\ lock = {}
  /\ lock' = {h} /\ HandlerTo(h, "open")
  /\ UNCHANGED <<row, needs, primary, button, buttons, offers, owed, stray>>

\* Handlers whose message will bring the context, or the flag for it.
Bringing ==
  {h \in Handlers : \/ input[h].fresh /\ input[h].at \in {"lock", "open", "take", "inject", "send"}
                    \/ input[h].context /\ input[h].at = "send"
                    \/ input[h].at = "flag"}
ForgivenBy(h) == owed' = (owed /\ (needs \/ Bringing \ {h} # {}))

\* get_or_create fails: the context of a first message goes with it.
OpenFails(h) ==
  /\ input[h].at = "open" /\ input[h].kind # "direct"
  /\ lock' = {} /\ HandlerTo(h, "done")
  /\ ForgivenBy(h)
  /\ UNCHANGED <<row, needs, primary, button, buttons, offers, stray>>

AcquireTurn(h) ==
  /\ input[h].at = "open"
  /\ IF primary = {}
     THEN primary' = {h} /\ HandlerTo(h, IF input[h].kind = "compact" THEN "send" ELSE "take")
     ELSE UNCHANGED primary /\ HandlerTo(h, "inject")
  /\ UNCHANGED <<row, needs, lock, button, buttons, offers, owed, stray>>

\* A text takes the context with it.
TakeContext(h) ==
  /\ input[h].at = "take" /\ input[h].kind = "text"
  /\ needs' = FALSE
  /\ input' = [input EXCEPT ![h].at = "send", ![h].context = input[h].fresh \/ needs]
  /\ UNCHANGED <<row, lock, primary, button, buttons, offers, owed, stray>>

\* A direct execution drops it.
DropContext(h) ==
  /\ input[h].at = "take" /\ input[h].kind = "direct"
  /\ needs' = FALSE /\ owed' = (owed /\ Bringing # {})
  /\ HandlerTo(h, "send")
  /\ UNCHANGED <<row, lock, primary, button, buttons, offers, stray>>

\* A command that was sent sets the flag before the lock is released.
SendPrimary(h, sent) ==
  /\ input[h].at = "send" /\ input[h].kind # "direct"
  /\ IF sent
     THEN /\ HandlerTo(h, IF input[h].kind = "compact" THEN "flag" ELSE "old")
          /\ lock' = IF input[h].kind = "compact" THEN lock ELSE {}
          /\ owed' = IF input[h].kind = "compact" THEN TRUE ELSE owed /\ ~input[h].context
          /\ UNCHANGED primary
     ELSE /\ HandlerTo(h, "done") /\ lock' = {} /\ primary' = {}
          /\ ForgivenBy(h)
  /\ UNCHANGED <<row, needs, button, buttons, offers, stray>>

SendDirect(h, sent) ==
  /\ input[h].at = "send" /\ input[h].kind = "direct"
  /\ HandlerTo(h, IF sent THEN "old" ELSE "done")
  /\ lock' = {} /\ primary' = IF sent THEN primary ELSE {}
  /\ UNCHANGED <<row, needs, button, buttons, offers, owed, stray>>

\* A plausible bug: a message in the middle of a turn takes the flag away.
InjectTaking(h, sent) ==
  /\ input[h].at = "inject" /\ input[h].kind # "direct"
  /\ HandlerTo(h, IF sent /\ input[h].kind = "compact" THEN "flag" ELSE "done")
  /\ lock' = IF sent /\ input[h].kind = "compact" THEN lock ELSE {}
  /\ IF sent /\ input[h].kind = "compact" THEN owed' = TRUE ELSE ForgivenBy(h)
  /\ needs' = FALSE
  /\ UNCHANGED <<row, primary, button, buttons, offers, stray>>

\* A message in the middle of a turn neither takes nor carries a context, the first of
\* a session included.
Inject(h, sent) ==
  /\ input[h].at = "inject" /\ input[h].kind # "direct"
  /\ HandlerTo(h, IF sent /\ input[h].kind = "compact" THEN "flag" ELSE "done")
  /\ lock' = IF sent /\ input[h].kind = "compact" THEN lock ELSE {}
  /\ IF sent /\ input[h].kind = "compact" THEN owed' = TRUE ELSE ForgivenBy(h)
  /\ UNCHANGED <<row, needs, primary, button, buttons, offers, stray>>

\* Sent or not, a direct execution in the middle of a turn is over.
InjectDirect(h) ==
  /\ input[h].at = "inject" /\ input[h].kind = "direct"
  /\ HandlerTo(h, "done") /\ lock' = {}
  /\ UNCHANGED <<row, needs, primary, button, buttons, offers, owed, stray>>

SetFlag(h) ==
  /\ input[h].at = "flag"
  /\ needs' = TRUE /\ lock' = {}
  /\ HandlerTo(h, IF h \in primary THEN "old" ELSE "done")
  /\ UNCHANGED <<row, primary, button, buttons, offers, owed, stray>>

\* cleanup_session_state forgets both; the buttons stay on Discord.
ForgetState ==
  /\ needs \/ button # 0
  /\ needs' = FALSE /\ button' = 0
  /\ owed' = (owed /\ Bringing # {})
  /\ stray' = stray \cup ({button} \ {0})
  /\ UNCHANGED <<row, lock, primary, input, buttons, offers>>
-----------------------------------------------------------------------------
(* Next-step buttons. *)

\* A turn first removes the buttons of the one before.
RemoveOld(h, edited) ==
  /\ input[h].at = "old"
  /\ HandlerTo(h, "turn") /\ button' = 0
  /\ buttons' = IF edited THEN buttons \ {button} ELSE buttons
  /\ stray' = IF edited THEN stray ELSE stray \cup ({button} \ {0})
  /\ UNCHANGED <<row, needs, lock, primary, offers, owed>>

\* The status is written before the summary is posted: the next turn may begin.
EndTurn(h) ==
  /\ input[h].at = "turn"
  /\ primary' = {} /\ HandlerTo(h, "summary")
  /\ UNCHANGED <<row, needs, lock, button, buttons, offers, owed, stray>>

PostSummary(h, offered) ==
  /\ input[h].at = "summary"
  /\ IF offered
     THEN /\ offers < MaxOffers /\ offers' = offers + 1 /\ buttons' = buttons \cup {offers'}
          /\ input' = [input EXCEPT ![h].at = "record", ![h].offer = offers']
     ELSE UNCHANGED <<buttons, offers>> /\ HandlerTo(h, "done")
  /\ UNCHANGED <<row, needs, lock, primary, button, owed, stray>>

RecordOffer(h) ==
  /\ input[h].at = "record"
  /\ button' = input[h].offer /\ HandlerTo(h, "done")
  /\ stray' = stray \cup ({button} \ {0})
  /\ UNCHANGED <<row, needs, lock, primary, buttons, offers, owed>>

\* The buttons go before anything else is looked at, but the answer may fail.
Click(h, offer, answered, owner) ==
  /\ input[h].at = "new" /\ offer \in buttons
  /\ buttons' = IF answered THEN buttons \ {offer} ELSE buttons
  /\ stray' = IF answered THEN stray ELSE stray \cup {offer}
  /\ HandlerTo(h, IF owner THEN "clicked" ELSE "done")
  /\ UNCHANGED <<row, needs, lock, primary, button, offers, owed>>

\* Any offer that is recorded is taken, not the one that was clicked.
TakeOffer(h, exists) ==
  /\ input[h].at = "clicked"
  /\ button' = 0
  /\ stray' = stray \cup (buttons \cap {button})
  /\ input' = [input EXCEPT ![h] = IF button # 0 /\ exists
                                   THEN [Idle EXCEPT !.at = "lock", !.kind = "direct"]
                                   ELSE [Idle EXCEPT !.at = "done"]]
  /\ UNCHANGED <<row, needs, lock, primary, buttons, offers, owed>>

HandlerStep(h) ==
  \/ \E kind \in {"text", "compact", "direct"} : Arrive(h, kind)
  \/ Enter(h) \/ OpenFails(h) \/ AcquireTurn(h) \/ TakeContext(h) \/ DropContext(h) \/ InjectDirect(h)
  \/ SetFlag(h) \/ EndTurn(h) \/ RecordOffer(h)
  \/ \E ok \in BOOLEAN : \/ SendPrimary(h, ok) \/ SendDirect(h, ok) \/ Inject(h, ok) \/ RemoveOld(h, ok)
                         \/ PostSummary(h, ok) \/ TakeOffer(h, ok)
  \/ \E offer \in 1..MaxOffers, answered, owner \in BOOLEAN : Click(h, offer, answered, owner)

ContextNext == ForgetState \/ \E h \in Handlers : HandlerStep(h)
-----------------------------------------------------------------------------
(* Attachments. *)

\* sanitize_filename: different names may become the same one.
Sanitize(name) == CASE name = "a b" -> "a_b" [] name = ".." -> "unnamed" [] OTHER -> name

FilesInit ==
  /\ attached = <<>> /\ step = "choose" /\ disk = {} /\ paths = <<>>
  /\ errors = 0 /\ leftover = {}

SizeOf(files) == FoldLeft(LAMBDA sum, a : sum + a.size, 0, files)
Fits == SizeOf(attached) <= MaxTotal

Attach(name, size) ==
  /\ step = "choose" /\ Len(attached) < 3
  /\ attached' = Append(attached, [name |-> name, size |-> size])
  /\ UNCHANGED <<step, disk, paths, errors, leftover>>

\* Too much in total: nothing is downloaded, with one error.
StartDownload ==
  /\ step = "choose" /\ attached # <<>>
  /\ step' = IF Fits THEN "download" ELSE "send"
  /\ errors' = IF Fits THEN 0 ELSE 1
  /\ UNCHANGED <<attached, disk, paths, leftover>>

File(i) == Sanitize(attached[i].name)
Files == {File(i) : i \in ToSet(paths)}
Current == Len(paths) + errors + 1
Left == step = "download" /\ Current <= Len(attached)

\* Too large as announced, another host, no answer, more bytes than announced, or an
\* answer that breaks off: nothing of the file stays.
Refuse ==
  /\ Left /\ errors' = errors + 1
  /\ UNCHANGED <<attached, step, disk, paths, leftover>>

\* create_new: a file of that name in the same message is in the way.
Save(saved) ==
  LET file == File(Current)
  IN /\ Left /\ attached[Current].size <= MaxFile
     /\ IF file \in disk
        THEN errors' = errors + 1 /\ UNCHANGED <<disk, paths, leftover>>
        ELSE /\ disk' = disk \cup {file}
             /\ IF saved THEN paths' = Append(paths, Current) /\ UNCHANGED <<errors, leftover>>
                ELSE UNCHANGED paths /\ errors' = errors + 1 /\ leftover' = leftover \cup {file}
     /\ UNCHANGED <<attached, step>>

EndDownload ==
  /\ step = "download" /\ ~Left /\ step' = "send"
  /\ UNCHANGED <<attached, disk, paths, errors, leftover>>

\* A plausible bug: the files of a message that was refused stay.
SendLeaving(sent) ==
  /\ step = "send"
  /\ step' = IF sent THEN "sent" ELSE "failed"
  /\ UNCHANGED <<attached, disk, paths, errors, leftover>>

\* A message that is not sent takes its files with it.
SendWithFiles(sent) ==
  /\ step = "send"
  /\ step' = IF sent THEN "sent" ELSE "failed"
  /\ disk' = IF sent THEN disk ELSE disk \ Files
  /\ UNCHANGED <<attached, paths, errors, leftover>>

FilesNext ==
  \/ \E name \in FileNames, size \in 1..(MaxFile + 1) : Attach(name, size)
  \/ StartDownload \/ Refuse \/ EndDownload
  \/ \E ok \in BOOLEAN : Save(ok) \/ SendWithFiles(ok)
-----------------------------------------------------------------------------
\* As long as Claude has still to be told the context, somebody will: the flag is set
\* or about to be, or a message carries it, unless a message that carried it
\* failed or came in the middle of a turn, a direct execution dropped it, or the
\* state of the thread was cleaned up.
ContextIsKept == owed => needs \/ Bringing # {}

\* Between turns, the buttons that are on Discord are those a click would start, but
\* for the ones an edit failed on, a cleanup or an overlapping turn forgot, or a click
\* on older ones used up.
ButtonsAreLive ==
  (\A h \in Handlers : input[h].at \in {"new", "lock", "done"}) => buttons \ stray \subseteq {button}

\* A message names each of its files once and they are there, and every other attachment
\* is reported; of a message that failed nothing stays but what a failed write left.
FilesAreKept ==
  /\ step = "sent" => /\ Files \subseteq disk \ leftover
                      /\ \A i, j \in ToSet(paths) : File(i) = File(j) => i = j
  /\ step \in {"sent", "failed"} =>
       /\ disk \ leftover = (IF step = "sent" THEN Files ELSE {})
       /\ Fits => Len(paths) + errors = Len(attached)

\* What a message carries is what it should.
MessagesAreComplete == ContextIsKept /\ ButtonsAreLive /\ FilesAreKept
=============================================================================
