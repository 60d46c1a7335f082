------------------------------ MODULE Monitors ------------------------------
(***************************************************************************)
(* The tasks of main.rs that tell the outside what happens: the rate-limit  *)
(* monitor (ratelimit.rs), the session count in the bot's presence, and the *)
(* release checker (release.rs).  The first two follow watch channels, which*)
(* keep only the latest value and whether the receiver has seen it.  The    *)
(* three share no variable: each has an initial predicate and a next-state  *)
(* relation of its own.                                                    *)
(***************************************************************************)
EXTENDS Naturals

CONSTANTS Percents,     \* usages an event may report
          MaxReports,    \* bound: rate-limit events
          MaxClock,     \* bound: times of resets
          MaxCount,     \* bound: live sessions
          MaxShards,    \* bound: connections to the gateway
          MaxReleases,  \* bound: releases
          MaxRestarts   \* bound: crashes of the bot

ASSUME MonitorsAssumption ==
  /\ Percents \subseteq Nat
  /\ {MaxReports, MaxClock, MaxCount, MaxShards, MaxReleases, MaxRestarts} \subseteq Nat
  /\ MaxShards # 0

VARIABLES info,       \* RateLimitInfo: [pct, reset, updated], an unknown pct is {}
          infoUnseen,
          monitor,    \* [at, held, now, cycle, told]: cycle and told of each window
          posted,     \* the last message about each window: its pct and its reset
          failed,     \* history: windows whose last message failed
          clock, reports

VARIABLES count, countUnseen,  \* session_count
          shard,               \* the connection that is up
          ctx, ctxUnseen,      \* the connection of the latest context
          presence,            \* [at, count, ctx] of the presence monitor
          activity             \* what each connection shows, MaxCount + 1 for nothing

VARIABLES latest,     \* the latest release, 0 before the first
          lastTag,    \* content of the last-tag file, 0 without one
          checker,    \* [at, tag] of the release checker
          announced,  \* how often each release was announced
          stored,     \* history: releases stored without an announcement
          excused,    \* history: a crash, a failed write or a withdrawal
          restarts

rateVars == <<info, infoUnseen, monitor, posted, failed, clock, reports>>
presenceVars == <<count, countUnseen, shard, ctx, ctxUnseen, presence, activity>>
releaseVars == <<latest, lastTag, checker, announced, stored, excused, restarts>>
-----------------------------------------------------------------------------
(* Rate limits. *)

Windows == {"five_hour", "seven_day"}
Step(w) == IF w = "five_hour" THEN 5 ELSE 25

RateInit ==
  /\ info = [pct |-> [w \in Windows |-> {}], reset |-> [w \in Windows |-> 0], updated |-> FALSE]
  /\ posted = [w \in Windows |-> {}]
  /\ infoUnseen = FALSE /\ failed = {} /\ clock = 0 /\ reports = 0
  /\ monitor = [at |-> "idle", held |-> info, now |-> 0,
                cycle |-> [w \in Windows |-> 0], told |-> [w \in Windows |-> {}]]

\* update_from_event, and update_resets_only when used is {}: the usage stays.
RateEvent(w, used, reset) ==
  /\ reports < MaxReports /\ reports' = reports + 1
  /\ info' = [info EXCEPT !.pct[w] = IF used = {} THEN @ ELSE used,
                          !.reset[w] = reset, !.updated = TRUE]
  /\ infoUnseen' = TRUE
  /\ UNCHANGED <<monitor, posted, failed, clock>>

\* A window of another type changes nothing but wakes the monitor.
UnknownWindow == infoUnseen' = TRUE /\ UNCHANGED <<info, monitor, posted, failed, clock, reports>>

TimePasses ==
  /\ clock < MaxClock /\ clock' = clock + 1
  /\ UNCHANGED <<info, infoUnseen, monitor, posted, failed, reports>>

SeeRate ==
  /\ monitor.at = "idle" /\ infoUnseen
  /\ infoUnseen' = FALSE
  /\ monitor' = IF info.updated THEN [monitor EXCEPT !.at = "five_hour", !.held = info, !.now = clock]
                ELSE monitor
  /\ UNCHANGED <<info, posted, failed, clock, reports>>

BucketChanged(pct, told, step) ==
  pct # {} /\ (told = {} \/ \E p \in pct, q \in told : p \div step # q \div step)

\* A plausible bug: a new cycle keeps what was told in the old one.
ToldEver(w) == monitor.told[w]

\* A new cycle is told anew.
ToldThisCycle(w) ==
  IF monitor.held.reset[w] = monitor.cycle[w] THEN monitor.told[w] ELSE {}

\* notify_if_changed, one window after the other; the message may fail.
NotifyWindow(w, sent) ==
  LET pct == monitor.held.pct[w]
      due == /\ BucketChanged(pct, ToldThisCycle(w), Step(w))
             /\ monitor.held.reset[w] > monitor.now
  IN /\ monitor.at = w
     /\ monitor' = [monitor EXCEPT
                      !.cycle[w] = monitor.held.reset[w],
                      !.told[w] = IF due /\ sent THEN pct ELSE ToldThisCycle(w),
                      !.at = IF w = "five_hour" THEN "seven_day" ELSE "idle",
                      !.held = IF w = "five_hour" THEN @ ELSE info,
                      !.now = IF w = "five_hour" THEN @ ELSE 0]
     /\ posted' = IF due /\ sent
                  THEN [posted EXCEPT ![w] = {[pct |-> p, reset |-> monitor.held.reset[w]] : p \in pct}]
                  ELSE posted
     /\ failed' = IF due /\ ~sent THEN failed \cup {w} ELSE failed \ {w}
     /\ UNCHANGED <<info, infoUnseen, clock, reports>>

RateNext ==
  \/ \E w \in Windows, used \in {{}} \cup {{p} : p \in Percents}, reset \in 0..MaxClock :
       RateEvent(w, used, reset)
  \/ UnknownWindow \/ TimePasses \/ SeeRate
  \/ \E w \in Windows, sent \in BOOLEAN : NotifyWindow(w, sent)
-----------------------------------------------------------------------------
(* The session count in the presence. *)

Nothing == MaxCount + 1

PresenceInit ==
  /\ count = 0 /\ countUnseen = FALSE /\ shard = 1 /\ ctx = 1 /\ ctxUnseen = FALSE
  /\ presence = [at |-> "start", count |-> 0, ctx |-> 1]
  /\ activity = [s \in 1..MaxShards |-> Nothing]

SessionsChange(n) ==
  /\ count' = n /\ countUnseen' = TRUE
  /\ UNCHANGED <<shard, ctx, ctxUnseen, presence, activity>>

\* A new connection shows nothing; what the old one is told is lost.
Reconnect ==
  /\ shard < MaxShards /\ shard' = shard + 1
  /\ UNCHANGED <<count, countUnseen, ctx, ctxUnseen, presence, activity>>

\* Every event publishes its context.
ContextArrives ==
  /\ ctx' = shard /\ ctxUnseen' = TRUE
  /\ UNCHANGED <<count, countUnseen, shard, presence, activity>>

ReadToShow == presence' = [at |-> "show", count |-> count, ctx |-> ctx]

StartPresence ==
  /\ presence.at = "start" /\ ReadToShow
  /\ UNCHANGED <<count, countUnseen, shard, ctx, ctxUnseen, activity>>
SeeCount ==
  /\ presence.at = "idle" /\ countUnseen /\ countUnseen' = FALSE /\ ReadToShow
  /\ UNCHANGED <<count, shard, ctx, ctxUnseen, activity>>
SeeContext ==
  /\ presence.at = "idle" /\ ctxUnseen /\ ctxUnseen' = FALSE /\ ReadToShow
  /\ UNCHANGED <<count, countUnseen, shard, ctx, activity>>
Show ==
  /\ presence.at = "show" /\ presence' = [presence EXCEPT !.at = "idle"]
  /\ activity' = [activity EXCEPT ![presence.ctx] = presence.count]
  /\ UNCHANGED <<count, countUnseen, shard, ctx, ctxUnseen>>

PresenceNext ==
  \/ \E n \in 0..MaxCount : SessionsChange(n)
  \/ Reconnect \/ ContextArrives \/ StartPresence \/ SeeCount \/ SeeContext \/ Show
-----------------------------------------------------------------------------
(* Releases. *)

ReleaseInit ==
  /\ latest = 0 /\ lastTag = 0 /\ checker = [at |-> "idle", tag |-> 0]
  /\ announced = [r \in 1..MaxReleases |-> 0]
  /\ stored = {} /\ excused = FALSE /\ restarts = 0

Publish ==
  /\ latest < MaxReleases /\ latest' = latest + 1
  /\ UNCHANGED <<lastTag, checker, announced, stored, excused, restarts>>

\* The release before becomes the latest again.
Withdraw ==
  /\ latest > 1 /\ latest' = latest - 1 /\ excused' = TRUE
  /\ UNCHANGED <<lastTag, checker, announced, stored, restarts>>

\* A failed fetch is a check that does nothing.
FetchLatest ==
  /\ checker.at = "idle" /\ latest > 0
  /\ checker' = [at |-> "decide", tag |-> latest]
  /\ UNCHANGED <<latest, lastTag, announced, stored, excused, restarts>>

\* should_notify: the first release that is seen is only stored.
Decide ==
  /\ checker.at = "decide"
  /\ checker' = [checker EXCEPT !.at = CASE lastTag = 0 -> "write"
                                         [] lastTag = checker.tag -> "idle"
                                         [] OTHER -> "send"]
  /\ stored' = IF lastTag = 0 THEN stored \cup {checker.tag} ELSE stored
  /\ UNCHANGED <<latest, lastTag, announced, excused, restarts>>

\* A plausible bug: a release whose announcement failed is not tried again.
AnnounceOnce(sent) ==
  /\ checker.at = "send"
  /\ announced' = IF sent THEN [announced EXCEPT ![checker.tag] = @ + 1] ELSE announced
  /\ checker' = [checker EXCEPT !.at = "write"]
  /\ UNCHANGED <<latest, lastTag, stored, excused, restarts>>

\* A failed announcement leaves the tag for the next check.
Announce(sent) ==
  /\ checker.at = "send"
  /\ sent => announced[checker.tag] < 2
  /\ announced' = IF sent THEN [announced EXCEPT ![checker.tag] = @ + 1] ELSE announced
  /\ checker' = [checker EXCEPT !.at = IF sent THEN "write" ELSE "idle"]
  /\ UNCHANGED <<latest, lastTag, stored, excused, restarts>>

\* write_last_tag truncates the file before it writes, and a failure is only logged.
TruncateTag ==
  /\ checker.at = "write" /\ lastTag' = 0
  /\ checker' = [checker EXCEPT !.at = "fill"]
  /\ UNCHANGED <<latest, announced, stored, excused, restarts>>
FillTag ==
  /\ checker.at = "fill" /\ lastTag' = checker.tag
  /\ checker' = [checker EXCEPT !.at = "idle"]
  /\ UNCHANGED <<latest, announced, stored, excused, restarts>>
WriteFails ==
  /\ checker.at \in {"write", "fill"}
  /\ checker' = [checker EXCEPT !.at = "idle"] /\ excused' = TRUE
  /\ UNCHANGED <<latest, lastTag, announced, stored, restarts>>

RestartChecker ==
  /\ restarts < MaxRestarts /\ restarts' = restarts + 1
  /\ checker' = [checker EXCEPT !.at = "idle"]
  /\ excused' = (excused \/ checker.at \in {"write", "fill"})
  /\ UNCHANGED <<latest, lastTag, announced, stored>>

ReleaseNext ==
  \/ Publish \/ Withdraw \/ FetchLatest \/ Decide \/ (\E sent \in BOOLEAN : Announce(sent))
  \/ TruncateTag \/ FillTag \/ WriteFails \/ RestartChecker
-----------------------------------------------------------------------------
\* After the last event was seen, and while its cycle lasts, the last message about a
\* window told the cycle and the bucket its usage is in now, unless that message
\* failed; a message of one window that fails keeps none of the other from being sent.
WindowsAreTold ==
  monitor.at = "idle" /\ ~infoUnseen =>
    \A w \in Windows \ failed : \A p \in info.pct[w] : info.reset[w] > clock =>
      \E message \in posted[w] : /\ message.reset = info.reset[w]
                                /\ message.pct \div Step(w) = p \div Step(w)

\* Once both channels are seen, the connection that is up shows the session count,
\* whatever reconnected while the count changed.
PresenceIsCurrent ==
  presence.at = "idle" /\ ~countUnseen /\ ~ctxUnseen /\ ctx = shard => activity[shard] = count

\* A release is announced once, and the last tag is always one that was announced or
\* the first that was seen, but after a crash inside a write, a failed write or
\* a withdrawal.
ReleasesAreTold ==
  /\ lastTag # 0 => announced[lastTag] > 0 \/ lastTag \in stored
  /\ ~excused => /\ \A r \in DOMAIN announced : announced[r] <= 1
                 /\ \A r, s \in stored : r = s \/ lastTag = 0

\* What the bot tells the outside agrees with what it knows.
NoticesAreCurrent == WindowsAreTold /\ PresenceIsCurrent /\ ReleasesAreTold
=============================================================================
