---------------------------- MODULE MentionCache ----------------------------
(***************************************************************************)
(* The names of a guild's members, for the mentions in an answer            *)
(* (handler/mention.rs).  The cache is fetched when an answer first needs   *)
(* it and follows the gateway's member events, each of which is handled by  *)
(* a task of its own, so that two of them may be applied in either order.   *)
(*                                                                         *)
(* A member has two names, the account's and the nick, which may be equal.  *)
(***************************************************************************)
EXTENDS Naturals, Sequences, SequencesExt, FiniteSets, Functions

CONSTANTS Members, Names,
          Fetchers,    \* answers that look for names
          MaxChanges   \* bound: changes of members

ASSUME MentionAssumption == MaxChanges \in Nat /\ IsFiniteSet(Members) /\ Names # {}

VARIABLES guild,     \* the names of each member, <<>> for one that is not there
          events,    \* member events on their way: [member, names]
          cached,    \* the cache has an entry for the guild
          nameToId,  \* the member each cached name stands for
          fetching,  \* a fetch is under way (single flight)
          fetch,     \* each answer's fetch: [at, members]
          changes

\* History: an event overtook an older one of its member or of anybody, or was
\* applied while a fetched list waited, or came without its member; the entry was
\* made by an event; and the
\* names two members had at once.
VARIABLES crossed, reordered, partial, shared

mentionVars == <<guild, events, cached, nameToId, fetching, fetch, changes,
                 crossed, reordered, partial, shared>>

NotFetched == [at |-> "new", members |-> <<>>]

MentionInit ==
  /\ guild \in {g \in [Members -> {<<n, n>> : n \in Names}] : IsInjective(g)}
  /\ events = <<>> /\ cached = FALSE /\ nameToId = <<>>
  /\ fetching = FALSE /\ fetch = [f \in Fetchers |-> NotFetched]
  /\ changes = 0 /\ crossed = FALSE /\ reordered = FALSE /\ partial = FALSE
  /\ shared = {}

\* A user changes a name, leaves or comes back.
MemberChanges(u, names) ==
  /\ changes < MaxChanges /\ names # guild[u]
  /\ guild' = [guild EXCEPT ![u] = names]
  /\ events' = Append(events, [member |-> u, names |-> names])
  /\ changes' = changes + 1
  /\ shared' = shared \cup {n \in Range(names) : \E v \in Members \ {u} : n \in Range(guild[v])}
  /\ UNCHANGED <<cached, nameToId, fetching, fetch, crossed, reordered, partial>>
-----------------------------------------------------------------------------
Without(map, u) == Restrict(map, {n \in DOMAIN map : map[n] # u})

\* check_and_clear_conflict: a name of another member is dropped for both.
InsertName(map, u, n) ==
  IF n \in DOMAIN map /\ map[n] # u
  THEN Restrict(map, DOMAIN map \ {n})
  ELSE [x \in DOMAIN map \cup {n} |-> IF x = n THEN u ELSE map[x]]

\* A member's names in turn.
InsertNames(map, u, names) == InsertName(InsertName(map, u, names[1]), u, names[2])

\* A plausible bug: the names the member had stay.
UpdateKeeping(map, e) == InsertNames(map, e.member, e.names)

\* update_member: the member's old names go, the new ones are inserted.
UpdateMember(map, e) == InsertNames(Without(map, e.member), e.member, e.names)

\* A member event; one who left is removed from an entry that is there.
Apply(i) ==
  LET e == events[i]
  IN /\ i \in DOMAIN events
     /\ events' = RemoveAt(events, i)
     /\ IF e.names = <<>>
        THEN nameToId' = Without(nameToId, e.member) /\ UNCHANGED <<cached, partial>>
        ELSE /\ nameToId' = UpdateMember(nameToId, e)
             /\ cached' = TRUE /\ partial' = (partial \/ ~cached)
     /\ reordered' = (reordered \/ i # 1)
     /\ crossed' = \/ crossed
                   \/ \E j \in 1..(i - 1) : events[j].member = e.member
                   \/ \E f \in Fetchers : fetch[f].at \in {"release", "build"}
     /\ UNCHANGED <<guild, fetching, fetch, changes, shared>>

\* An update that comes without its member (a guild serenity's cache does not have)
\* is dropped.
DropUpdate(i) ==
  /\ i \in DOMAIN events /\ events[i].names # <<>>
  /\ events' = RemoveAt(events, i)
  /\ crossed' = TRUE
  /\ UNCHANGED <<guild, cached, nameToId, fetching, fetch, changes, reordered, partial, shared>>
-----------------------------------------------------------------------------
(* ensure_fetched *)

FetchTo(f, step) == fetch' = [fetch EXCEPT ![f].at = step]

\* snapshot and the first check find no entry.
MissCache(f) ==
  /\ fetch[f].at = "new" /\ ~cached
  /\ FetchTo(f, "claim")
  /\ UNCHANGED <<guild, events, cached, nameToId, fetching, changes, crossed, reordered, partial, shared>>

\* Only one task fetches; the others go on without names.
ClaimFetch(f) ==
  /\ fetch[f].at = "claim"
  /\ fetching' = TRUE
  /\ FetchTo(f, IF fetching THEN "done" ELSE "ask")
  /\ UNCHANGED <<guild, events, cached, nameToId, changes, crossed, reordered, partial, shared>>

\* The list of members, in any order; or an error or five seconds without one.
ListMembers(f) ==
  /\ fetch[f].at = "ask"
  /\ LET there == {u \in Members : guild[u] # <<>>}
     IN \E order \in Bijection(1..Cardinality(there), there) :
          fetch' = [fetch EXCEPT ![f] = [at |-> "release",
                      members |-> [i \in DOMAIN order |->
                                     [member |-> order[i], names |-> guild[order[i]]]]]]
  /\ UNCHANGED <<guild, events, cached, nameToId, fetching, changes, crossed, reordered, partial, shared>>
ListFails(f) ==
  /\ fetch[f].at = "ask"
  /\ FetchTo(f, "failed")
  /\ UNCHANGED <<guild, events, cached, nameToId, fetching, changes, crossed, reordered, partial, shared>>

\* The next answer may fetch before this one has stored its list.
ReleaseFetch(f) ==
  /\ fetch[f].at \in {"release", "failed"}
  /\ fetching' = FALSE
  /\ FetchTo(f, IF fetch[f].at = "release" THEN "build" ELSE "done")
  /\ UNCHANGED <<guild, events, cached, nameToId, changes, crossed, reordered, partial, shared>>

\* The entry made of a list, member after member.
CacheOf(members) ==
  LET built[i \in 0..Len(members)] ==
        IF i = 0 THEN <<>>
        ELSE InsertNames(built[i - 1], members[i].member, members[i].names)
  IN built[Len(members)]

\* The list replaces whatever the entry holds by then.
BuildCache(f) ==
  /\ fetch[f].at = "build"
  /\ nameToId' = CacheOf(fetch[f].members)
  /\ cached' = TRUE /\ partial' = FALSE
  /\ fetch' = [fetch EXCEPT ![f] = [NotFetched EXCEPT !.at = "done"]]
  /\ UNCHANGED <<guild, events, fetching, changes, crossed, reordered, shared>>

MentionNext ==
  \/ \E u \in Members, names \in {<<>>} \cup [1..2 -> Names] : MemberChanges(u, names)
  \/ \E i \in 1..MaxChanges : Apply(i) \/ DropUpdate(i)
  \/ \E f \in Fetchers : \/ MissCache(f) \/ ClaimFetch(f) \/ ListMembers(f) \/ ListFails(f)
                         \/ ReleaseFetch(f) \/ BuildCache(f)

MentionSpec == MentionInit /\ [][MentionNext]_mentionVars
-----------------------------------------------------------------------------
\* The map is empty without an entry, and one task holds the flight.
MentionTypeOK ==
  /\ DOMAIN nameToId \subseteq Names /\ Range(nameToId) \subseteq Members
  /\ ~cached => nameToId = <<>>
  /\ Cardinality({f \in Fetchers : fetch[f].at \in {"ask", "release", "failed"}})
       = (IF fetching THEN 1 ELSE 0)

Quiet == events = <<>> /\ \A f \in Fetchers : fetch[f].at \notin {"release", "build"}
Holders(n) == {u \in Members : n \in Range(guild[u])}

\* Once the events are applied, a name stands for a member who has it: nobody is
\* notified for a name that was given up, unless an event crossed another one of the
\* member or a fetched list, or came without its member.
NamesAreHeld == Quiet /\ ~crossed => \A n \in DOMAIN nameToId : nameToId[n] \in Holders(n)

\* And an entry that was fetched knows everybody by each name that was never
\* shared, as long as the events come in order; one that an event made knows only
\* the members who changed.
NobodyIsForgotten ==
  Quiet /\ cached /\ ~(partial \/ crossed \/ reordered) =>
    \A n \in Names \ shared : \A u \in Holders(n) : n \in DOMAIN nameToId /\ nameToId[n] = u

\* A mention notifies the one who is named, and a name that can be mentioned is.
NamesAreKnown == NamesAreHeld /\ NobodyIsForgotten
=============================================================================
