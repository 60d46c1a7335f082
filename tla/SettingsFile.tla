---------------------------- MODULE SettingsFile ----------------------------
(***************************************************************************)
(* What add_permissions promises its callers about one Claude settings     *)
(* file: a call that no outside edit crosses adds its rules in one atomic  *)
(* step and keeps everything else; a call that an outside edit crosses     *)
(* still leaves its own rules in the file, but may undo that edit.  A call *)
(* that fails changes nothing, except that a file nobody can parse is set  *)
(* aside and an empty one gets its braces.                                 *)
(***************************************************************************)
CONSTANTS Callers, \* calls of add_permissions
          Rules,   \* permission rules
          Want     \* Want[k]: the normalized rules call k adds

VARIABLES file,    \* [kind, rules]: the file readers find at the path
          call,    \* call[k]: "out", "in" (it works on the file), "added"
          crossed  \* crossed[k]: an outside edit hit the file while k was in

Json(S) == [kind |-> "json", rules |-> S]
NoFile == [kind |-> "none", rules |-> {}]
Files == [kind : {"none", "empty", "torn", "odd", "json"}, rules : SUBSET Rules]

Init ==
    /\ file \in Files
    /\ call = [k \in Callers |-> "out"]
    /\ crossed = [k \in Callers |-> FALSE]

\* The call finds the file, created empty when there is none.
Enter(k) ==
    /\ call[k] = "out"
    /\ call' = [call EXCEPT ![k] = "in"]
    /\ UNCHANGED <<file, crossed>>

Create ==
    /\ file = NoFile
    /\ file' = [kind |-> "empty", rules |-> {}]
    /\ UNCHANGED <<call, crossed>>

Brace(k) ==
    /\ call[k] = "in" /\ file.kind = "empty"
    /\ file' = Json({})
    /\ UNCHANGED <<call, crossed>>

\* A crossed call that replaces the file crosses every other call in turn.
Leave(k, c, replaced) ==
    /\ call' = [call EXCEPT ![k] = c]
    /\ crossed' = [j \in Callers |-> j # k /\
          (crossed[j] \/ (crossed[k] /\ replaced /\ call[j] = "in"))]

\* The one effect of a successful call, readers see all of it or nothing.
Add(k) ==
    /\ call[k] = "in"
    /\ file'.kind = "json"
    /\ Want[k] \subseteq file'.rules
    /\ ~crossed[k] => file' = Json(file.rules \cup Want[k])
    /\ Leave(k, "added", TRUE)

\* The rules are in the file but its directory could not be flushed: an error.
Unconfirmed(k) ==
    /\ call[k] = "added"
    /\ call' = [call EXCEPT ![k] = "out"]
    /\ UNCHANGED <<file, crossed>>

SetAside(k) ==
    /\ call[k] = "in"
    /\ ~crossed[k] => file.kind \in {"torn", "empty"}
    /\ file' = NoFile
    /\ Leave(k, "out", TRUE)

\* The call fails, gives up waiting or its process dies.
GiveUp(k) ==
    /\ call[k] = "in"
    /\ Leave(k, "out", FALSE)
    /\ UNCHANGED file

\* Somebody else writes the file: the Claude CLI, an editor, a git checkout.
\* A call may notice it and start from the new content, or be crossed by it.
Outside ==
    /\ file' \in Files
    /\ \E hit \in SUBSET {k \in Callers : call[k] = "in"} :
          crossed' = [k \in Callers |-> crossed[k] \/ k \in hit]
    /\ UNCHANGED call

Next ==
    \/ Outside \/ Create
    \/ \E k \in Callers :
          \/ Enter(k) \/ Brace(k) \/ Add(k) \/ Unconfirmed(k)
          \/ SetAside(k) \/ GiveUp(k)

Spec == Init /\ [][Next]_<<file, call, crossed>>
=============================================================================
