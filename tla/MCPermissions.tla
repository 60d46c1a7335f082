---------------------------- MODULE MCPermissions ----------------------------
(***************************************************************************)
(* What happens to a permission request on Discord, and the settings file *)
(* to which its Always Allow adds a rule.  The prompts of PermissionFlow   *)
(* see of the editor only that a save succeeds or fails, so part says      *)
(* which of the two components moves and their states add up instead of    *)
(* multiplying:                                                            *)
(*   - three calls of the editor in two processes, one outside edit and    *)
(*     one process that dies or system call that fails; the call of the    *)
(*     other process adds one rule more;                                   *)
(*   - two requests, the first for the tool Bash, the other for any tool,  *)
(*     a question or a group of two, two clicking tasks, and a channel of  *)
(*     one request, so that a full channel occurs.                         *)
(***************************************************************************)
EXTENDS SettingsEditor, PermissionFlow, TLC

CONSTANTS k1, k2, k3, b1, b2, r1, r2

MCBotOf == k1 :> b1 @@ k2 :> b1 @@ k3 :> b2
MCWant == k1 :> {"one"} @@ k2 :> {"one"} @@ k3 :> {"one", "two"}

VARIABLE part

allVars == <<editorVars, flowVars, part>>

PermissionsInit ==
  /\ EditorInit /\ FlowInit /\ kind[r1] = "Bash"
  /\ part \in {"editor", "flow"}
  /\ part # "editor" => path = NoInode
  /\ part # "flow" => kind[r2] = "Bash"

PermissionsNext ==
  /\ UNCHANGED part
  /\ \/ part = "editor" /\ EditorNext /\ UNCHANGED flowVars
     \/ part = "flow" /\ FlowNext /\ UNCHANGED editorVars

\* A call goes on to its next statement, as its task is scheduled and flock has
\* its timeout; the worker resolves a decided request and its timers run.
PermissionsFair ==
  /\ \A k \in Calls : WF_editorVars(part = "editor" /\ CallStep(k))
  /\ \A r \in Requests : WF_flowVars(part = "flow" /\ WorkerStep(r))

PermissionsSpec == PermissionsInit /\ [][PermissionsNext]_allVars /\ PermissionsFair

\* Every variable of the components keeps to the values its module names.
PermissionsTypeOK == EditorTypeOK /\ FlowTypeOK
=============================================================================
