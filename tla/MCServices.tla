----------------------------- MODULE MCServices -----------------------------
(***************************************************************************)
(* Six components that share no variable, each explored for itself: part   *)
(* says which one moves, so their states add up and do not multiply.       *)
(*   - DispatchLocks on two threads and three tasks, with three mutexes,   *)
(*     one more than the map can hold;                                     *)
(*   - SessionRegistry with one thread more than sessions allowed;         *)
(*   - UpdateRecovery with two commands, a version that never becomes      *)
(*     ready, and room for a failed rollback of a second update;           *)
(*   - BranchThread with two posts in the thread it makes;                 *)
(*   - BackgroundTasks with two tasks and two turns or permission waits;   *)
(*   - PermissionRules: every request for a rule, its Bash commands of up  *)
(*     to four symbols.                                                    *)
(***************************************************************************)
EXTENDS DispatchLocks, SessionRegistry, UpdateRecovery, BranchThread,
        BackgroundTasks, PermissionRules

VARIABLE part

allVars == <<vars, registryVars, updateVars, branchVars, tasksVars, rulesVars, part>>

ServicesInit ==
  /\ Init /\ RegistryInit /\ UpdateInit /\ BranchInit /\ TasksInit /\ RulesInit
  /\ part \in {"locks", "registry", "update", "branch", "tasks", "rules"}
  /\ part # "locks" => \A k \in Tasks : target[k] = CHOOSE t \in Threads : TRUE
  /\ part # "rules" => request.tool = "Bash"

Moves(p, next) == part = p /\ next
Rests(p, v) == part # p => UNCHANGED v

ServicesNext ==
  /\ UNCHANGED part
  /\ \/ Moves("locks", Next) \/ Moves("registry", RegistryNext) \/ Moves("update", UpdateNext)
     \/ Moves("branch", BranchNext) \/ Moves("tasks", TasksNext) \/ Moves("rules", RulesNext)
  /\ Rests("locks", vars) /\ Rests("registry", registryVars) /\ Rests("update", updateVars)
  /\ Rests("branch", branchVars) /\ Rests("tasks", tasksVars) /\ Rests("rules", rulesVars)

\* A part that does not move enables none of these in its initial state.
\* Tasks run: a task with a clone ends its work, the supervisor of a session and
\* the callers of the session manager go on, systemd restarts what it has to, a
\* boot and an /update go on to their next step, /branch and a message handler too.
ServicesFair ==
  /\ \A k \in Tasks : WF_vars(Lock(k) \/ Unlock(k) \/ DropArc(k))
  /\ \A g \in Gens : WF_registryVars(SupervisorStep(g))
  /\ \A c \in Callers : WF_registryVars(CallerStep(c))
  /\ WF_updateVars(Boot)
  /\ WF_updateVars(DelayedRestart)
  /\ \A u \in Updaters : WF_updateVars(UpdateStep(u))
  /\ WF_branchVars(BranchStep)
  /\ WF_branchVars(PosterStep)

ServicesSpec == ServicesInit /\ [][ServicesNext]_allVars /\ ServicesFair

\* Every variable of the components keeps to the values its module names.
ServicesTypeOK == RegistryTypeOK /\ UpdateTypeOK /\ BranchTypeOK /\ TasksTypeOK /\ RulesTypeOK
=============================================================================
