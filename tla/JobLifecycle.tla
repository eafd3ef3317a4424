---------------------------- MODULE JobLifecycle ----------------------------
(***************************************************************************)
(* What the install queue promises of every job, whatever happens to the   *)
(* server, the consoles and the requests between them: the stages a job    *)
(* goes through from its creation to the end of its history.  A step of    *)
(* the system may move several jobs (a sweep, a revoke, a purge).          *)
(***************************************************************************)
EXTENDS Naturals

CONSTANT Jobs

VARIABLE stage

Stages == {"none", "queued", "claimed", "running", "interrupted",
           "done", "failed", "cancelled", "purged"}

(* The stages a job may move to in one step.  A console takes a job by a
   claim, only a job some console has taken can end in done or failed, an
   interrupted one waits for a claim, a late report or a new place in the
   queue, and an outcome is final until its row is purged. *)
Successors(s) ==
    CASE s = "none" -> {"queued"}
      [] s = "queued" -> {"claimed", "cancelled"}
      [] s = "claimed" -> {"running", "interrupted", "done", "failed", "cancelled"}
      [] s = "running" -> {"interrupted", "done", "failed", "cancelled"}
      [] s = "interrupted" ->
           {"queued", "claimed", "running", "done", "failed", "cancelled"}
      [] s \in {"done", "failed", "cancelled"} -> {"purged"}
      [] OTHER -> {}

Init == stage = [j \in Jobs |-> "none"]

Move ==
    /\ stage' \in [Jobs -> Stages]
    /\ \A j \in Jobs : stage'[j] # stage[j] => stage'[j] \in Successors(stage[j])

Spec == Init /\ [][Move]_stage

=============================================================================
