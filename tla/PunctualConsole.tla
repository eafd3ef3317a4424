-------------------------- MODULE PunctualConsole ---------------------------
(***************************************************************************)
(* InstallSystem on the timing the server counts on: "The Switch reports   *)
(* every 2 s during an install" (device/service.ts), so that no minute     *)
(* passes in which a console that installs did not report.                 *)
(***************************************************************************)
EXTENDS InstallSystem

VARIABLE reported   \* the console has reported since the last tick

timedVars == <<vars, reported>>

TimedInit == Init /\ reported = FALSE

(* An install starts, its outcome is sent and its result goes within a tick. *)
TickDue ==
    /\ step = "rest"
    /\ phase = "idle" \/ (phase = "busy" /\ reported)

TimedNext ==
    \/ /\ ConsoleStep \/ PersonStep \/ ServerStep
       /\ reported' = (reported \/ step' = "poll")
    \/ TickDue /\ Clock /\ reported' = FALSE

TimedSpec == TimedInit /\ [][TimedNext]_timedVars

(* The comment on STALE_JOB_MS: the sweep "only catches a console that
   crashed, was switched off, or lost the network".  With none of those, and
   no revoke, it never interrupts a job the console holds. *)
SweepSparesLiveConsole ==
    [][\A j \in Ids :
         (HasStatus(j, OnConsole) /\ jobs'[j].status = "interrupted")
            => ~Holds(j)]_timedVars

=============================================================================
