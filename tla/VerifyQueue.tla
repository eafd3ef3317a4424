------------------------------- MODULE VerifyQueue -----------------------------
(***************************************************************************)
(* VerifyService (library/verify-service.ts): verifications asked for on   *)
(* the web, run one at a time, cut where a run awaits the disk; the        *)
(* verify_status it stores (verify.ts, repository.ts), the inspections     *)
(* that reset it, and what the verify.updated events tell the pages.       *)
(***************************************************************************)
EXTENDS Integers, FiniteSets

CONSTANTS
    Books,      \* library files
    Runs,       \* numbers of the verifications, in the order they are asked for
    KeptTasks,  \* MAX_FINISHED_TASKS
    Contents    \* content lists an inspection may find in a file

VARIABLES
    made,       \* verifications asked for so far
    about,      \* the file each is about
    state,      \* and its state; an aborted one is "cancelled"
    shown,      \* #tasks: the latest verification of each file, or 0
    queuedRuns, \* those in the queue, served in the order they were asked for
    running,    \* the one under way, or 0, and where it stands
    at,
    against,    \* the content list it hashes the file against
    reread,     \* the file was inspected since it read that list
    present,    \* files that are not missing
    listed,     \* the content list of each file, "none" before it could be read
    status,     \* files.verify_status
    \* history
    earned,     \* the content list that status is about
    overtaken,  \* files whose status was stored after an inspection during the run
    told,       \* the last verify.updated of each file
    late        \* files whose last event was of a run that was replaced before

taskVars == <<made, about, state, shown, queuedRuns, told, late>>
runVars == <<running, at, against, reread>>
rowVars == <<present, listed, status, earned, overtaken>>
verifyVars == <<taskVars, runVars, rowVars>>

VerifyStates == {"unmade", "queued", "running", "done", "failed", "cancelled", "lost"}
Lists == Contents \cup {"none"}
Asked == 1..made

VerifySized == KeptTasks \in Nat /\ IsFiniteSet(Books) /\ Runs \subseteq Nat

Active(st, r) == r # 0 /\ st[r] \in {"queued", "running"}

VerifyTypeOK ==
    /\ made \in Nat /\ Asked \subseteq Runs
    /\ about \in [Runs -> Books \cup {"none"}] /\ state \in [Runs -> VerifyStates]
    /\ \A r \in Runs : r \in Asked <=> state[r] # "unmade"
    /\ \A r \in Asked : about[r] \in Books
    /\ shown \in [Books -> Asked \cup {0}] /\ queuedRuns \subseteq Asked
    /\ running \in Asked \cup {0} /\ at \in {"idle", "opening", "hashing", "stored"}
    /\ against \in Lists /\ reread \in BOOLEAN
    /\ present \subseteq Books /\ listed \in [Books -> Lists] /\ earned \in [Books -> Lists]
    /\ status \in [Books -> {"unverified", "ok", "partial", "bad"}]
    /\ overtaken \subseteq Books /\ late \subseteq Books
    /\ told \in [Books -> [run : Asked \cup {0}, state : VerifyStates]]

VerifyInit ==
    /\ made = 0 /\ shown = [f \in Books |-> 0] /\ queuedRuns = {}
    /\ about = [r \in Runs |-> "none"] /\ state = [r \in Runs |-> "unmade"]
    /\ running = 0 /\ at = "idle" /\ against = "none" /\ reread = FALSE
    /\ present = {} /\ listed = [f \in Books |-> "none"] /\ earned = [f \in Books |-> "none"]
    /\ status = [f \in Books |-> "unverified"] /\ overtaken = {} /\ late = {}
    /\ told = [f \in Books |-> [run |-> 0, state |-> "unmade"]]

--------------------------------------------------------------------------------
(* The list of tasks.                                                           *)

Finished(s, st) == {f \in Books : s[f] # 0 /\ ~Active(st, s[f])}

\* #trimFinished: of the finished tasks in s the oldest go, until there are few enough.
Trims(s, st, s2) ==
    \E gone \in SUBSET Finished(s, st) :
        LET kept == Finished(s, st) \ gone
        IN  /\ Cardinality(kept) <= KeptTasks
            /\ gone # {} => Cardinality(kept) = KeptTasks
            /\ \A f \in gone, g \in kept : s[f] < s[g]
            /\ s2 = [f \in Books |-> IF f \in gone THEN 0 ELSE s[f]]

\* #publish of run r in state st; the pages file it under its file, whose latest it may not be.
Tells(r, st) ==
    /\ told' = [told EXCEPT ![about[r]] = [run |-> r, state |-> st]]
    /\ late' = IF shown[about[r]] = r THEN late \ {about[r]} ELSE late \cup {about[r]}

--------------------------------------------------------------------------------
(* What people ask.                                                             *)

\* start: a file whose verification is queued or running keeps it.
StartVerify(f) ==
    LET r == made + 1
    IN  /\ r \in Runs /\ f \in present /\ ~Active(state, shown[f])
        /\ made' = r /\ queuedRuns' = queuedRuns \cup {r}
        /\ about' = [about EXCEPT ![r] = f] /\ state' = [state EXCEPT ![r] = "queued"]
        /\ Trims([shown EXCEPT ![f] = r], state', shown')
        /\ told' = [told EXCEPT ![f] = [run |-> r, state |-> "queued"]] /\ late' = late \ {f}
        /\ UNCHANGED <<runVars, rowVars>>

\* #finish of run r.
FinishVerify(r, st) ==
    /\ state' = [state EXCEPT ![r] = st]
    /\ Trims(shown, state', shown')
    /\ Tells(r, st)

CancelVerify(f) ==
    /\ Active(state, shown[f])
    /\ FinishVerify(shown[f], "cancelled")
    /\ UNCHANGED <<made, about, queuedRuns, runVars, rowVars>>

--------------------------------------------------------------------------------
(* The run.                                                                     *)

\* The queue hands over the next; one cancelled meanwhile does nothing.
NextVerify(r) ==
    /\ running = 0 /\ r \in queuedRuns /\ \A q \in queuedRuns : r <= q
    /\ queuedRuns' = queuedRuns \ {r}
    /\ \/ /\ state[r] = "cancelled"
          /\ UNCHANGED <<state, shown, told, late, runVars>>
       \/ /\ state[r] # "cancelled"
          /\ state' = [state EXCEPT ![r] = "running"]
          /\ UNCHANGED shown /\ running' = r /\ at' = "opening"
          /\ Tells(r, "running")
          /\ UNCHANGED <<against, reread>>
    /\ UNCHANGED <<made, about, rowVars>>

\* The file is found and open: the content list is read, and the first progress told, whether the
\* run was cancelled or not.
OpenFile ==
    /\ at = "opening" /\ at' = "hashing" /\ UNCHANGED running
    /\ against' = listed[about[running]] /\ reread' = FALSE
    /\ Tells(running, state[running]) \/ UNCHANGED <<told, late>>
    /\ UNCHANGED <<made, about, state, shown, queuedRuns, rowVars>>

\* setFileVerify, also for a run cancelled after its last chunk, or one that hashes nothing.
StoreStatus(verdict) ==
    /\ at = "hashing" /\ at' = "stored"
    /\ against = "none" <=> verdict = "unverified"
    /\ LET f == about[running]
       IN  /\ status' = [status EXCEPT ![f] = verdict] /\ earned' = [earned EXCEPT ![f] = against]
           /\ overtaken' = IF reread THEN overtaken \cup {f} ELSE overtaken \ {f}
    /\ UNCHANGED <<taskVars, running, against, reread, present, listed>>

EndRun == running' = 0 /\ at' = "idle" /\ UNCHANGED <<against, reread>>

\* The run ends: what it found is the outcome, or it failed, unless it was cancelled meanwhile.
EndVerify ==
    /\ at # "idle" /\ EndRun
    /\ IF state[running] = "cancelled" THEN UNCHANGED <<state, shown, told, late>>
       ELSE FinishVerify(running, IF at = "stored" THEN "done" ELSE "failed")
    /\ UNCHANGED <<made, about, queuedRuns, rowVars>>

--------------------------------------------------------------------------------
(* What else happens.                                                           *)

\* saveInspection: the file has a new content list, and is unverified.
InspectFile(f, l) ==
    /\ listed' = [listed EXCEPT ![f] = l] /\ status' = [status EXCEPT ![f] = "unverified"]
    /\ overtaken' = overtaken \ {f}
    /\ reread' = (reread \/ (at # "idle" /\ about[running] = f))
    /\ UNCHANGED <<taskVars, running, at, against, present, earned>>

FileComesOrGoes ==
    /\ present' \in SUBSET Books
    /\ UNCHANGED <<taskVars, runVars, listed, status, earned, overtaken>>

\* The server ends and starts again: tasks are kept in memory only.
RestartServer ==
    /\ state' = [r \in Runs |-> IF Active(state, r) THEN "lost" ELSE state[r]]
    /\ shown' = [f \in Books |-> 0] /\ queuedRuns' = {}
    /\ running' = 0 /\ at' = "idle"
    /\ UNCHANGED <<made, about, told, late, against, reread, rowVars>>

VerifyNext ==
    \/ \E f \in Books : StartVerify(f) \/ CancelVerify(f) \/ \E l \in Lists : InspectFile(f, l)
    \/ \E r \in Runs : NextVerify(r)
    \/ OpenFile \/ EndVerify \/ FileComesOrGoes \/ RestartServer
    \/ \E verdict \in {"unverified", "ok", "partial", "bad"} : StoreStatus(verdict)

VerifySpec == VerifyInit /\ [][VerifyNext]_verifyVars

--------------------------------------------------------------------------------
(* Properties.                                                                  *)

\* A verification that is not over is the one its file shows, so a person can cancel it, and it
\* waits in the queue or is the one that runs: none is left behind, and no file has two.
EveryTaskIsHeld ==
    \A r \in Asked : Active(state, r) =>
        /\ shown[about[r]] = r
        /\ state[r] = "queued" => r \in queuedRuns
        /\ state[r] = "running" => running = r

\* A verification that is over stays as it ended, whatever its run still does.
OutcomesStand ==
    \A r \in Asked : state[r] \in {"done", "failed", "cancelled"} => state'[r] = state[r]

\* What is remembered of finished verifications is bounded.
FewAreKept == Cardinality(Finished(shown, state)) <= KeptTasks

\* A verify status is about the content list the file has, unless the file was inspected while it
\* was hashed.
StatusIsEarned ==
    \A f \in Books \ overtaken : status[f] # "unverified" => earned[f] = listed[f]

\* The last event of a file was of the verification it shows, and of its state: the pages show
\* what the server has, unless a cancelled run opened its file after another was asked for.
PagesAreTold ==
    \A f \in Books \ late :
        shown[f] # 0 => told[f] = [run |-> shown[f], state |-> state[shown[f]]]

================================================================================
