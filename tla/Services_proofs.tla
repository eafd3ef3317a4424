---------------------------- MODULE Services_proofs ----------------------------
(***************************************************************************)
(* Theorems of VerifyQueue, Titledb, AppUpdate, LivePage, UiThread,        *)
(* Desktop, SaveRestore and DeviceEvents.                                  *)
(***************************************************************************)
EXTENDS VerifyQueue, Titledb, AppUpdate, LivePage, UiThread, Desktop, SaveRestore, DeviceEvents, FiniteSetTheorems, WellFoundedInduction, TLAPS

--------------------------------------------------------------------------------
(* For all of them.                                                             *)

\* A set of numbers none of which is above a bound has a greatest one.
LEMMA BoundedHasGreatest ==
    ASSUME NEW S, S \subseteq Int, S # {}, NEW N \in Int, \A x \in S : x <= N
    PROVE  \E x \in S : \A y \in S : y <= x
<1> DEFINE T == {N - x : x \in S}
<1> DEFINE R == {ss \in Nat \X Nat : ss[1] < ss[2]}
<1>1. T \subseteq Nat /\ T # {}
  <2>1. \A x \in S : N - x \in Nat OBVIOUS
  <2>2. QED BY <2>1
<1>2. IsWellFoundedOn(R, Nat) BY NatLessThanWellFounded DEF OpToRel
<1> HIDE DEF T
<1>3. PICK m \in T : \A n \in T : ~ (<<n, m>> \in R) BY <1>1, <1>2, WFMin
<1>4. \A n \in T : ~(n < m)
  <2>1. SUFFICES ASSUME NEW n \in T, n < m PROVE FALSE OBVIOUS
  <2>2. <<n, m>> \in R BY <2>1, <1>1
  <2>3. QED BY <2>2, <1>3
<1> USE DEF T
<1>5. PICK x \in S : m = N - x OBVIOUS
<1>6. \A y \in S : y <= x
  <2>1. SUFFICES ASSUME NEW y \in S, y > x PROVE FALSE OBVIOUS
  <2>2. N - y \in T /\ N - y < m BY <2>1, <1>5
  <2>3. QED BY <2>2, <1>4
<1>7. QED BY <1>6

--------------------------------------------------------------------------------
(* VerifyQueue.                                                                 *)

\* Where a run stands, and what the tasks and the queue are about.
VerifyLinks ==
    /\ running = 0 <=> at = "idle"
    /\ running # 0 => state[running] \in {"running", "cancelled"}
    /\ \A r \in queuedRuns : state[r] \in {"queued", "cancelled"}
    /\ \A f \in Books : shown[f] # 0 => about[shown[f]] = f
    /\ at = "hashing" /\ ~reread => against = listed[about[running]]

VerifyInv ==
    /\ VerifyTypeOK /\ VerifyLinks
    /\ EveryTaskIsHeld /\ FewAreKept /\ StatusIsEarned /\ PagesAreTold

\* What trimming leaves: each file shows what it did or nothing, what is active stays, and few
\* finished tasks are kept.
LEMMA TrimsLeaves ==
    ASSUME VerifySized, NEW s, NEW st, NEW s2, s \in [Books -> Nat], Trims(s, st, s2)
    PROVE  /\ s2 \in [Books -> Nat]
           /\ \A f \in Books : s2[f] = s[f] \/ (s2[f] = 0 /\ ~Active(st, s[f]))
           /\ Cardinality(Finished(s2, st)) <= KeptTasks
<1>1. PICK gone \in SUBSET Finished(s, st) :
         /\ Cardinality(Finished(s, st) \ gone) <= KeptTasks
         /\ s2 = [f \in Books |-> IF f \in gone THEN 0 ELSE s[f]]
  BY DEF Trims
<1>2. Finished(s2, st) = Finished(s, st) \ gone BY <1>1 DEF Finished, Active
<1>3. QED BY <1>1, <1>2 DEF Finished

LEMMA VerifyInitially == ASSUME VerifySized, VerifyInit PROVE VerifyInv
<1>1. Finished(shown, state) = {} BY DEF VerifyInit, Finished
<1>2. FewAreKept BY <1>1, FS_EmptySet DEF FewAreKept, VerifySized
<1>3. Asked = {} BY DEF VerifyInit, Asked
<1>4. VerifyTypeOK BY <1>3 DEF VerifyInit, VerifyTypeOK, VerifyStates, Lists
<1>5. VerifyLinks /\ EveryTaskIsHeld /\ StatusIsEarned /\ PagesAreTold
  BY <1>3 DEF VerifyInit, VerifyLinks, EveryTaskIsHeld, StatusIsEarned, PagesAreTold
<1>6. QED BY <1>2, <1>4, <1>5 DEF VerifyInv

\* A run whose state is stored again, with what it tells and what is then trimmed.
LEMMA FinishKeeps ==
    ASSUME VerifySized, VerifyInv, NEW r \in Asked, NEW st \in {"done", "failed", "cancelled"},
           Active(state, r), FinishVerify(r, st),
           UNCHANGED <<made, about>>
    PROVE  /\ state' \in [Runs -> VerifyStates] /\ shown' \in [Books -> Asked \cup {0}]
           /\ told' \in [Books -> [run : Asked \cup {0}, state : VerifyStates]]
           /\ late' \subseteq Books
           /\ \A q \in Runs : q # r => state'[q] = state[q]
           /\ state'[r] = st
           /\ \A f \in Books : shown'[f] # 0 => shown'[f] = shown[f]
           /\ \A q \in Asked : Active(state', q) => q # r /\ Active(state, q) /\ shown'[about[q]] = q
           /\ FewAreKept' /\ PagesAreTold'
<1>1. r \in Runs /\ r # 0 /\ about[r] \in Books /\ shown[about[r]] = r
  BY DEF VerifyInv, VerifyTypeOK, EveryTaskIsHeld, Active, Asked, VerifySized
<1>2. state' = [state EXCEPT ![r] = st] BY DEF FinishVerify
<1>3. Asked \subseteq Nat /\ shown \in [Books -> Nat]
  BY DEF VerifyInv, VerifyTypeOK, Asked
<1>4. /\ shown' \in [Books -> Nat]
      /\ \A f \in Books : shown'[f] = shown[f] \/ (shown'[f] = 0 /\ ~Active(state', shown[f]))
      /\ Cardinality(Finished(shown', state')) <= KeptTasks
  BY <1>3, TrimsLeaves DEF FinishVerify
<1>5. shown' \in [Books -> Asked \cup {0}]
  BY <1>4 DEF VerifyInv, VerifyTypeOK
<1>6. FewAreKept' BY <1>4 DEF FewAreKept, Finished
<1>7. state' \in [Runs -> VerifyStates]
  BY <1>1, <1>2 DEF VerifyInv, VerifyTypeOK, VerifyStates
<1>8. told' = [told EXCEPT ![about[r]] = [run |-> r, state |-> st]] /\ late' = late \ {about[r]}
  BY <1>1 DEF FinishVerify, Tells
<1>9. told' \in [Books -> [run : Asked \cup {0}, state : VerifyStates]] /\ late' \subseteq Books
  BY <1>1, <1>8 DEF VerifyInv, VerifyTypeOK, VerifyStates
<1>10. ASSUME NEW q \in Asked, Active(state', q)
       PROVE  q # r /\ Active(state, q) /\ shown'[about[q]] = q
  <2>1. q \in Runs BY DEF VerifyInv, VerifyTypeOK
  <2>2. q # r BY <1>10, <1>1, <1>2 DEF Active, VerifyInv, VerifyTypeOK
  <2>3. Active(state, q) BY <1>10, <2>1, <2>2, <1>2 DEF Active, VerifyInv, VerifyTypeOK
  <2>4. shown[about[q]] = q /\ about[q] \in Books
    BY <2>3 DEF VerifyInv, EveryTaskIsHeld, VerifyTypeOK
  <2>5. QED BY <2>2, <2>3, <2>4, <1>4, <1>10
<1>11. PagesAreTold'
  <2>1. SUFFICES ASSUME NEW f \in Books \ late', shown'[f] # 0
                 PROVE  told'[f] = [run |-> shown'[f], state |-> state'[shown'[f]]]
    BY DEF PagesAreTold
  <2>2. shown'[f] = shown[f] BY <1>4, <2>1
  <2>3. CASE f = about[r]
    BY <2>3, <2>2, <1>1, <1>2, <1>8 DEF VerifyInv, VerifyTypeOK
  <2>4. CASE f # about[r]
    <3>1. about[shown[f]] = f BY <2>1, <2>2 DEF VerifyInv, VerifyLinks
    <3>2. shown[f] # r BY <3>1, <2>4
    <3>3. shown[f] \in Runs BY <2>1, <2>2 DEF VerifyInv, VerifyTypeOK
    <3>4. state'[shown[f]] = state[shown[f]] BY <3>2, <3>3, <1>2 DEF VerifyInv, VerifyTypeOK
    <3>5. f \notin late BY <2>1, <2>4, <1>8
    <3>6. told'[f] = told[f] BY <2>4, <1>8, <2>1 DEF VerifyInv, VerifyTypeOK
    <3>7. QED BY <3>4, <3>5, <3>6, <2>1, <2>2 DEF VerifyInv, PagesAreTold
  <2>5. QED BY <2>3, <2>4
<1>12. \A q \in Runs : q # r => state'[q] = state[q] BY <1>2 DEF VerifyInv, VerifyTypeOK
<1>13. state'[r] = st BY <1>1, <1>2 DEF VerifyInv, VerifyTypeOK
<1>14. \A f \in Books : shown'[f] # 0 => shown'[f] = shown[f] BY <1>4
<1>15. QED BY <1>5, <1>6, <1>7, <1>9, <1>10, <1>11, <1>12, <1>13, <1>14

LEMMA StartVerifyKeeps ==
    ASSUME VerifySized, VerifyInv, NEW f \in Books, StartVerify(f) PROVE VerifyInv'
<1> DEFINE r == made + 1
<1>1. /\ r \in Runs /\ ~Active(state, shown[f])
      /\ made' = r /\ queuedRuns' = queuedRuns \cup {r}
      /\ about' = [about EXCEPT ![r] = f] /\ state' = [state EXCEPT ![r] = "queued"]
      /\ Trims([shown EXCEPT ![f] = r], state', shown')
      /\ told' = [told EXCEPT ![f] = [run |-> r, state |-> "queued"]] /\ late' = late \ {f}
      /\ UNCHANGED <<runVars, rowVars>>
  BY DEF StartVerify
<1>2. Asked' = Asked \cup {r} /\ r \notin Asked /\ r # 0 /\ r \in Nat /\ Asked \subseteq Nat
  <2>1. made \in Nat /\ made' = made + 1 BY <1>1 DEF VerifyInv, VerifyTypeOK
  <2>2. Asked = 1..made /\ Asked' = 1..(made + 1) BY <2>1 DEF Asked
  <2>3. QED BY <2>1, <2>2
<1> DEFINE s == [shown EXCEPT ![f] = r]
<1>3. s \in [Books -> Nat]
  <2>1. shown \in [Books -> Asked \cup {0}] BY DEF VerifyInv, VerifyTypeOK
  <2>2. Asked \cup {0} \subseteq Nat BY <1>2
  <2>3. \A g \in Books : shown[g] \in Nat BY <2>1, <2>2
  <2>4. shown = [g \in Books |-> shown[g]] BY <2>1
  <2>5. QED BY <1>2, <2>3, <2>4
<1>4. /\ shown' \in [Books -> Nat]
      /\ \A g \in Books : shown'[g] = s[g] \/ (shown'[g] = 0 /\ ~Active(state', s[g]))
      /\ Cardinality(Finished(shown', state')) <= KeptTasks
  <2>1. Trims(s, state', shown') BY <1>1
  <2>2. QED BY <2>1, <1>3, TrimsLeaves
<1>5. \A q \in Asked : state'[q] = state[q] /\ about'[q] = about[q]
  BY <1>1, <1>2 DEF VerifyInv, VerifyTypeOK
<1>6. state'[r] = "queued" /\ about'[r] = f BY <1>1 DEF VerifyInv, VerifyTypeOK
<1>7. shown'[f] = r
  <2>1. s[f] = r BY DEF VerifyInv, VerifyTypeOK
  <2>2. Active(state', r) BY <1>6, <1>2 DEF Active
  <2>3. QED BY <2>1, <2>2, <1>4
<1>8. \A g \in Books : g # f => shown'[g] = shown[g] \/ shown'[g] = 0
  BY <1>4 DEF VerifyInv, VerifyTypeOK
<1>9. shown' \in [Books -> Asked' \cup {0}]
  BY <1>2, <1>4, <1>7, <1>8 DEF VerifyInv, VerifyTypeOK
<1>10. VerifyTypeOK'
  <2>1. made' \in Nat /\ Asked' \subseteq Runs
    BY <1>1, <1>2 DEF VerifyInv, VerifyTypeOK
  <2>2. /\ about' \in [Runs -> Books \cup {"none"}] /\ state' \in [Runs -> VerifyStates]
        /\ \A q \in Runs : q \in Asked' <=> state'[q] # "unmade"
    BY <1>1, <1>2 DEF VerifyInv, VerifyTypeOK, VerifyStates
  <2>3. \A q \in Asked' : about'[q] \in Books
    BY <1>2, <1>5, <1>6 DEF VerifyInv, VerifyTypeOK
  <2>4. queuedRuns' \subseteq Asked' /\ late' \subseteq Books
    BY <1>1, <1>2 DEF VerifyInv, VerifyTypeOK
  <2>5. told' \in [Books -> [run : Asked' \cup {0}, state : VerifyStates]]
    BY <1>1, <1>2 DEF VerifyInv, VerifyTypeOK, VerifyStates
  <2>6. running' \in Asked' \cup {0}
    BY <1>1, <1>2 DEF VerifyInv, VerifyTypeOK, runVars
  <2>7. QED BY <2>1, <2>2, <2>3, <2>4, <2>5, <2>6, <1>9, <1>1
            DEF VerifyInv, VerifyTypeOK, runVars, rowVars
<1>11. VerifyLinks'
  <2>1. running' # 0 => running \in Asked /\ running' = running
    BY <1>1 DEF VerifyInv, VerifyTypeOK, runVars
  <2>2. running' # 0 => state'[running'] \in {"running", "cancelled"}
    BY <2>1, <1>5 DEF VerifyInv, VerifyLinks
  <2>3. \A q \in queuedRuns' : state'[q] \in {"queued", "cancelled"}
    BY <1>1, <1>5, <1>6 DEF VerifyInv, VerifyLinks, VerifyTypeOK
  <2>4. \A g \in Books : shown'[g] # 0 => about'[shown'[g]] = g
    BY <1>5, <1>6, <1>7, <1>8 DEF VerifyInv, VerifyLinks, VerifyTypeOK
  <2>5. at' = "hashing" /\ ~reread' => against' = listed'[about'[running']]
    <3>1. at' = at /\ reread' = reread /\ against' = against /\ listed' = listed
          /\ running' = running
      BY <1>1 DEF runVars, rowVars
    <3>2. at = "hashing" => about'[running] = about[running]
      BY <2>1, <3>1, <1>5 DEF VerifyInv, VerifyLinks
    <3>3. QED BY <3>1, <3>2 DEF VerifyInv, VerifyLinks
  <2>6. running' = 0 <=> at' = "idle" BY <1>1 DEF VerifyInv, VerifyLinks, runVars
  <2>7. QED BY <2>2, <2>3, <2>4, <2>5, <2>6 DEF VerifyLinks
<1>12. EveryTaskIsHeld'
  <2>1. SUFFICES ASSUME NEW q \in Asked', Active(state', q)
                 PROVE  /\ shown'[about'[q]] = q
                        /\ state'[q] = "queued" => q \in queuedRuns'
                        /\ state'[q] = "running" => running' = q
    BY DEF EveryTaskIsHeld
  <2>2. CASE q = r BY <2>2, <1>1, <1>6, <1>7
  <2>3. CASE q # r
    <3>1. q \in Asked /\ Active(state, q) BY <2>1, <2>3, <1>2, <1>5 DEF Active
    <3>2. shown[about[q]] = q /\ about[q] \in Books
      BY <3>1 DEF VerifyInv, EveryTaskIsHeld, VerifyTypeOK
    <3>3. about[q] # f BY <3>1, <3>2, <1>1
    <3>4. s[about[q]] = q BY <3>2, <3>3 DEF VerifyInv, VerifyTypeOK
    <3>5. shown'[about[q]] = q BY <3>2, <3>4, <1>4, <2>1
    <3>6. QED BY <3>1, <3>5, <1>1, <1>5 DEF VerifyInv, EveryTaskIsHeld, runVars
  <2>4. QED BY <2>2, <2>3
<1>13. FewAreKept' BY <1>4 DEF FewAreKept, Finished
<1>14. StatusIsEarned' BY <1>1 DEF VerifyInv, StatusIsEarned, rowVars
<1>15. PagesAreTold'
  <2>1. SUFFICES ASSUME NEW g \in Books \ late', shown'[g] # 0
                 PROVE  told'[g] = [run |-> shown'[g], state |-> state'[shown'[g]]]
    BY DEF PagesAreTold
  <2>2. CASE g = f BY <2>2, <1>1, <1>6, <1>7 DEF VerifyInv, VerifyTypeOK
  <2>3. CASE g # f
    <3>1. shown'[g] = shown[g] /\ g \notin late /\ told'[g] = told[g]
      BY <2>1, <2>3, <1>8, <1>1 DEF VerifyInv, VerifyTypeOK
    <3>2. state'[shown[g]] = state[shown[g]]
      BY <3>1, <2>1, <1>5 DEF VerifyInv, VerifyTypeOK
    <3>3. QED BY <3>1, <3>2, <2>1 DEF VerifyInv, PagesAreTold
  <2>4. QED BY <2>2, <2>3
<1>16. QED BY <1>10, <1>11, <1>12, <1>13, <1>14, <1>15 DEF VerifyInv

\* The rest of the invariant, when an active run ends as st and the run under way may end too.
LEMMA FinishedRunKeeps ==
    ASSUME VerifySized, VerifyInv, NEW r \in Asked, NEW st \in {"done", "failed", "cancelled"},
           Active(state, r), FinishVerify(r, st),
           UNCHANGED <<made, about, queuedRuns, against, reread, rowVars>>,
           \/ UNCHANGED <<running, at>> /\ st = "cancelled"
           \/ running = r /\ running' = 0 /\ at' = "idle"
    PROVE  VerifyInv'
<1>1. /\ state' \in [Runs -> VerifyStates] /\ shown' \in [Books -> Asked \cup {0}]
      /\ told' \in [Books -> [run : Asked \cup {0}, state : VerifyStates]]
      /\ late' \subseteq Books
      /\ \A q \in Runs : q # r => state'[q] = state[q]
      /\ state'[r] = st
      /\ \A f \in Books : shown'[f] # 0 => shown'[f] = shown[f]
      /\ \A q \in Asked : Active(state', q) => q # r /\ Active(state, q) /\ shown'[about[q]] = q
      /\ FewAreKept' /\ PagesAreTold'
  BY FinishKeeps
<1>2. Asked' = Asked /\ made' = made /\ about' = about /\ queuedRuns' = queuedRuns BY DEF Asked
<1>3. r \in Runs /\ state[r] # "unmade" BY DEF VerifyInv, VerifyTypeOK
<1>4. VerifyTypeOK'
  <2>1. \A q \in Runs : q \in Asked' <=> state'[q] # "unmade"
    BY <1>1, <1>2, <1>3 DEF VerifyInv, VerifyTypeOK
  <2>2. running' \in Asked' \cup {0} /\ at' \in {"idle", "opening", "hashing", "stored"}
    BY <1>2 DEF VerifyInv, VerifyTypeOK
  <2>3. QED BY <1>1, <1>2, <2>1, <2>2 DEF VerifyInv, VerifyTypeOK, rowVars
<1>5. VerifyLinks'
  <2>1. running' # 0 => state'[running'] \in {"running", "cancelled"}
    BY <1>1, <1>2 DEF VerifyInv, VerifyLinks, VerifyTypeOK
  <2>2. running' = 0 <=> at' = "idle" BY DEF VerifyInv, VerifyLinks
  <2>3. \A q \in queuedRuns' : state'[q] \in {"queued", "cancelled"}
    <3>1. SUFFICES ASSUME NEW q \in queuedRuns PROVE state'[q] \in {"queued", "cancelled"} BY <1>2
    <3>2. q \in Runs /\ state[q] \in {"queued", "cancelled"}
      BY DEF VerifyInv, VerifyLinks, VerifyTypeOK
    <3>3. q = r => st = "cancelled"
      BY <3>2 DEF VerifyInv, VerifyLinks, VerifyTypeOK, Active
    <3>4. QED BY <3>2, <3>3, <1>1
  <2>4. \A f \in Books : shown'[f] # 0 => about'[shown'[f]] = f
    BY <1>1, <1>2 DEF VerifyInv, VerifyLinks
  <2>5. at' = "hashing" /\ ~reread' => against' = listed'[about'[running']]
    BY <1>2 DEF VerifyInv, VerifyLinks, rowVars
  <2>6. QED BY <2>1, <2>2, <2>3, <2>4, <2>5 DEF VerifyLinks
<1>6. EveryTaskIsHeld'
  <2>1. SUFFICES ASSUME NEW q \in Asked, Active(state', q)
                 PROVE  /\ shown'[about[q]] = q
                        /\ state'[q] = "queued" => q \in queuedRuns
                        /\ state'[q] = "running" => running' = q
    BY <1>2 DEF EveryTaskIsHeld
  <2>2. q # r /\ Active(state, q) /\ shown'[about[q]] = q /\ state'[q] = state[q]
    BY <2>1, <1>1 DEF VerifyInv, VerifyTypeOK
  <2>3. QED BY <2>2 DEF VerifyInv, EveryTaskIsHeld
<1>7. StatusIsEarned' BY DEF VerifyInv, StatusIsEarned, rowVars
<1>8. QED BY <1>1, <1>4, <1>5, <1>6, <1>7 DEF VerifyInv

LEMMA NextVerifyKeeps ==
    ASSUME VerifySized, VerifyInv, NEW r \in Runs, NextVerify(r) PROVE VerifyInv'
<1>1. /\ r \in Asked /\ r # 0 /\ running = 0 /\ at = "idle"
      /\ about[r] \in Books /\ state[r] \in {"queued", "cancelled"}
  <2>1. r \in queuedRuns /\ running = 0 BY DEF NextVerify
  <2>2. r # 0 BY <2>1 DEF VerifyInv, VerifyTypeOK, Asked
  <2>3. QED BY <2>1, <2>2 DEF VerifyInv, VerifyTypeOK, VerifyLinks
<1>2. UNCHANGED <<made, about, shown, against, reread, rowVars>> /\ queuedRuns' = queuedRuns \ {r}
  BY DEF NextVerify, runVars
<1>3. Asked' = Asked BY <1>2 DEF Asked
<1>4. CASE state[r] = "cancelled"
  <2>1. UNCHANGED <<state, told, late, running, at>> BY <1>4 DEF NextVerify, runVars
  <2>2. VerifyTypeOK' BY <1>2, <1>3, <2>1 DEF VerifyInv, VerifyTypeOK, rowVars
  <2>3. VerifyLinks' BY <1>2, <2>1 DEF VerifyInv, VerifyLinks, rowVars
  <2>4. EveryTaskIsHeld' BY <1>2, <1>3, <1>4, <2>1 DEF VerifyInv, EveryTaskIsHeld, Active
  <2>5. FewAreKept' /\ StatusIsEarned' /\ PagesAreTold'
    BY <1>2, <2>1 DEF VerifyInv, FewAreKept, Finished, Active, StatusIsEarned, PagesAreTold, rowVars
  <2>6. QED BY <2>2, <2>3, <2>4, <2>5 DEF VerifyInv
<1>5. CASE state[r] = "queued"
  <2>1. /\ state' = [state EXCEPT ![r] = "running"] /\ running' = r /\ at' = "opening"
        /\ told' = [told EXCEPT ![about[r]] = [run |-> r, state |-> "running"]]
        /\ late' = IF shown[about[r]] = r THEN late \ {about[r]} ELSE late \cup {about[r]}
    BY <1>5 DEF NextVerify, Tells
  <2>2. shown[about[r]] = r
    BY <1>1, <1>5 DEF VerifyInv, EveryTaskIsHeld, Active
  <2>3. \A q \in Runs : state'[q] = IF q = r THEN "running" ELSE state[q]
    BY <2>1 DEF VerifyInv, VerifyTypeOK
  <2>4. VerifyTypeOK'
    <3>1. state' \in [Runs -> VerifyStates] BY <2>1 DEF VerifyInv, VerifyTypeOK, VerifyStates
    <3>2. told' \in [Books -> [run : Asked \cup {0}, state : VerifyStates]] /\ late' \subseteq Books
      BY <1>1, <2>1 DEF VerifyInv, VerifyTypeOK, VerifyStates
    <3>3. \A q \in Runs : q \in Asked' <=> state'[q] # "unmade"
      BY <1>1, <1>3, <2>3 DEF VerifyInv, VerifyTypeOK
    <3>4. queuedRuns' \subseteq Asked' /\ running' \in Asked' \cup {0}
      BY <1>1, <1>2, <1>3, <2>1 DEF VerifyInv, VerifyTypeOK
    <3>5. QED BY <1>2, <1>3, <2>1, <3>1, <3>2, <3>3, <3>4 DEF VerifyInv, VerifyTypeOK, rowVars
  <2>5. VerifyLinks'
    <3>1. \A q \in queuedRuns' : state'[q] \in {"queued", "cancelled"}
      BY <1>2, <2>3 DEF VerifyInv, VerifyLinks, VerifyTypeOK
    <3>2. state'[running'] \in {"running", "cancelled"} /\ running' # 0 /\ at' = "opening"
      BY <1>1, <2>1, <2>3
    <3>3. \A f \in Books : shown'[f] # 0 => about'[shown'[f]] = f
      BY <1>2 DEF VerifyInv, VerifyLinks
    <3>4. QED BY <3>1, <3>2, <3>3 DEF VerifyLinks
  <2>6. EveryTaskIsHeld'
    <3>1. SUFFICES ASSUME NEW q \in Asked, Active(state', q)
                   PROVE  /\ shown[about[q]] = q
                          /\ state'[q] = "queued" => q \in queuedRuns'
                          /\ state'[q] = "running" => r = q
      BY <1>2, <1>3, <2>1 DEF EveryTaskIsHeld
    <3>2. q \in Runs /\ (q # r => Active(state, q))
      BY <3>1, <2>3 DEF VerifyInv, VerifyTypeOK, Active
    <3>3. CASE q = r BY <3>3, <2>2, <2>3, <3>2
    <3>4. CASE q # r
      <4>1. shown[about[q]] = q /\ (state[q] = "queued" => q \in queuedRuns) /\ state[q] # "running"
        BY <3>2, <3>4, <1>1 DEF VerifyInv, EveryTaskIsHeld, Active
      <4>2. QED BY <4>1, <3>2, <3>4, <2>3, <1>2
    <3>5. QED BY <3>3, <3>4
  <2>7. Finished(shown', state') = Finished(shown, state)
    <3>1. \A f \in Books : shown[f] # 0 => shown[f] \in Runs
      BY DEF VerifyInv, VerifyTypeOK
    <3>2. \A f \in Books : shown[f] # 0 => (Active(state', shown[f]) <=> Active(state, shown[f]))
      BY <3>1, <2>3, <1>5 DEF Active
    <3>3. QED BY <3>2, <1>2 DEF Finished
  <2>8. FewAreKept' BY <2>7, <1>2 DEF VerifyInv, FewAreKept
  <2>9. PagesAreTold'
    <3>1. SUFFICES ASSUME NEW f \in Books \ late', shown[f] # 0
                   PROVE  told'[f] = [run |-> shown[f], state |-> state'[shown[f]]]
      BY <1>2 DEF PagesAreTold
    <3>2. shown[f] \in Runs /\ about[shown[f]] = f
      BY <3>1 DEF VerifyInv, VerifyTypeOK, VerifyLinks
    <3>3. CASE f = about[r] BY <3>3, <2>1, <2>2, <2>3, <3>2 DEF VerifyInv, VerifyTypeOK
    <3>4. CASE f # about[r]
      <4>1. told'[f] = told[f] /\ f \notin late /\ shown[f] # r
        BY <3>1, <3>2, <3>4, <2>1, <2>2 DEF VerifyInv, VerifyTypeOK
      <4>2. QED BY <4>1, <3>1, <3>2, <2>3 DEF VerifyInv, PagesAreTold
    <3>5. QED BY <3>3, <3>4
  <2>10. StatusIsEarned' BY <1>2 DEF VerifyInv, StatusIsEarned, rowVars
  <2>11. QED BY <2>4, <2>5, <2>6, <2>8, <2>9, <2>10 DEF VerifyInv
<1>6. QED BY <1>1, <1>4, <1>5

LEMMA OpenFileKeeps == ASSUME VerifySized, VerifyInv, OpenFile PROVE VerifyInv'
<1>1. /\ at = "opening" /\ at' = "hashing" /\ running' = running /\ reread' = FALSE
      /\ against' = listed[about[running]]
      /\ UNCHANGED <<made, about, state, shown, queuedRuns, rowVars>>
  BY DEF OpenFile
<1>2. /\ running \in Asked /\ running # 0 /\ running \in Runs /\ about[running] \in Books
      /\ Asked' = Asked /\ state[running] \in VerifyStates
  BY <1>1 DEF VerifyInv, VerifyTypeOK, VerifyLinks, Asked
<1>3. /\ told' \in [Books -> [run : Asked \cup {0}, state : VerifyStates]] /\ late' \subseteq Books
      /\ \A f \in Books \ late' :
            \/ f \notin late /\ told'[f] = told[f]
            \/ shown[f] = running /\ told'[f] = [run |-> running, state |-> state[running]]
  <2>1. CASE UNCHANGED <<told, late>> BY <2>1 DEF VerifyInv, VerifyTypeOK
  <2>2. CASE Tells(running, state[running])
    <3>1. /\ told' = [told EXCEPT ![about[running]] = [run |-> running, state |-> state[running]]]
          /\ late' = IF shown[about[running]] = running THEN late \ {about[running]}
                     ELSE late \cup {about[running]}
      BY <2>2 DEF Tells
    <3>2. told' \in [Books -> [run : Asked \cup {0}, state : VerifyStates]] /\ late' \subseteq Books
      BY <3>1, <1>2 DEF VerifyInv, VerifyTypeOK
    <3>3. QED BY <3>1, <3>2, <1>2 DEF VerifyInv, VerifyTypeOK
  <2>3. QED BY <2>1, <2>2 DEF OpenFile
<1>4. VerifyTypeOK' BY <1>1, <1>2, <1>3 DEF VerifyInv, VerifyTypeOK, rowVars
<1>5. VerifyLinks' BY <1>1, <1>2 DEF VerifyInv, VerifyLinks, rowVars
<1>6. EveryTaskIsHeld' BY <1>1, <1>2 DEF VerifyInv, EveryTaskIsHeld, Active
<1>7. FewAreKept' /\ StatusIsEarned'
  BY <1>1 DEF VerifyInv, FewAreKept, Finished, Active, StatusIsEarned, rowVars
<1>8. PagesAreTold' BY <1>1, <1>3 DEF VerifyInv, PagesAreTold
<1>9. QED BY <1>4, <1>5, <1>6, <1>7, <1>8 DEF VerifyInv

\* A step that changes no task and no event leaves what is said of them.
LEMMA TasksStand ==
    ASSUME VerifyInv, UNCHANGED taskVars, running' = running
    PROVE  EveryTaskIsHeld' /\ FewAreKept' /\ PagesAreTold' /\ Asked' = Asked
<1>1. UNCHANGED <<made, about, state, shown, queuedRuns, told, late>> BY DEF taskVars
<1>2. QED BY <1>1 DEF VerifyInv, EveryTaskIsHeld, FewAreKept, Finished, Active, PagesAreTold, Asked

LEMMA StoreStatusKeeps ==
    ASSUME VerifySized, VerifyInv, NEW verdict \in {"unverified", "ok", "partial", "bad"},
           StoreStatus(verdict)
    PROVE  VerifyInv'
<1> DEFINE f == about[running]
<1>1. /\ at = "hashing" /\ at' = "stored"
      /\ status' = [status EXCEPT ![f] = verdict] /\ earned' = [earned EXCEPT ![f] = against]
      /\ overtaken' = IF reread THEN overtaken \cup {f} ELSE overtaken \ {f}
      /\ UNCHANGED <<taskVars, running, against, reread, present, listed>>
  BY DEF StoreStatus
<1>2. EveryTaskIsHeld' /\ FewAreKept' /\ PagesAreTold' /\ Asked' = Asked BY <1>1, TasksStand
<1>3. UNCHANGED <<made, about, state, shown, queuedRuns, told, late>> BY <1>1 DEF taskVars
<1>4. running # 0 /\ f \in Books BY <1>1 DEF VerifyInv, VerifyTypeOK, VerifyLinks
<1>5. VerifyTypeOK' BY <1>1, <1>2, <1>3, <1>4 DEF VerifyInv, VerifyTypeOK
<1>6. VerifyLinks' BY <1>1, <1>3 DEF VerifyInv, VerifyLinks
<1>7. StatusIsEarned' BY <1>1, <1>4 DEF VerifyInv, VerifyTypeOK, VerifyLinks, StatusIsEarned
<1>8. QED BY <1>2, <1>5, <1>6, <1>7 DEF VerifyInv

LEMMA EndVerifyKeeps == ASSUME VerifySized, VerifyInv, EndVerify PROVE VerifyInv'
<1>1. /\ at # "idle" /\ running' = 0 /\ at' = "idle"
      /\ UNCHANGED <<against, reread, made, about, queuedRuns, rowVars>>
  BY DEF EndVerify, EndRun
<1>2. running # 0 /\ running \in Asked /\ state[running] \in {"running", "cancelled"}
  BY <1>1 DEF VerifyInv, VerifyTypeOK, VerifyLinks
<1>3. CASE state[running] = "running"
  <2> DEFINE st == IF at = "stored" THEN "done" ELSE "failed"
  <2>1. FinishVerify(running, st) BY <1>3 DEF EndVerify
  <2>2. Active(state, running) BY <1>2, <1>3 DEF Active
  <2>3. st \in {"done", "failed", "cancelled"} OBVIOUS
  <2>4. QED BY <1>1, <1>2, <2>1, <2>2, <2>3, FinishedRunKeeps
<1>4. CASE state[running] = "cancelled"
  <2>1. UNCHANGED <<state, shown, told, late>> BY <1>4 DEF EndVerify
  <2>2. Asked' = Asked BY <1>1 DEF Asked
  <2>3. VerifyTypeOK' BY <1>1, <2>1, <2>2 DEF VerifyInv, VerifyTypeOK, rowVars
  <2>4. VerifyLinks' BY <1>1, <2>1 DEF VerifyInv, VerifyLinks, rowVars
  <2>5. EveryTaskIsHeld' BY <1>1, <1>4, <2>1, <2>2 DEF VerifyInv, EveryTaskIsHeld, Active
  <2>6. FewAreKept' /\ StatusIsEarned' /\ PagesAreTold'
    BY <1>1, <2>1 DEF VerifyInv, FewAreKept, Finished, Active, StatusIsEarned, PagesAreTold, rowVars
  <2>7. QED BY <2>3, <2>4, <2>5, <2>6 DEF VerifyInv
<1>5. QED BY <1>2, <1>3, <1>4

LEMMA RestartServerKeeps == ASSUME VerifySized, VerifyInv, RestartServer PROVE VerifyInv'
<1>1. /\ state' = [r \in Runs |-> IF Active(state, r) THEN "lost" ELSE state[r]]
      /\ shown' = [f \in Books |-> 0] /\ queuedRuns' = {} /\ running' = 0 /\ at' = "idle"
      /\ UNCHANGED <<made, about, told, late, against, reread, rowVars>>
  BY DEF RestartServer
<1>2. Asked' = Asked /\ Asked \subseteq Runs BY <1>1 DEF Asked, VerifyInv, VerifyTypeOK
<1>3. VerifyTypeOK'
  <2>1. state' \in [Runs -> VerifyStates] BY <1>1 DEF VerifyInv, VerifyTypeOK, VerifyStates
  <2>2. \A r \in Runs : r \in Asked' <=> state'[r] # "unmade"
    BY <1>1, <1>2 DEF VerifyInv, VerifyTypeOK, Active
  <2>3. QED BY <1>1, <1>2, <2>1, <2>2 DEF VerifyInv, VerifyTypeOK, rowVars
<1>4. VerifyLinks' BY <1>1 DEF VerifyLinks
<1>5. EveryTaskIsHeld'
  <2>1. \A r \in Runs : ~Active(state', r) BY <1>1 DEF Active
  <2>2. QED BY <2>1, <1>2 DEF EveryTaskIsHeld
<1>6. FewAreKept'
  <2>1. Finished(shown', state') = {} BY <1>1 DEF Finished
  <2>2. QED BY <2>1, FS_EmptySet DEF FewAreKept, Finished, VerifySized
<1>7. PagesAreTold' BY <1>1 DEF PagesAreTold
<1>8. StatusIsEarned' BY <1>1 DEF VerifyInv, StatusIsEarned, rowVars
<1>9. QED BY <1>3, <1>4, <1>5, <1>6, <1>7, <1>8 DEF VerifyInv

LEMMA VerifyStep ==
    ASSUME VerifySized, VerifyInv, [VerifyNext]_verifyVars PROVE VerifyInv' /\ OutcomesStand
<1>1. ASSUME NEW f \in Books, StartVerify(f) PROVE VerifyInv' /\ OutcomesStand
  <2>1. VerifyInv' BY <1>1, StartVerifyKeeps
  <2>2. made + 1 \notin Asked BY DEF VerifyInv, VerifyTypeOK, Asked
  <2>3. OutcomesStand BY <1>1, <2>2 DEF StartVerify, OutcomesStand, VerifyInv, VerifyTypeOK
  <2>4. QED BY <2>1, <2>3
<1>2. ASSUME NEW f \in Books, CancelVerify(f) PROVE VerifyInv' /\ OutcomesStand
  <2>1. shown[f] \in Asked /\ Active(state, shown[f]) /\ FinishVerify(shown[f], "cancelled")
    BY <1>2 DEF CancelVerify, VerifyInv, VerifyTypeOK, Active
  <2>2. UNCHANGED <<made, about, queuedRuns, running, at, against, reread, rowVars>>
    BY <1>2 DEF CancelVerify, runVars
  <2>3. VerifyInv' BY <2>1, <2>2, FinishedRunKeeps
  <2>4. OutcomesStand BY <2>1 DEF FinishVerify, Active, OutcomesStand, VerifyInv, VerifyTypeOK
  <2>5. QED BY <2>3, <2>4
<1>3. ASSUME NEW r \in Runs, NextVerify(r) PROVE VerifyInv' /\ OutcomesStand
  <2>1. VerifyInv' BY <1>3, NextVerifyKeeps
  <2>2. state[r] \in {"queued", "cancelled"} BY <1>3 DEF NextVerify, VerifyInv, VerifyLinks
  <2>3. OutcomesStand BY <1>3, <2>2 DEF NextVerify, OutcomesStand, VerifyInv, VerifyTypeOK
  <2>4. QED BY <2>1, <2>3
<1>4. CASE OpenFile BY <1>4, OpenFileKeeps DEF OpenFile, OutcomesStand
<1>5. CASE EndVerify
  <2>1. VerifyInv' BY <1>5, EndVerifyKeeps
  <2>2. running # 0 /\ running \in Asked /\ state[running] \in {"running", "cancelled"}
    BY <1>5 DEF EndVerify, VerifyInv, VerifyTypeOK, VerifyLinks
  <2>3. OutcomesStand
    BY <1>5, <2>2 DEF EndVerify, FinishVerify, OutcomesStand, VerifyInv, VerifyTypeOK
  <2>4. QED BY <2>1, <2>3
<1>6. ASSUME NEW verdict \in {"unverified", "ok", "partial", "bad"}, StoreStatus(verdict)
      PROVE VerifyInv' /\ OutcomesStand
  BY <1>6, StoreStatusKeeps DEF StoreStatus, taskVars, OutcomesStand
<1>7. ASSUME NEW f \in Books, NEW l \in Lists, InspectFile(f, l) PROVE VerifyInv' /\ OutcomesStand
  <2>1. EveryTaskIsHeld' /\ FewAreKept' /\ PagesAreTold' /\ Asked' = Asked
    BY <1>7, TasksStand DEF InspectFile
  <2>2. UNCHANGED <<made, about, state, shown, queuedRuns, told, late, running, at, against, present, earned>>
    BY <1>7 DEF InspectFile, taskVars
  <2>3. VerifyTypeOK'
    <3>1. reread' \in BOOLEAN BY <1>7 DEF InspectFile
    <3>2. QED BY <1>7, <2>1, <2>2, <3>1 DEF InspectFile, VerifyInv, VerifyTypeOK
  <2>4. VerifyLinks' BY <1>7, <2>2 DEF InspectFile, VerifyInv, VerifyTypeOK, VerifyLinks
  <2>5. StatusIsEarned' BY <1>7, <2>2 DEF InspectFile, VerifyInv, VerifyTypeOK, StatusIsEarned
  <2>6. OutcomesStand BY <2>2 DEF OutcomesStand
  <2>7. QED BY <2>1, <2>3, <2>4, <2>5, <2>6 DEF VerifyInv
<1>8. CASE FileComesOrGoes
  <2>1. EveryTaskIsHeld' /\ FewAreKept' /\ PagesAreTold' /\ Asked' = Asked
    BY <1>8, TasksStand DEF FileComesOrGoes, runVars
  <2>2. /\ UNCHANGED <<made, about, state, shown, queuedRuns, told, late, running, at, against, reread>>
        /\ UNCHANGED <<listed, status, earned, overtaken>> /\ present' \subseteq Books
    BY <1>8 DEF FileComesOrGoes, taskVars, runVars
  <2>3. VerifyTypeOK' BY <2>1, <2>2 DEF VerifyInv, VerifyTypeOK
  <2>4. VerifyLinks' /\ StatusIsEarned' /\ OutcomesStand
    BY <2>2 DEF VerifyInv, VerifyLinks, StatusIsEarned, OutcomesStand
  <2>5. QED BY <2>1, <2>3, <2>4 DEF VerifyInv
<1>9. CASE RestartServer
  BY <1>9, RestartServerKeeps DEF RestartServer, OutcomesStand, Active, VerifyInv, VerifyTypeOK
<1>10. CASE UNCHANGED verifyVars
  <2>1. UNCHANGED taskVars /\ UNCHANGED runVars /\ UNCHANGED rowVars BY <1>10 DEF verifyVars
  <2>2. EveryTaskIsHeld' /\ FewAreKept' /\ PagesAreTold' /\ Asked' = Asked
    BY <2>1, TasksStand DEF runVars
  <2>3. VerifyTypeOK' BY <2>1, <2>2 DEF VerifyInv, VerifyTypeOK, taskVars, runVars, rowVars
  <2>4. VerifyLinks' /\ StatusIsEarned' /\ OutcomesStand
    BY <2>1 DEF VerifyInv, VerifyLinks, StatusIsEarned, OutcomesStand, taskVars, runVars, rowVars
  <2>5. QED BY <2>2, <2>3, <2>4 DEF VerifyInv
<1>11. QED BY <1>1, <1>2, <1>3, <1>4, <1>5, <1>6, <1>7, <1>8, <1>9, <1>10 DEF VerifyNext

\* VerifyService: every verification that is not over is the one its file shows, queued or running,
\* so it can be cancelled and none is asked for twice; the finished ones kept are few; a stored
\* status is about the content list the file has, unless an inspection came in between; and the
\* pages were told what the file shows, unless a cancelled run opened its file late.
THEOREM VerificationsAreHeld ==
    ASSUME VerifySized
    PROVE  VerifySpec => [](VerifyTypeOK /\ EveryTaskIsHeld /\ FewAreKept /\ StatusIsEarned /\ PagesAreTold)
<1>1. VerifyInit => VerifyInv BY VerifyInitially
<1>2. VerifyInv /\ [VerifyNext]_verifyVars => VerifyInv' BY VerifyStep
<1>3. VerifyInv => VerifyTypeOK /\ EveryTaskIsHeld /\ FewAreKept /\ StatusIsEarned /\ PagesAreTold
  BY DEF VerifyInv
<1>4. QED BY <1>1, <1>2, <1>3, PTL DEF VerifySpec

\* And one that ended stays as it ended: a run that was cancelled never becomes done or failed,
\* though it goes on to open its file, tell its progress and store what it found.
THEOREM VerifyOutcomesStand == ASSUME VerifySized PROVE VerifySpec => [][OutcomesStand]_verifyVars
<1>1. VerifyInit => VerifyInv BY VerifyInitially
<1>2. VerifyInv /\ [VerifyNext]_verifyVars => VerifyInv' /\ OutcomesStand BY VerifyStep
<1>3. QED BY <1>1, <1>2, PTL DEF VerifySpec

--------------------------------------------------------------------------------
(* Titledb.                                                                     *)

\* What an import stores of a title.
LEMMA RowsAreNewest ==
    ASSUME TitledbSized, NEW es \in TitlesFiles \cup {<<>>}, NEW dated \in [TitleIds -> SUBSET (0..MaxVersion)]
    PROVE  /\ LatestRows(es, dated) \in [TitleIds -> Nat \cup {NoVersion, NoRow}]
           /\ ListedRows(es, dated) \in [TitleIds -> SUBSET Nat]
           /\ \A t \in TitleIds :
                 LET l == LatestRows(es, dated)[t]  vs == ListedRows(es, dated)[t]
                 IN  /\ l = NoRow \/ l = NoVersion => vs = {}
                     /\ l \in Nat => l \in vs /\ \A v \in vs : v <= l
<1>1. es \in Seq(Entries)
  <2>1. <<>> \in Seq(Entries) OBVIOUS
  <2>2. QED BY <2>1 DEF TitledbSized
<1>2. ASSUME NEW t \in TitleIds
      PROVE  EntryVersion(es, t) \in Nat \cup {NoVersion}
  <2> DEFINE ks == {k \in Kept(es, t) : es[k].version # NoVersion}
  <2>1. CASE ks = {} BY <2>1 DEF EntryVersion
  <2>2. CASE ks # {}
    <3>1. ks \subseteq Int /\ Len(es) \in Int /\ \A k \in ks : k <= Len(es)
      BY <1>1 DEF Kept
    <3>2. \E k \in ks : \A j \in ks : j <= k BY <3>1, <2>2, BoundedHasGreatest
    <3> DEFINE last == CHOOSE k \in ks : \A j \in ks : j <= k
    <3>3. last \in ks BY <3>2
    <3>4. last \in DOMAIN es BY <3>3 DEF Kept
    <3>5. es[last] \in Entries BY <3>4, <1>1
    <3>6. EntryVersion(es, t) = es[last].version BY <2>2 DEF EntryVersion
    <3>7. QED BY <3>5, <3>6 DEF Entries
  <2>3. QED BY <2>1, <2>2
<1>3. ASSUME NEW t \in TitleIds
      PROVE  /\ Newest(es, dated, t) \in dated[t] \cup {EntryVersion(es, t)}
             /\ Newest(es, dated, t) \in Nat \cup {NoVersion}
             /\ \A v \in dated[t] : v \in Nat /\ v <= Newest(es, dated, t)
  <2> DEFINE e == EntryVersion(es, t)
             vs == dated[t] \cup {e}
             N == IF e > MaxVersion THEN e ELSE MaxVersion
  <2>1. e \in Nat \cup {NoVersion} /\ MaxVersion \in Nat BY <1>2 DEF TitledbSized
  <2>2. e \in Int /\ NoVersion = -1 BY <2>1 DEF NoVersion
  <2>3. dated[t] \subseteq 0..MaxVersion OBVIOUS
  <2>4. vs \subseteq Int /\ vs # {} /\ N \in Int /\ \A x \in vs : x <= N
    BY <2>1, <2>2, <2>3
  <2>5. \E v \in vs : \A w \in vs : w <= v
    <3> HIDE DEF vs, N
    <3> QED BY <2>4, BoundedHasGreatest
  <2>6. Newest(es, dated, t) = CHOOSE v \in vs : \A w \in vs : w <= v BY DEF Newest
  <2>7. Newest(es, dated, t) \in vs /\ \A w \in vs : w <= Newest(es, dated, t) BY <2>5, <2>6
  <2>8. QED BY <2>1, <2>3, <2>7
<1>4. ASSUME NEW t \in TitleIds
      PROVE  /\ LatestRows(es, dated)[t] \in Nat \cup {NoVersion, NoRow}
             /\ ListedRows(es, dated)[t] \in SUBSET Nat
             /\ LatestRows(es, dated)[t] = NoRow \/ LatestRows(es, dated)[t] = NoVersion =>
                   ListedRows(es, dated)[t] = {}
             /\ LatestRows(es, dated)[t] \in Nat =>
                   /\ LatestRows(es, dated)[t] \in ListedRows(es, dated)[t]
                   /\ \A v \in ListedRows(es, dated)[t] : v <= LatestRows(es, dated)[t]
  <2>1. CASE Kept(es, t) = {} BY <2>1 DEF LatestRows, ListedRows, NoRow, NoVersion
  <2>2. CASE Kept(es, t) # {}
    <3> DEFINE n == Newest(es, dated, t)
    <3>1. LatestRows(es, dated)[t] = n /\ ListedRows(es, dated)[t] = dated[t] \cup ({n} \ {NoVersion})
      BY <2>2 DEF LatestRows, ListedRows
    <3>2. n \in Nat \cup {NoVersion} /\ \A v \in dated[t] : v \in Nat /\ v <= n BY <1>3
    <3> HIDE DEF n
    <3>3. CASE n = NoVersion
      <4>1. dated[t] = {} BY <3>2, <3>3 DEF NoVersion
      <4>2. QED BY <4>1, <3>1, <3>3 DEF NoVersion
    <3>4. CASE n \in Nat
      <4>1. n # NoVersion /\ n # NoRow BY <3>4 DEF NoVersion, NoRow
      <4>2. ListedRows(es, dated)[t] = dated[t] \cup {n} BY <4>1, <3>1
      <4>3. QED BY <4>1, <4>2, <3>1, <3>2, <3>4
    <3>5. QED BY <3>2, <3>3, <3>4
  <2>3. QED BY <2>1, <2>2
<1>5. LatestRows(es, dated) \in [TitleIds -> Nat \cup {NoVersion, NoRow}] BY <1>4 DEF LatestRows
<1>6. ListedRows(es, dated) \in [TitleIds -> SUBSET Nat] BY <1>4 DEF ListedRows
<1>7. QED BY <1>4, <1>5, <1>6

TitledbInv ==
    /\ TitledbTypeOK /\ LatestIsListed /\ ChangesAreTold /\ ImportsHaveCallers
    /\ TablesAreOfSources
    /\ import.at # "idle" =>
          /\ import.from \in Sources
          /\ ~setAnew => <<import.from, import.versionsFrom>> = <<tdSource, tdVersionsSource>>

LEMMA TitledbInitially == ASSUME TitledbSized, TitledbInit PROVE TitledbInv
<1>1. TitledbTypeOK BY DEF TitledbInit, TitledbTypeOK, NoImport, Imports, SourcePairs
<1>2. QED BY <1>1 DEF TitledbInit, TitledbInv, LatestIsListed, ChangesAreTold, ImportsHaveCallers,
                    TablesAreOfSources, NoImport, NoRow

LEMMA FillsKeeps ==
    ASSUME TitledbSized, TitledbInv, import.at # "idle", NEW es \in TitlesFiles \cup {<<>>},
           NEW dated \in [TitleIds -> SUBSET (0..MaxVersion)], Fills(es, dated)
    PROVE  TitledbInv'
<1>1. /\ tdLatest' = LatestRows(es, dated) /\ tdListed' = ListedRows(es, dated)
      /\ tdError' = "none" /\ tdFresh' = TRUE
      /\ asks' = [a \in Askers |-> IF asks[a] = "asked" THEN "ok" ELSE asks[a]] /\ import' = NoImport
      /\ filledFrom' = <<import.from, import.versionsFrom>> /\ reconfigured' = setAnew
      /\ untold' = TRUE /\ died' = FALSE
      /\ tdEnabled' = tdEnabled /\ tdSource' = tdSource /\ tdVersionsSource' = tdVersionsSource
      /\ setAnew' = setAnew
  BY DEF Fills, Answered, tdSettings
<1>2. /\ tdLatest' \in [TitleIds -> Nat \cup {NoVersion, NoRow}]
      /\ tdListed' \in [TitleIds -> SUBSET Nat] /\ LatestIsListed'
  BY <1>1, RowsAreNewest DEF LatestIsListed
<1>3. PICK a \in Askers : asks[a] = "asked" BY DEF TitledbInv, ImportsHaveCallers
<1>4. ChangesAreTold' BY <1>1, <1>3 DEF ChangesAreTold
<1>5. TitledbTypeOK'
  <2>1. asks' \in [Askers -> {"idle", "asked", "ok", "failed"}]
    BY <1>1 DEF TitledbInv, TitledbTypeOK
  <2>2. filledFrom' \in SourcePairs
    <3>1. import \in Imports BY DEF TitledbInv, TitledbTypeOK
    <3>2. import.from \in Sources /\ import.versionsFrom \in Sources \cup {"none"}
      BY <3>1 DEF TitledbInv, Imports
    <3>3. QED BY <1>1, <3>2 DEF SourcePairs
  <2>3. import' \in Imports
    BY <1>1 DEF NoImport, Imports
  <2>4. QED BY <1>1, <1>2, <2>1, <2>2, <2>3 DEF TitledbInv, TitledbTypeOK
<1>6. QED BY <1>1, <1>2, <1>4, <1>5
          DEF TitledbInv, ImportsHaveCallers, TablesAreOfSources, NoImport

\* A caller asks: it joins the import under way, begins one, or is answered at once.
LEMMA BeginsOrJoinsKeeps ==
    ASSUME TitledbSized, TitledbInv, NEW a \in Askers, asks[a] = "idle", BeginsOrJoins(a),
           UNCHANGED <<tdSettings, tdFresh, tdTables, filledFrom, reconfigured, untold, died>>
    PROVE  TitledbInv'
<1>1. UNCHANGED <<tdEnabled, tdSource, tdVersionsSource, tdFresh, tdLatest, tdListed, filledFrom,
                  reconfigured, untold, died>>
  BY DEF tdSettings, tdTables
<1>2. /\ \/ asks' = [asks EXCEPT ![a] = "asked"]
         \/ asks' = [asks EXCEPT ![a] = "failed"] /\ import.at = "idle" /\ UNCHANGED import
      /\ \/ UNCHANGED <<import, setAnew>> /\ tdError' \in {tdError, "no source"}
         \/ /\ import' = [at |-> "titles", from |-> tdSource, versionsFrom |-> tdVersionsSource,
                           titles |-> <<>>]
            /\ tdSource # "none" /\ setAnew' = FALSE /\ UNCHANGED tdError
            /\ asks' = [asks EXCEPT ![a] = "asked"]
  BY DEF BeginsOrJoins
<1>3. \A b \in Askers : asks'[b] = asks[b] \/ (b = a /\ asks'[b] \in {"asked", "failed"})
  BY <1>2 DEF TitledbInv, TitledbTypeOK
<1>4. TitledbTypeOK'
  <2>1. asks' \in [Askers -> {"idle", "asked", "ok", "failed"}]
    BY <1>2 DEF TitledbInv, TitledbTypeOK
  <2>2. import' \in Imports
    <3>1. CASE UNCHANGED import BY <3>1 DEF TitledbInv, TitledbTypeOK
    <3>2. CASE ~UNCHANGED import
      <4>1. import' = [at |-> "titles", from |-> tdSource, versionsFrom |-> tdVersionsSource,
                       titles |-> <<>>]
        BY <1>2, <3>2
      <4>2. tdSource \in Sources \cup {"none"} /\ tdVersionsSource \in Sources \cup {"none"}
        BY DEF TitledbInv, TitledbTypeOK
      <4>3. QED BY <4>1, <4>2 DEF Imports
    <3>3. QED BY <3>1, <3>2
  <2>3. tdError' \in {"none", "no source", "failed"} /\ setAnew' \in BOOLEAN
    BY <1>2 DEF TitledbInv, TitledbTypeOK
  <2>4. QED BY <1>1, <2>1, <2>2, <2>3 DEF TitledbInv, TitledbTypeOK
<1>5. ChangesAreTold'
  <2>1. CASE ~untold BY <2>1, <1>1 DEF ChangesAreTold
  <2>2. CASE died BY <2>2, <1>1 DEF ChangesAreTold
  <2>3. CASE untold /\ ~died
    <3>1. PICK b \in Askers : asks[b] = "ok" BY <2>3 DEF TitledbInv, ChangesAreTold
    <3>2. asks'[b] = "ok" BY <3>1, <1>3
    <3>3. QED BY <3>2 DEF ChangesAreTold
  <2>4. QED BY <2>1, <2>2, <2>3 DEF TitledbInv, TitledbTypeOK
<1>6. ImportsHaveCallers'
  <2>1. CASE asks' = [asks EXCEPT ![a] = "asked"]
    BY <2>1 DEF TitledbInv, TitledbTypeOK, ImportsHaveCallers
  <2>2. CASE import.at = "idle" /\ UNCHANGED import BY <2>2 DEF ImportsHaveCallers
  <2>3. QED BY <1>2, <2>1, <2>2
<1>7. TablesAreOfSources' /\ LatestIsListed'
  BY <1>1 DEF TitledbInv, TablesAreOfSources, LatestIsListed
<1>8. import'.at # "idle" =>
          /\ import'.from \in Sources
          /\ ~setAnew' => <<import'.from, import'.versionsFrom>> = <<tdSource', tdVersionsSource'>>
  <2>1. CASE UNCHANGED <<import, setAnew>> BY <2>1, <1>1 DEF TitledbInv
  <2>2. CASE ~UNCHANGED <<import, setAnew>>
    <3>1. /\ import' = [at |-> "titles", from |-> tdSource, versionsFrom |-> tdVersionsSource,
                        titles |-> <<>>]
          /\ tdSource # "none"
      BY <1>2, <2>2
    <3>2. tdSource \in Sources BY <3>1 DEF TitledbInv, TitledbTypeOK
    <3>3. QED BY <3>1, <3>2, <1>1
  <2>3. QED BY <2>1, <2>2
<1>9. QED BY <1>4, <1>5, <1>6, <1>7, <1>8 DEF TitledbInv

LEMMA TitledbStep ==
    ASSUME TitledbSized, TitledbInv, [TitledbNext]_tdVars PROVE TitledbInv' /\ FailuresKeepTables
<1> USE DEF FailuresKeepTables
<1>1. ASSUME NEW e \in BOOLEAN, NEW s \in Sources \cup {"none"}, NEW v \in Sources \cup {"none"},
             ConfigureTitledb(e, s, v)
      PROVE  TitledbInv' /\ FailuresKeepTables
  <2>1. /\ tdEnabled' = e /\ tdSource' = s /\ tdVersionsSource' = v
        /\ reconfigured' = (reconfigured \/ <<s, v>> # <<tdSource, tdVersionsSource>>)
        /\ setAnew' = (setAnew \/ <<s, v>> # <<tdSource, tdVersionsSource>>)
        /\ untold' = (untold /\ e = tdEnabled)
        /\ UNCHANGED <<tdError, tdFresh, tdLatest, tdListed, import, asks, filledFrom, died>>
    BY <1>1 DEF ConfigureTitledb, tdTables
  <2>2. TitledbTypeOK'
    <3>1. untold' \in BOOLEAN /\ reconfigured' \in BOOLEAN /\ setAnew' \in BOOLEAN BY <2>1
    <3>2. QED BY <2>1, <3>1 DEF TitledbInv, TitledbTypeOK
  <2>3. LatestIsListed' /\ ChangesAreTold' /\ ImportsHaveCallers'
    BY <2>1 DEF TitledbInv, LatestIsListed, ChangesAreTold, ImportsHaveCallers
  <2>4. TablesAreOfSources' BY <2>1 DEF TitledbInv, TablesAreOfSources
  <2>5. QED BY <2>1, <2>2, <2>3, <2>4 DEF TitledbInv, tdTables
<1>2. ASSUME NEW a \in Askers, AskRefresh(a) PROVE TitledbInv' /\ FailuresKeepTables
  <2>1. TitledbInv' BY <1>2, BeginsOrJoinsKeeps DEF AskRefresh
  <2>2. QED BY <1>2, <2>1 DEF AskRefresh
<1>3. CASE CheckIsDue
  <2>1. "timer" \in Askers BY DEF Askers
  <2>2. TitledbInv' BY <1>3, <2>1, BeginsOrJoinsKeeps DEF CheckIsDue
  <2>3. QED BY <1>3, <2>2 DEF CheckIsDue
<1>4. ASSUME NEW a \in Askers, GoOn(a) PROVE TitledbInv' /\ FailuresKeepTables
  <2>1. /\ asks[a] \in {"ok", "failed"} /\ asks' = [asks EXCEPT ![a] = "idle"]
        /\ untold' = (untold /\ asks[a] = "failed")
        /\ UNCHANGED <<tdEnabled, tdSource, tdVersionsSource, tdError, tdFresh, tdLatest, tdListed,
                       import, filledFrom, reconfigured, setAnew, died>>
    BY <1>4 DEF GoOn, tdSettings, tdTables
  <2>2. \A b \in Askers : b # a => asks'[b] = asks[b] BY <2>1 DEF TitledbInv, TitledbTypeOK
  <2>3. TitledbTypeOK'
    <3>1. untold' \in BOOLEAN BY <2>1
    <3>2. asks' \in [Askers -> {"idle", "asked", "ok", "failed"}]
      BY <2>1 DEF TitledbInv, TitledbTypeOK
    <3>3. QED BY <2>1, <3>1, <3>2 DEF TitledbInv, TitledbTypeOK
  <2>4. ChangesAreTold' BY <2>1, <2>2 DEF TitledbInv, ChangesAreTold
  <2>5. ImportsHaveCallers' BY <2>1, <2>2 DEF TitledbInv, ImportsHaveCallers
  <2>6. LatestIsListed' /\ TablesAreOfSources'
    BY <2>1 DEF TitledbInv, LatestIsListed, TablesAreOfSources
  <2>7. QED BY <2>1, <2>3, <2>4, <2>5, <2>6 DEF TitledbInv, tdTables
<1>5. CASE ImportFails
  <2>1. /\ import.at # "idle" /\ import' = NoImport
        /\ tdError' = "failed" /\ tdFresh' = TRUE
        /\ asks' = [a \in Askers |-> IF asks[a] = "asked" THEN "failed" ELSE asks[a]]
        /\ UNCHANGED <<tdEnabled, tdSource, tdVersionsSource, tdLatest, tdListed,
                       filledFrom, reconfigured, setAnew, untold, died>>
    BY <1>5 DEF ImportFails, Answered, tdSettings, tdTables, tdHistory
  <2>2. TitledbTypeOK'
    <3>1. asks' \in [Askers -> {"idle", "asked", "ok", "failed"}]
      BY <2>1 DEF TitledbInv, TitledbTypeOK
    <3>2. QED BY <2>1, <3>1 DEF TitledbInv, TitledbTypeOK, NoImport, Imports
  <2>3. ChangesAreTold'
    <3>1. \A b \in Askers : asks[b] = "ok" => asks'[b] = "ok" BY <2>1
    <3>2. QED BY <2>1, <3>1 DEF TitledbInv, ChangesAreTold
  <2>4. LatestIsListed' /\ TablesAreOfSources' /\ ImportsHaveCallers'
    BY <2>1 DEF TitledbInv, LatestIsListed, TablesAreOfSources, ImportsHaveCallers, NoImport
  <2>5. QED BY <2>1, <2>2, <2>3, <2>4 DEF TitledbInv, tdTables, NoImport
<1>6. CASE TitledbAges
  <2>1. /\ tdFresh' = FALSE
        /\ UNCHANGED <<tdEnabled, tdSource, tdVersionsSource, tdError, tdLatest, tdListed, import, asks,
                       filledFrom, reconfigured, setAnew, untold, died>>
    BY <1>6 DEF TitledbAges, tdSettings, tdTables, tdHistory
  <2>2. TitledbTypeOK' BY <2>1 DEF TitledbInv, TitledbTypeOK
  <2>3. LatestIsListed' /\ TablesAreOfSources' /\ ChangesAreTold' /\ ImportsHaveCallers'
    BY <2>1 DEF TitledbInv, LatestIsListed, ChangesAreTold, ImportsHaveCallers, TablesAreOfSources
  <2>4. QED BY <2>1, <2>2, <2>3 DEF TitledbInv, tdTables
<1>7. CASE ServerDies
  <2>1. /\ import' = NoImport /\ asks' = [a \in Askers |-> "idle"] /\ died' = (died \/ untold)
        /\ UNCHANGED <<tdEnabled, tdSource, tdVersionsSource, tdError, tdFresh, tdLatest, tdListed,
                       filledFrom, reconfigured, setAnew, untold>>
    BY <1>7 DEF ServerDies, tdSettings, tdTables
  <2>2. TitledbTypeOK' BY <2>1 DEF TitledbInv, TitledbTypeOK, NoImport, Imports
  <2>3. QED BY <2>1, <2>2 DEF TitledbInv, LatestIsListed, ChangesAreTold, ImportsHaveCallers,
                      TablesAreOfSources, tdTables, NoImport
<1>8. ASSUME NEW text \in TitlesFiles, ReadTitles(text) PROVE TitledbInv' /\ FailuresKeepTables
  <2>1. /\ import.at = "titles" /\ import' = [import EXCEPT !.at = "versions", !.titles = text]
        /\ UNCHANGED <<tdEnabled, tdSource, tdVersionsSource, tdError, tdFresh, tdLatest, tdListed, asks,
                       filledFrom, reconfigured, setAnew, untold, died>>
    BY <1>8 DEF ReadTitles, tdSettings, tdTables, tdHistory
  <2>2. import' \in Imports /\ import'.at = "versions" /\ import'.from = import.from
        /\ import'.versionsFrom = import.versionsFrom
    BY <2>1 DEF TitledbInv, TitledbTypeOK, Imports
  <2>3. TitledbTypeOK' BY <2>1, <2>2 DEF TitledbInv, TitledbTypeOK
  <2>4. QED BY <2>1, <2>2, <2>3 DEF TitledbInv, LatestIsListed, ChangesAreTold, ImportsHaveCallers,
                      TablesAreOfSources, tdTables
<1>9. ASSUME NEW text \in TitlesFiles, ImportTitles(text) PROVE TitledbInv' /\ FailuresKeepTables
  <2> DEFINE dated == [t \in TitleIds |-> {}]
  <2>1. Fills(text, dated) /\ import.at # "idle" BY <1>9 DEF ImportTitles
  <2>2. dated \in [TitleIds -> SUBSET (0..MaxVersion)] OBVIOUS
  <2>3. TitledbInv' BY <2>1, <2>2, FillsKeeps
  <2>4. QED BY <2>1, <2>3 DEF Fills
<1>10. ASSUME NEW dated \in VersionsFiles, ImportBoth(dated) PROVE TitledbInv' /\ FailuresKeepTables
  <2>1. Fills(import.titles, dated) /\ import.at # "idle" BY <1>10 DEF ImportBoth
  <2>2. dated \in [TitleIds -> SUBSET (0..MaxVersion)] BY DEF TitledbSized
  <2>3. import.titles \in TitlesFiles \cup {<<>>} BY DEF TitledbInv, TitledbTypeOK, Imports
  <2>4. TitledbInv' BY <2>1, <2>2, <2>3, FillsKeeps
  <2>5. QED BY <2>1, <2>4 DEF Fills
<1>11. CASE UNCHANGED tdVars
  <2>1. UNCHANGED <<tdEnabled, tdSource, tdVersionsSource, tdError, tdFresh, tdLatest, tdListed, import,
                    asks, filledFrom, reconfigured, setAnew, untold, died>>
    BY <1>11 DEF tdVars, tdSettings, tdTables, tdHistory
  <2>2. TitledbTypeOK' BY <2>1 DEF TitledbInv, TitledbTypeOK
  <2>3. LatestIsListed' /\ TablesAreOfSources' /\ ChangesAreTold' /\ ImportsHaveCallers'
    BY <2>1 DEF TitledbInv, LatestIsListed, ChangesAreTold, ImportsHaveCallers, TablesAreOfSources
  <2>4. QED BY <2>1, <2>2, <2>3 DEF TitledbInv, tdTables
<1>12. QED BY <1>1, <1>2, <1>3, <1>4, <1>5, <1>6, <1>7, <1>8, <1>9, <1>10, <1>11 DEF TitledbNext

\* TitledbService: the tables are what one import made of its sources, and of the configured ones
\* unless these changed since it began; in them a title's latest version is listed and is the
\* newest; and an import that changed them has a caller left to raise the catalog revision, unless
\* the server ended between the two.
THEOREM TitledbIsOneImport ==
    ASSUME TitledbSized
    PROVE  TitledbSpec => [](TitledbTypeOK /\ LatestIsListed /\ TablesAreOfSources /\ ChangesAreTold
                             /\ ImportsHaveCallers)
<1>1. TitledbInit => TitledbInv BY TitledbInitially
<1>2. TitledbInv /\ [TitledbNext]_tdVars => TitledbInv' BY TitledbStep
<1>3. TitledbInv => TitledbTypeOK /\ LatestIsListed /\ TablesAreOfSources /\ ChangesAreTold
                    /\ ImportsHaveCallers
  BY DEF TitledbInv
<1>4. QED BY <1>1, <1>2, <1>3, PTL DEF TitledbSpec

\* And a refresh that fails leaves every row as it was.
THEOREM FailedRefreshesKeepTables ==
    ASSUME TitledbSized PROVE TitledbSpec => [][FailuresKeepTables]_tdVars
<1>1. TitledbInit => TitledbInv BY TitledbInitially
<1>2. TitledbInv /\ [TitledbNext]_tdVars => TitledbInv' /\ FailuresKeepTables BY TitledbStep
<1>3. QED BY <1>1, <1>2, PTL DEF TitledbSpec

--------------------------------------------------------------------------------
(* AppUpdate.                                                                   *)

\* What is known of the offer while it is fetched and swapped in, and where an app is meanwhile.
UpdateLinks ==
    /\ upAt \in {"offered"} \cup Fetching \cup Steps =>
          /\ offer \in Updates /\ offer.manifest \in Signed
          /\ offer.manifest.version > VersionIn[runs]
    /\ upAt \in Steps => bytes = offer.manifest.nro /\ SizeOf[bytes] = offer.manifest.size
    /\ stranded \/ upAt \in {"off", "swap"} \/ upFiles.dest # Absent
    /\ upAt = "swap" => stranded \/ upFiles.old # Absent

UpdateInv == UpdateTypeOK /\ UpdateLinks /\ AnAppSurvives /\ NoTornApp

LEMMA UpdateInitially == ASSUME UpdateSized, UpdateInit PROVE UpdateInv
<1>1. UpdateTypeOK BY DEF UpdateInit, UpdateSized, UpdateTypeOK, Files
<1>2. QED BY <1>1 DEF UpdateInit, UpdateSized, UpdateInv, UpdateLinks, AnAppSurvives, NoTornApp,
                    Fetching, Steps

\* A step that leaves the files and what runs, and moves between waiting, checking and fetching.
LEMMA FilesStand ==
    ASSUME UpdateSized, UpdateInv, UpdateTypeOK', UNCHANGED appKept,
           upAt # "off", upAt' \in {"idle", "offered", "write"} \cup Checking \cup Fetching,
           upAt \notin Steps,
           upAt' \in {"offered", "write"} \cup Fetching =>
               /\ offer' \in Updates /\ offer'.manifest \in Signed
               /\ offer'.manifest.version > VersionIn[runs],
           upAt' = "write" => bytes' = offer'.manifest.nro /\ SizeOf[bytes'] = offer'.manifest.size
    PROVE  UpdateInv' /\ SwapsAreNewer
<1>1. upFiles' = upFiles /\ runs' = runs /\ stranded' = stranded BY DEF appKept
<1>2. stranded \/ upFiles.dest # Absent
  BY DEF UpdateInv, UpdateLinks, Steps
<1>3. UpdateLinks' BY <1>1, <1>2 DEF UpdateLinks, Checking, Fetching, Steps
<1>4. AnAppSurvives' BY <1>1 DEF UpdateInv, AnAppSurvives
<1>5. NoTornApp' BY DEF NoTornApp, Checking, Fetching
<1>6. QED BY <1>1, <1>3, <1>4, <1>5 DEF UpdateInv, SwapsAreNewer

LEMMA VerifiedIsSigned ==
    ASSUME UpdateSized, UpdateTypeOK, NEW s, Verified(doc, s), Newer(doc), NEW b \in BOOLEAN,
           offer' = [manifest |-> doc, fromServer |-> b]
    PROVE  offer' \in Updates /\ offer'.manifest \in Signed /\ offer'.manifest.version > VersionIn[runs]
<1>1. doc \in Signed /\ doc \in Manifests BY DEF Verified, UpdateSized
<1>2. QED BY <1>1 DEF Updates, Newer

\* What one call of the swap leaves.
LEMMA SwapStepKeeps == ASSUME UpdateSized, UpdateInv, SwapStep PROVE UpdateInv' /\ SwapsAreNewer
<1> DEFINE nro == offer.manifest.nro
<1>1. /\ upFiles' = AfterStep(upFiles, upAt, bytes)
      /\ UNCHANGED <<runs, shelf, stranded, upCancel, doc, tag, offer, bytes>>
  BY DEF SwapStep
<1>2. /\ upAt \in Steps /\ offer \in Updates /\ offer.manifest \in Signed
      /\ offer.manifest.version > VersionIn[runs] /\ bytes = nro /\ SizeOf[nro] = offer.manifest.size
  BY DEF SwapStep, UpdateInv, UpdateLinks
<1>3. nro \in Apps /\ nro # Absent /\ VersionIn[nro] = offer.manifest.version
  BY <1>2 DEF UpdateSized
<1>4. upFiles \in Files BY DEF UpdateInv, UpdateTypeOK
<1>5. CASE upAt = "write"
  <2>1. upFiles' = [upFiles EXCEPT !.part = nro] /\ upAt' = "clear"
    BY <1>1, <1>2, <1>5 DEF SwapStep, AfterStep, NextStep
  <2>2. upFiles' \in Files /\ upFiles'.part = nro /\ upFiles'.dest = upFiles.dest
        /\ upFiles'.old = upFiles.old
    BY <2>1, <1>3, <1>4 DEF Files
  <2>3. UpdateTypeOK' BY <1>1, <2>1, <2>2 DEF UpdateInv, UpdateTypeOK, Steps
  <2>4. UpdateLinks' BY <1>1, <1>2, <1>5, <2>1, <2>2 DEF UpdateInv, UpdateLinks, Steps
  <2>5. AnAppSurvives' /\ NoTornApp'
    BY <1>1, <2>2, <2>4 DEF UpdateInv, AnAppSurvives, NoTornApp
  <2>6. SwapsAreNewer BY <2>2 DEF SwapsAreNewer
  <2>7. QED BY <2>3, <2>4, <2>5, <2>6 DEF UpdateInv
<1>6. CASE upAt = "clear"
  <2>1. upFiles' = [upFiles EXCEPT !.old = Absent] /\ upAt' = "park"
    BY <1>1, <1>6 DEF SwapStep, AfterStep, NextStep
  <2>2. upFiles' \in Files /\ upFiles'.part = upFiles.part /\ upFiles'.dest = upFiles.dest
    BY <2>1, <1>4 DEF Files
  <2>3. UpdateTypeOK' BY <1>1, <2>1, <2>2 DEF UpdateInv, UpdateTypeOK, Steps
  <2>4. UpdateLinks' BY <1>1, <1>2, <1>6, <2>1, <2>2 DEF UpdateInv, UpdateLinks, Steps
  <2>5. AnAppSurvives' BY <1>1, <1>6, <2>2 DEF UpdateInv, UpdateLinks, AnAppSurvives
  <2>6. NoTornApp' BY <1>1, <1>6, <2>2 DEF UpdateInv, NoTornApp
  <2>7. SwapsAreNewer BY <2>2 DEF SwapsAreNewer
  <2>8. QED BY <2>3, <2>4, <2>5, <2>6, <2>7 DEF UpdateInv
<1>7. CASE upAt = "park"
  <2>1. upFiles' = [upFiles EXCEPT !.old = upFiles.dest, !.dest = Absent] /\ upAt' = "swap"
    BY <1>1, <1>7 DEF SwapStep, AfterStep, NextStep
  <2>2. upFiles' \in Files /\ upFiles'.part = upFiles.part /\ upFiles'.dest = Absent
        /\ upFiles'.old = upFiles.dest
    BY <2>1, <1>4 DEF Files
  <2>3. UpdateTypeOK' BY <1>1, <2>1, <2>2 DEF UpdateInv, UpdateTypeOK, Steps
  <2>4. UpdateLinks' BY <1>1, <1>2, <1>7, <2>1, <2>2 DEF UpdateInv, UpdateLinks, Steps
  <2>5. AnAppSurvives' BY <1>1, <1>7, <2>2 DEF UpdateInv, UpdateLinks, AnAppSurvives
  <2>6. NoTornApp' BY <1>1, <1>7, <2>2 DEF UpdateInv, NoTornApp
  <2>7. SwapsAreNewer BY <2>2 DEF SwapsAreNewer
  <2>8. QED BY <2>3, <2>4, <2>5, <2>6, <2>7 DEF UpdateInv
<1>8. CASE upAt = "swap"
  <2>1. upFiles' = [upFiles EXCEPT !.dest = upFiles.part, !.part = Absent] /\ upAt' \in {"tidy", "idle"}
    BY <1>1, <1>8 DEF SwapStep, AfterStep, NextStep
  <2>2. upFiles.part = nro BY <1>8 DEF UpdateInv, NoTornApp
  <2>3. upFiles' \in Files /\ upFiles'.dest = nro BY <2>1, <2>2, <1>3, <1>4 DEF Files
  <2>4. UpdateTypeOK' BY <1>1, <2>1, <2>3 DEF UpdateInv, UpdateTypeOK, Steps
  <2>5. UpdateLinks' BY <1>1, <1>2, <1>3, <1>8, <2>1, <2>3 DEF UpdateInv, UpdateLinks, Steps, Fetching
  <2>6. AnAppSurvives' /\ NoTornApp' BY <1>3, <2>1, <2>3 DEF AnAppSurvives, NoTornApp
  <2>7. SwapsAreNewer BY <1>2, <1>3, <2>3 DEF SwapsAreNewer
  <2>8. QED BY <2>4, <2>5, <2>6, <2>7 DEF UpdateInv
<1>9. CASE upAt = "tidy"
  <2>1. upFiles' = [upFiles EXCEPT !.old = Absent] /\ upAt' = "idle"
    BY <1>1, <1>9 DEF SwapStep, AfterStep, NextStep
  <2>2. upFiles' \in Files /\ upFiles'.dest = upFiles.dest BY <2>1, <1>4 DEF Files
  <2>3. UpdateTypeOK' BY <1>1, <2>1, <2>2 DEF UpdateInv, UpdateTypeOK
  <2>4. UpdateLinks' BY <1>1, <1>9, <2>1, <2>2 DEF UpdateInv, UpdateLinks, Steps, Fetching
  <2>5. AnAppSurvives' /\ NoTornApp'
    BY <1>1, <1>9, <2>1, <2>2 DEF UpdateInv, UpdateLinks, AnAppSurvives, NoTornApp
  <2>6. SwapsAreNewer BY <2>2 DEF SwapsAreNewer
  <2>7. QED BY <2>3, <2>4, <2>5, <2>6 DEF UpdateInv
<1>10. QED BY <1>2, <1>5, <1>6, <1>7, <1>8, <1>9 DEF Steps

\* A swap that fails, an end of the app and a start after it.
LEMMA SwapFailsKeeps == ASSUME UpdateSized, UpdateInv, SwapFails PROVE UpdateInv' /\ SwapsAreNewer
<1>1. /\ upAt \in {"write", "park", "swap"} /\ upAt' = "idle"
      /\ UNCHANGED <<runs, shelf, upCancel, doc, tag, offer, bytes>>
      /\ \/ upFiles' = AfterFailure(upFiles, upAt) /\ UNCHANGED stranded
         \/ upAt = "swap" /\ upFiles' = [upFiles EXCEPT !.part = Absent] /\ stranded' = TRUE
  BY DEF SwapFails
<1>2. upFiles \in Files BY DEF UpdateInv, UpdateTypeOK
<1>3. /\ upFiles' \in Files
      /\ \/ upFiles'.dest = upFiles.dest /\ upFiles'.old = upFiles.old
            /\ (stranded' \/ upAt # "swap" \/ upFiles.old = Absent)
         \/ upFiles'.dest = upFiles.old /\ upFiles.old # Absent
      /\ stranded' \in {stranded, TRUE}
  <2>1. CASE upAt = "swap" /\ upFiles' = [upFiles EXCEPT !.part = Absent] /\ stranded' = TRUE
    BY <2>1, <1>2 DEF Files
  <2>2. CASE upFiles' = AfterFailure(upFiles, upAt) /\ UNCHANGED stranded
    <3>1. CASE upAt = "swap" /\ upFiles.old # Absent
      <4>1. upFiles' = [part |-> Absent, dest |-> upFiles.old, old |-> Absent]
        BY <2>2, <3>1 DEF AfterFailure, HadDest
      <4>2. QED BY <4>1, <2>2, <3>1, <1>2 DEF Files
    <3>2. CASE upAt # "swap" \/ upFiles.old = Absent
      <4>1. upFiles' = [upFiles EXCEPT !.part = Absent]
        BY <2>2, <3>2 DEF AfterFailure, HadDest
      <4>2. QED BY <4>1, <2>2, <3>2, <1>2 DEF Files
    <3>3. QED BY <3>1, <3>2
  <2>3. QED BY <1>1, <2>1, <2>2
<1>4. stranded' \/ upFiles'.dest # Absent
  BY <1>1, <1>3 DEF UpdateInv, UpdateLinks
<1>5. UpdateTypeOK'
  <2>1. stranded' \in BOOLEAN BY <1>3 DEF UpdateInv, UpdateTypeOK
  <2>2. QED BY <1>1, <1>3, <2>1 DEF UpdateInv, UpdateTypeOK
<1>6. UpdateLinks' BY <1>1, <1>4 DEF UpdateLinks, Fetching, Steps
<1>7. AnAppSurvives' /\ NoTornApp' BY <1>1, <1>4 DEF AnAppSurvives, NoTornApp
<1>8. SwapsAreNewer BY <1>3 DEF SwapsAreNewer
<1>9. QED BY <1>5, <1>6, <1>7, <1>8 DEF UpdateInv

LEMMA AppEndsKeeps == ASSUME UpdateSized, UpdateInv, AppEnds PROVE UpdateInv' /\ SwapsAreNewer
<1>1. /\ upAt' = "off" /\ UNCHANGED <<runs, shelf, stranded, upCancel, doc, tag, offer, bytes>>
      /\ upFiles' \in {upFiles, [upFiles EXCEPT !.part = Torn]}
  BY DEF AppEnds
<1>2. upFiles' \in Files /\ upFiles'.dest = upFiles.dest /\ upFiles'.old = upFiles.old
  BY <1>1 DEF UpdateInv, UpdateTypeOK, Files
<1>3. UpdateTypeOK' BY <1>1, <1>2 DEF UpdateInv, UpdateTypeOK
<1>4. UpdateLinks' /\ AnAppSurvives' /\ NoTornApp' /\ SwapsAreNewer
  BY <1>1, <1>2 DEF UpdateInv, UpdateLinks, AnAppSurvives, NoTornApp, SwapsAreNewer, Fetching, Steps
<1>5. QED BY <1>3, <1>4 DEF UpdateInv

LEMMA AppStartsKeeps == ASSUME UpdateSized, UpdateInv, AppStarts PROVE UpdateInv' /\ SwapsAreNewer
<1>1. /\ upAt' = "idle" /\ upFiles' = Recovered(upFiles)
      /\ stranded' = (stranded /\ upFiles'.dest = Absent)
      /\ runs' \in (IF upFiles.dest # Absent THEN {upFiles.dest} ELSE Apps)
      /\ UNCHANGED <<shelf, upCancel, doc, tag, offer, bytes>>
  BY DEF AppStarts
<1>2. upFiles \in Files BY DEF UpdateInv, UpdateTypeOK
<1>3. runs' \in Apps BY <1>1, <1>2 DEF Files
<1>4. /\ upFiles' \in Files /\ upFiles'.dest \in {upFiles.dest, upFiles.old}
      /\ upFiles.dest # Absent \/ upFiles.old # Absent => upFiles'.dest # Absent
  BY <1>1, <1>2 DEF Recovered, Files
<1>5. stranded' \/ upFiles'.dest # Absent
  BY <1>1, <1>4 DEF UpdateInv, AnAppSurvives
<1>6. UpdateTypeOK'
  <2>1. stranded' \in BOOLEAN BY <1>1
  <2>2. QED BY <1>1, <1>3, <1>4, <2>1 DEF UpdateInv, UpdateTypeOK
<1>7. UpdateLinks' BY <1>1, <1>5 DEF UpdateLinks, Fetching, Steps
<1>8. AnAppSurvives' /\ NoTornApp' BY <1>1, <1>5 DEF AnAppSurvives, NoTornApp
<1>9. SwapsAreNewer BY <1>4 DEF SwapsAreNewer
<1>10. QED BY <1>6, <1>7, <1>8, <1>9 DEF UpdateInv

LEMMA UpdateStep ==
    ASSUME UpdateSized, UpdateInv, [UpdateNext]_upVars PROVE UpdateInv' /\ SwapsAreNewer
<1> USE DEF appKept
<1>1. UpdateTypeOK BY DEF UpdateInv
<1>2. CASE CheckForUpdates
  <2>1. UpdateTypeOK' BY <1>1, <1>2 DEF CheckForUpdates, UpdateTypeOK, Checking
  <2>2. QED BY <1>2, <2>1, FilesStand DEF CheckForUpdates, Checking, Fetching, Steps
<1>3. CASE ServerJson
  <2>1. UpdateTypeOK' BY <1>1, <1>3 DEF ServerJson, UpdateTypeOK, Checking, Shelves
  <2>2. QED BY <1>3, <2>1, FilesStand DEF ServerJson, Checking, Fetching, Steps
<1>4. CASE ServerSignature
  <2>1. CASE Newer(doc)
    <3>1. upAt' = "offered" /\ offer' = [manifest |-> doc, fromServer |-> TRUE] BY <1>4, <2>1 DEF ServerSignature
    <3>2. offer' \in Updates /\ offer'.manifest \in Signed /\ offer'.manifest.version > VersionIn[runs]
      BY <1>1, <1>4, <2>1, <3>1, VerifiedIsSigned DEF ServerSignature
    <3>3. UpdateTypeOK' BY <1>1, <1>4, <3>1, <3>2 DEF ServerSignature, UpdateTypeOK
    <3>4. QED BY <1>4, <3>1, <3>2, <3>3, FilesStand DEF ServerSignature, Checking, Fetching, Steps
  <2>2. CASE ~Newer(doc)
    <3>1. UpdateTypeOK' BY <1>1, <1>4, <2>2 DEF ServerSignature, UpdateTypeOK, Checking
    <3>2. QED BY <1>4, <2>2, <3>1, FilesStand DEF ServerSignature, Checking, Fetching, Steps
  <2>3. QED BY <2>1, <2>2
<1>5. CASE ServerFails
  <2>1. UpdateTypeOK' BY <1>1, <1>5 DEF ServerFails, UpdateTypeOK, Checking
  <2>2. QED BY <1>5, <2>1, FilesStand DEF ServerFails, Checking, Fetching, Steps
<1>6. ASSUME NEW v \in Nat, ReadRelease(v) PROVE UpdateInv' /\ SwapsAreNewer
  <2>1. UpdateTypeOK' BY <1>1, <1>6 DEF ReadRelease, UpdateTypeOK, Checking
  <2>2. QED BY <1>6, <2>1, FilesStand DEF ReadRelease, Checking, Fetching, Steps
<1>7. ASSUME NEW d \in Manifests, ReleaseJson(d) PROVE UpdateInv' /\ SwapsAreNewer
  <2>1. UpdateTypeOK' BY <1>1, <1>7 DEF ReleaseJson, UpdateTypeOK, Checking
  <2>2. QED BY <1>7, <2>1, FilesStand DEF ReleaseJson, Checking, Fetching, Steps
<1>8. ASSUME NEW s \in Manifests, ReleaseSignature(s) PROVE UpdateInv' /\ SwapsAreNewer
  <2>1. CASE Newer(doc)
    <3>1. upAt' = "offered" /\ offer' = [manifest |-> doc, fromServer |-> FALSE] BY <1>8, <2>1 DEF ReleaseSignature
    <3>2. offer' \in Updates /\ offer'.manifest \in Signed /\ offer'.manifest.version > VersionIn[runs]
      BY <1>1, <1>8, <2>1, <3>1, VerifiedIsSigned DEF ReleaseSignature
    <3>3. UpdateTypeOK' BY <1>1, <1>8, <3>1, <3>2 DEF ReleaseSignature, UpdateTypeOK
    <3>4. QED BY <1>8, <3>1, <3>2, <3>3, FilesStand DEF ReleaseSignature, Checking, Fetching, Steps
  <2>2. CASE ~Newer(doc)
    <3>1. UpdateTypeOK' BY <1>1, <1>8, <2>2 DEF ReleaseSignature, UpdateTypeOK
    <3>2. QED BY <1>8, <2>2, <3>1, FilesStand DEF ReleaseSignature, Checking, Fetching, Steps
  <2>3. QED BY <2>1, <2>2
<1>9. CASE ReleaseFails
  <2>1. UpdateTypeOK' BY <1>1, <1>9 DEF ReleaseFails, UpdateTypeOK
  <2>2. QED BY <1>9, <2>1, FilesStand DEF ReleaseFails, Checking, Fetching, Steps
<1>10. CASE AnswerOffer
  <2>1. UpdateTypeOK' BY <1>1, <1>10 DEF AnswerOffer, UpdateTypeOK, Fetching
  <2>2. QED BY <1>10, <2>1, FilesStand DEF AnswerOffer, UpdateInv, UpdateLinks, Checking, Fetching, Steps
<1>11. ASSUME NEW b \in Apps \cup {Torn}, LastPiece(b) PROVE UpdateInv' /\ SwapsAreNewer
  <2>1. UpdateTypeOK' BY <1>1, <1>11 DEF LastPiece, UpdateTypeOK, Fetching
  <2>2. QED BY <1>11, <2>1, FilesStand DEF LastPiece, UpdateInv, UpdateLinks, Checking, Fetching, Steps
<1>12. CASE InstallVerified
  <2>1. UpdateTypeOK' BY <1>1, <1>12 DEF InstallVerified, UpdateTypeOK, Steps
  <2>2. QED BY <1>12, <2>1, FilesStand DEF InstallVerified, UpdateInv, UpdateLinks, Checking, Fetching, Steps
<1>13. CASE FetchFails
  <2>1. UpdateTypeOK' BY <1>1, <1>13 DEF FetchFails, UpdateTypeOK
  <2>2. QED BY <1>13, <2>1, FilesStand DEF FetchFails, Checking, Fetching, Steps
<1>14. CASE PressCancel
  <2>1. UpdateTypeOK' BY <1>1, <1>14 DEF PressCancel, UpdateTypeOK
  <2>2. QED BY <1>14, <2>1, FilesStand DEF PressCancel, UpdateInv, UpdateLinks, Checking, Fetching, Steps
<1>15. CASE ShelfChanges
  <2>1. UNCHANGED <<upAt, upCancel, runs, upFiles, doc, tag, offer, bytes, stranded>> /\ shelf' \in Shelves
    BY <1>15 DEF ShelfChanges
  <2>2. UpdateTypeOK' BY <1>1, <2>1 DEF UpdateTypeOK
  <2>3. QED BY <2>1, <2>2 DEF UpdateInv, UpdateLinks, AnAppSurvives, NoTornApp, SwapsAreNewer
<1>16. CASE UNCHANGED upVars
  <2>1. UNCHANGED <<upAt, upCancel, runs, upFiles, doc, tag, offer, bytes, stranded>> /\ shelf' = shelf
    BY <1>16 DEF upVars
  <2>2. UpdateTypeOK' BY <1>1, <2>1 DEF UpdateTypeOK
  <2>3. QED BY <2>1, <2>2 DEF UpdateInv, UpdateLinks, AnAppSurvives, NoTornApp, SwapsAreNewer
<1>17. QED BY <1>2, <1>3, <1>4, <1>5, <1>6, <1>7, <1>8, <1>9, <1>10, <1>11, <1>12, <1>13, <1>14, <1>15,
             <1>16, SwapStepKeeps, SwapFailsKeeps, AppEndsKeeps, AppStartsKeeps DEF UpdateNext

\* The self-update: whenever the console goes off there is a whole app in place or parked where the
\* next start finds it, unless a swap failed and so did putting the old file back; and no part that
\* was cut is about to be moved into place.
THEOREM AnAppIsThere ==
    ASSUME UpdateSized PROVE UpdateSpec => [](UpdateTypeOK /\ AnAppSurvives /\ NoTornApp)
<1>1. UpdateInit => UpdateInv BY UpdateInitially
<1>2. UpdateInv /\ [UpdateNext]_upVars => UpdateInv' BY UpdateStep
<1>3. UpdateInv => UpdateTypeOK /\ AnAppSurvives /\ NoTornApp BY DEF UpdateInv
<1>4. QED BY <1>1, <1>2, <1>3, PTL DEF UpdateSpec

\* What is moved into place is what a signed manifest describes, byte for byte, and newer than the
\* app that runs, whatever changed between the check, the offer and the download.
THEOREM UpdatesAreNewer == ASSUME UpdateSized PROVE UpdateSpec => [][SwapsAreNewer]_upVars
<1>1. UpdateInit => UpdateInv BY UpdateInitially
<1>2. UpdateInv /\ [UpdateNext]_upVars => UpdateInv' /\ SwapsAreNewer BY UpdateStep
<1>3. QED BY <1>1, <1>2, PTL DEF UpdateSpec

--------------------------------------------------------------------------------
(* LivePage.                                                                    *)

\* Nothing is on its way where no connection is.
PageLinks == socket # "open" => wire = <<>>

\* An answer under way that is behind has an event coming, or the fetch after a lost connection.
AnswersAreTold ==
    fetch = "answered" =>
        \A i \in Items \ stale : answer[i] = truth[i] \/ Coming(i) \/ socket = "lost"

PageInv == PageTypeOK /\ PageLinks /\ AnswersAreTold /\ WrongIsCorrected /\ LastEventIsTrue

LEMMA PageInitially == ASSUME PageSized, PageInit PROVE PageInv
<1>1. wire = <<>> /\ stale = {} /\ cache = NotLoaded /\ fetch = "none" /\ socket = "connecting"
  BY DEF PageInit
<1>2. PageTypeOK BY DEF PageInit, PageTypeOK, NoReply
<1>3. QED BY <1>1, <1>2 DEF PageInv, PageLinks, AnswersAreTold, WrongIsCorrected, LastEventIsTrue

\* A change reaches an open page as its newest event; nothing else is said of the other entries.
LEMMA ChangeIsTold ==
    ASSUME PageSized, PageInv, NEW i \in Items, NEW v \in Values, Change(i, v), socket' = socket
    PROVE  /\ truth' \in [Items -> Values] /\ wire' \in Seq(Events) /\ stale' \subseteq Items
           /\ stale \subseteq stale' /\ PageLinks' /\ LastEventIsTrue'
           /\ \A j \in Items \ {i} : truth'[j] = truth[j] /\ (Coming(j) => Coming(j)')
           /\ socket = "open" => Coming(i)'
           /\ socket = "connecting" /\ (cache # NotLoaded \/ fetch = "answered") => i \in stale'
<1>1. /\ truth \in [Items -> Values] /\ wire \in Seq(Events) /\ stale \subseteq Items
      /\ truth' = [truth EXCEPT ![i] = v]
      /\ wire' = IF socket = "open" THEN Append(wire, [item |-> i, value |-> v]) ELSE wire
  BY DEF PageInv, PageTypeOK, Change
<1>2. stale' \subseteq Items /\ stale \subseteq stale' BY <1>1 DEF Change
<1>3. truth' \in [Items -> Values] /\ truth'[i] = v /\ \A j \in Items \ {i} : truth'[j] = truth[j]
  BY <1>1
<1>4. CASE socket # "open"
  <2>1. wire' = wire /\ wire = <<>> BY <1>1, <1>4 DEF PageInv, PageLinks
  <2>2. LastEventIsTrue' /\ PageLinks' BY <1>4, <2>1 DEF LastEventIsTrue, PageLinks
  <2>3. \A j \in Items : ~Coming(j) BY <2>1 DEF Coming
  <2>4. socket = "connecting" /\ (cache # NotLoaded \/ fetch = "answered") => i \in stale' BY DEF Change
  <2>5. QED BY <1>1, <1>2, <1>3, <1>4, <2>1, <2>2, <2>3, <2>4
<1>5. CASE socket = "open"
  <2> DEFINE e == [item |-> i, value |-> v]
  <2>1. e \in Events /\ e.item = i /\ e.value = v BY DEF Events
  <2>2. wire' = Append(wire, e) BY <1>1, <1>5
  <2> HIDE DEF e
  <2>3. /\ wire' \in Seq(Events) /\ Len(wire') = Len(wire) + 1 /\ wire'[Len(wire) + 1] = e
        /\ \A k \in 1..Len(wire) : wire'[k] = wire[k]
        /\ DOMAIN wire = 1..Len(wire) /\ DOMAIN wire' = 1..(Len(wire) + 1) /\ Len(wire) \in Nat
    BY <1>1, <2>1, <2>2
  <2>4. Coming(i)' BY <2>1, <2>3 DEF Coming
  <2>5. \A j \in Items : Coming(j) => Coming(j)' BY <2>3 DEF Coming
  <2>6. ASSUME NEW k \in DOMAIN wire',
               \A l \in DOMAIN wire' : l > k => wire'[l].item # wire'[k].item
        PROVE  wire'[k].value = truth'[wire'[k].item]
    <3>1. CASE k = Len(wire) + 1 BY <1>3, <2>1, <2>3, <3>1
    <3>2. CASE k # Len(wire) + 1
      <4>1. k \in 1..Len(wire) /\ wire'[k] = wire[k] /\ wire[k] \in Events BY <1>1, <2>3, <3>2
      <4>2. wire[k].item # i /\ wire[k].item \in Items BY <2>1, <2>3, <2>6, <4>1 DEF Events
      <4>3. \A l \in DOMAIN wire : l > k => wire[l].item # wire[k].item BY <2>3, <2>6, <4>1
      <4>4. wire[k].value = truth[wire[k].item]
        BY <1>5, <2>3, <4>1, <4>3 DEF PageInv, LastEventIsTrue
      <4>5. QED BY <1>3, <4>1, <4>2, <4>4
    <3>3. QED BY <3>1, <3>2
  <2>7. LastEventIsTrue' BY <2>6 DEF LastEventIsTrue
  <2>8. PageLinks' BY <1>5 DEF PageLinks
  <2>9. QED BY <1>2, <1>3, <1>5, <2>3, <2>4, <2>5, <2>7, <2>8
<1>6. QED BY <1>4, <1>5

\* What a change leaves of WrongIsCorrected where the list, its fetch and the socket stand.
LEMMA ChangeKeeps ==
    ASSUME PageSized, PageInv, NEW i \in Items, NEW v \in Values, Change(i, v),
           UNCHANGED <<socket, cache, fetch, answer>>, reply' \in Events \cup {NoReply}
    PROVE  PageInv'
<1>1. UNCHANGED <<socket, cache, fetch, answer>> OBVIOUS
<1>2. PageTypeOK' BY ChangeIsTold DEF PageInv, PageTypeOK
<1>3. ASSUME cache # NotLoaded, NEW j \in Items \ stale'
      PROVE  \/ cache[j] = truth'[j] /\ fetch = "none"
             \/ fetch = "asked" \/ (fetch = "answered" /\ answer[j] = truth'[j])
             \/ Coming(j)' \/ socket = "lost"
  <2>1. j \in Items \ stale BY <1>3, ChangeIsTold
  <2>2. CASE j = i
    <3>1. socket # "connecting" BY <1>3, <2>2, ChangeIsTold
    <3>2. QED BY <2>2, <3>1, ChangeIsTold DEF PageInv, PageTypeOK
  <2>3. CASE j # i
    <3>1. truth'[j] = truth[j] /\ (Coming(j) => Coming(j)') BY <2>3, ChangeIsTold
    <3>2. QED BY <1>3, <2>1, <3>1 DEF PageInv, WrongIsCorrected
  <2>4. QED BY <2>2, <2>3
<1>4. WrongIsCorrected' BY <1>1, <1>3 DEF WrongIsCorrected
<1>5. ASSUME fetch = "answered", NEW j \in Items \ stale'
      PROVE  answer[j] = truth'[j] \/ Coming(j)' \/ socket = "lost"
  <2>1. j \in Items \ stale BY <1>5, ChangeIsTold
  <2>2. CASE j = i
    <3>1. socket # "connecting" BY <1>5, <2>2, ChangeIsTold
    <3>2. QED BY <2>2, <3>1, ChangeIsTold DEF PageInv, PageTypeOK
  <2>3. CASE j # i
    <3>1. truth'[j] = truth[j] /\ (Coming(j) => Coming(j)') BY <2>3, ChangeIsTold
    <3>2. QED BY <1>5, <2>1, <3>1 DEF PageInv, AnswersAreTold
  <2>4. QED BY <2>2, <2>3
<1>6. AnswersAreTold' BY <1>1, <1>5 DEF AnswersAreTold
<1>7. QED BY <1>2, <1>4, <1>6, ChangeIsTold DEF PageInv

\* When an event is taken off the wire, the entry it is of has another one coming or is as it says.
LEMMA EventLeaves ==
    ASSUME PageSized, PageInv, socket = "open", wire # <<>>, wire' = Tail(wire),
           UNCHANGED <<truth, socket>>
    PROVE  /\ wire' \in Seq(Events) /\ Head(wire) \in Events /\ LastEventIsTrue'
           /\ \A j \in Items : Coming(j) => Coming(j)' \/ j = Head(wire).item
           /\ \A j \in Items : j = Head(wire).item => Coming(j)' \/ Head(wire).value = truth[j]
<1>1. /\ wire \in Seq(Events) /\ wire' \in Seq(Events) /\ Head(wire) = wire[1] /\ wire[1] \in Events
      /\ Len(wire) \in Nat \ {0} /\ DOMAIN wire = 1..Len(wire) /\ DOMAIN wire' = 1..(Len(wire) - 1)
      /\ \A k \in 1..(Len(wire) - 1) : wire'[k] = wire[k + 1]
  BY DEF PageInv, PageTypeOK
<1>2. ASSUME NEW j \in Items, Coming(j), j # wire[1].item PROVE Coming(j)'
  <2>1. PICK k \in 1..Len(wire) : wire[k].item = j BY <1>1, <1>2 DEF Coming
  <2>2. k # 1 /\ k - 1 \in 1..(Len(wire) - 1) /\ wire'[k - 1] = wire[k] BY <1>1, <1>2, <2>1
  <2>3. QED BY <1>1, <2>1, <2>2 DEF Coming
<1>3. ASSUME NEW j \in Items, j = wire[1].item, ~Coming(j)' PROVE wire[1].value = truth[j]
  <2>1. ASSUME NEW l \in DOMAIN wire, l > 1 PROVE wire[l].item # wire[1].item
    <3>1. l - 1 \in DOMAIN wire' /\ wire'[l - 1] = wire[l] BY <1>1, <2>1
    <3>2. QED BY <1>3, <3>1 DEF Coming
  <2>2. QED BY <1>1, <1>3, <2>1 DEF PageInv, LastEventIsTrue
<1>4. ASSUME NEW k \in DOMAIN wire',
             \A l \in DOMAIN wire' : l > k => wire'[l].item # wire'[k].item
      PROVE  wire'[k].value = truth[wire'[k].item]
  <2>1. k + 1 \in DOMAIN wire /\ wire'[k] = wire[k + 1] BY <1>1, <1>4
  <2>2. ASSUME NEW l \in DOMAIN wire, l > k + 1 PROVE wire[l].item # wire[k + 1].item
    <3>1. l - 1 \in DOMAIN wire' /\ wire'[l - 1] = wire[l] /\ l - 1 > k BY <1>1, <1>4, <2>2
    <3>2. QED BY <1>4, <2>1, <3>1
  <2>3. QED BY <2>1, <2>2 DEF PageInv, LastEventIsTrue
<1>5. LastEventIsTrue' BY <1>4 DEF LastEventIsTrue
<1>6. QED BY <1>1, <1>2, <1>3, <1>5

LEMMA EventArrivesKeeps == ASSUME PageSized, PageInv, EventArrives PROVE PageInv'
<1> DEFINE e == Head(wire)
<1>1. socket = "open" /\ wire # <<>> /\ wire' = Tail(wire) /\ UNCHANGED <<truth, socket, answer, reply>>
  BY DEF EventArrives
<1>2. /\ wire' \in Seq(Events) /\ e \in Events /\ e.item \in Items /\ e.value \in Values /\ LastEventIsTrue'
      /\ \A j \in Items : Coming(j) => Coming(j)' \/ j = e.item
      /\ \A j \in Items : j = e.item => Coming(j)' \/ e.value = truth[j]
  BY <1>1, EventLeaves DEF Events
<1>3. /\ fetch' \in {fetch, "asked"}
      /\ cache' = IF cache = NotLoaded \/ ~Patched THEN cache ELSE [cache EXCEPT ![e.item] = e.value]
      /\ Patched => fetch' = fetch
      /\ ~Patched => fetch' = IF cache = NotLoaded THEN fetch ELSE "asked"
      /\ stale' = IF fetch' = "answered" /\ answer[e.item] # truth[e.item] THEN stale \cup {e.item} ELSE stale
  BY DEF EventArrives, Invalidated
<1> HIDE DEF e
<1>4. PageTypeOK /\ Patched \in BOOLEAN /\ NotLoaded \notin [Items -> Values] BY DEF PageInv, PageSized
<1>5. stale' \subseteq Items /\ stale \subseteq stale' BY <1>2, <1>3, <1>4 DEF PageTypeOK
<1>6. cache' \in [Items -> Values] \cup {NotLoaded} BY <1>2, <1>3, <1>4 DEF PageTypeOK
<1>7. PageTypeOK' BY <1>1, <1>2, <1>3, <1>4, <1>5, <1>6 DEF PageTypeOK
<1>8. PageLinks' BY <1>1 DEF PageLinks
<1>9. ASSUME cache' # NotLoaded, NEW j \in Items \ stale'
      PROVE  \/ cache'[j] = truth[j] /\ fetch' = "none"
             \/ fetch' = "asked" \/ (fetch' = "answered" /\ answer[j] = truth[j])
             \/ Coming(j)' \/ socket = "lost"
  <2>1. j \in Items \ stale /\ cache # NotLoaded BY <1>3, <1>5, <1>9
  <2>2. CASE ~Patched BY <1>3, <2>1, <2>2
  <2>3. CASE Patched
    <3>1. fetch' = fetch /\ cache \in [Items -> Values] /\ cache' = [cache EXCEPT ![e.item] = e.value]
      BY <1>3, <1>4, <2>1, <2>3 DEF PageTypeOK
    <3>2. CASE j = e.item
      <4>1. fetch \in {"none", "asked", "answered"} BY <1>4 DEF PageTypeOK
      <4>2. fetch = "answered" => answer[j] = truth[j] BY <1>3, <1>9, <3>1, <3>2
      <4>3. Coming(j)' \/ cache'[j] = truth[j] BY <1>2, <3>1, <3>2
      <4>4. QED BY <3>1, <4>1, <4>2, <4>3
    <3>3. CASE j # e.item
      <4>1. cache'[j] = cache[j] /\ (Coming(j) => Coming(j)') BY <1>2, <2>1, <3>1, <3>3
      <4>2. QED BY <2>1, <3>1, <4>1 DEF PageInv, WrongIsCorrected
    <3>4. QED BY <3>2, <3>3
  <2>4. QED BY <1>4, <2>2, <2>3
<1>10. WrongIsCorrected' BY <1>1, <1>9 DEF WrongIsCorrected
<1>11. ASSUME fetch' = "answered", NEW j \in Items \ stale'
       PROVE  answer[j] = truth[j] \/ Coming(j)' \/ socket = "lost"
  <2>1. fetch = "answered" /\ j \in Items \ stale BY <1>3, <1>5, <1>11
  <2>2. j = e.item => answer[j] = truth[j] BY <1>3, <1>11
  <2>3. QED BY <1>2, <2>1, <2>2 DEF PageInv, AnswersAreTold
<1>12. AnswersAreTold' BY <1>1, <1>11 DEF AnswersAreTold
<1>13. QED BY <1>2, <1>7, <1>8, <1>10, <1>12 DEF PageInv

LEMMA ReplyLandsKeeps == ASSUME PageSized, PageInv, ReplyLands PROVE PageInv'
<1>1. /\ reply # NoReply /\ cache # NotLoaded /\ reply' = NoReply /\ UNCHANGED <<truth, socket, wire, answer>>
      /\ PageTypeOK /\ Patched \in BOOLEAN /\ NotLoaded \notin [Items -> Values]
  BY DEF ReplyLands, PageInv, PageSized
<1>2. reply \in Events /\ reply.item \in Items /\ reply.value \in Values BY <1>1 DEF PageTypeOK, Events
<1>3. PageLinks' /\ LastEventIsTrue' BY <1>1 DEF PageInv, PageLinks, LastEventIsTrue
<1>4. \A j \in Items : Coming(j)' <=> Coming(j) BY <1>1 DEF Coming
<1>5. CASE ~Patched
  <2>1. fetch' = "asked" /\ UNCHANGED <<cache, stale>> BY <1>1, <1>5 DEF ReplyLands, Invalidated
  <2>2. PageTypeOK' BY <1>1, <2>1 DEF PageTypeOK
  <2>3. WrongIsCorrected' /\ AnswersAreTold' BY <2>1 DEF WrongIsCorrected, AnswersAreTold
  <2>4. QED BY <1>3, <2>2, <2>3 DEF PageInv
<1>6. CASE Patched
  <2>1. /\ cache' = [cache EXCEPT ![reply.item] = reply.value] /\ fetch' = fetch
        /\ stale' = IF truth[reply.item] # reply.value THEN stale \cup {reply.item} ELSE stale
    BY <1>1, <1>6 DEF ReplyLands
  <2>2. cache \in [Items -> Values] BY <1>1 DEF PageTypeOK
  <2>3. cache' \in [Items -> Values] /\ stale' \subseteq Items /\ stale \subseteq stale'
    BY <1>1, <1>2, <2>1, <2>2 DEF PageTypeOK
  <2>4. PageTypeOK' BY <1>1, <2>1, <2>3 DEF PageTypeOK
  <2>5. ASSUME NEW j \in Items \ stale'
        PROVE  \/ cache'[j] = truth[j] /\ fetch = "none"
               \/ fetch = "asked" \/ (fetch = "answered" /\ answer[j] = truth[j])
               \/ Coming(j) \/ socket = "lost"
    <3>1. j \in Items \ stale BY <2>3, <2>5
    <3>2. cache[j] = truth[j] => cache'[j] = truth[j] BY <2>1, <2>2, <2>5
    <3>3. QED BY <1>1, <3>1, <3>2 DEF PageInv, WrongIsCorrected
  <2>6. WrongIsCorrected' BY <1>1, <1>4, <2>1, <2>5 DEF WrongIsCorrected
  <2>7. AnswersAreTold' BY <1>1, <1>4, <2>1, <2>3 DEF PageInv, AnswersAreTold
  <2>8. QED BY <1>3, <2>4, <2>6, <2>7 DEF PageInv
<1>7. QED BY <1>1, <1>5, <1>6

LEMMA SocketOpensKeeps == ASSUME PageSized, PageInv, SocketOpens PROVE PageInv'
<1>1. /\ socket # "open" /\ socket' = "open" /\ UNCHANGED <<truth, wire, cache, answer, reply>>
      /\ PageTypeOK /\ wire = <<>> /\ \A j \in Items : ~Coming(j)
  BY DEF SocketOpens, PageInv, PageLinks, Coming
<1>2. PageLinks' /\ LastEventIsTrue' BY <1>1 DEF PageLinks, LastEventIsTrue
<1>3. CASE socket = "lost"
  <2>1. /\ fetch' = IF cache = NotLoaded THEN fetch ELSE "asked"
        /\ stale' = IF fetch' = "answered" THEN {i \in Items : answer[i] # truth[i]}
                    ELSE IF fetch' = "asked" THEN {} ELSE stale
    BY <1>3 DEF SocketOpens, Invalidated
  <2>2. PageTypeOK' BY <1>1, <2>1 DEF PageTypeOK
  <2>3. WrongIsCorrected' BY <1>1, <2>1 DEF WrongIsCorrected
  <2>4. AnswersAreTold' BY <1>1, <2>1 DEF AnswersAreTold
  <2>5. QED BY <1>2, <2>2, <2>3, <2>4 DEF PageInv
<1>4. CASE socket # "lost"
  <2>1. UNCHANGED <<fetch, stale>> BY <1>4 DEF SocketOpens
  <2>2. PageTypeOK' BY <1>1, <2>1 DEF PageTypeOK
  <2>3. WrongIsCorrected' BY <1>1, <1>4, <2>1 DEF PageInv, WrongIsCorrected
  <2>4. AnswersAreTold' BY <1>1, <1>4, <2>1 DEF PageInv, AnswersAreTold
  <2>5. QED BY <1>2, <2>2, <2>3, <2>4 DEF PageInv
<1>5. QED BY <1>3, <1>4

LEMMA PageStep == ASSUME PageSized, PageInv, [PageNext]_pageVars PROVE PageInv'
<1>1. PageTypeOK /\ NotLoaded \notin [Items -> Values] BY DEF PageInv, PageSized
<1>2. ASSUME NEW i \in Items, NEW v \in Values, ServerChanges(i, v) PROVE PageInv'
  <2>1. Change(i, v) /\ UNCHANGED <<socket, cache, fetch, answer, reply>> BY <1>2 DEF ServerChanges
  <2>2. reply' \in Events \cup {NoReply} BY <1>1, <2>1 DEF PageTypeOK
  <2>3. QED BY <2>1, <2>2, ChangeKeeps
<1>3. ASSUME NEW i \in Items, NEW v \in Values, PageChanges(i, v) PROVE PageInv'
  <2>1. Change(i, v) /\ UNCHANGED <<socket, cache, fetch, answer>> /\ reply' = [item |-> i, value |-> v]
    BY <1>3 DEF PageChanges
  <2>2. QED BY <2>1, ChangeKeeps DEF Events
<1>4. CASE ServerAnswers
  <2>1. fetch' = "answered" /\ answer' = truth /\ stale' = {} /\ UNCHANGED <<truth, socket, wire, cache, reply>>
    BY <1>4 DEF ServerAnswers
  <2>2. PageTypeOK' BY <1>1, <2>1 DEF PageTypeOK
  <2>3. QED BY <2>1, <2>2 DEF PageInv, PageLinks, AnswersAreTold, WrongIsCorrected, LastEventIsTrue
<1>5. CASE FetchList
  <2>1. fetch' = "asked" /\ UNCHANGED <<truth, socket, wire, cache, answer, reply, stale>> BY <1>5 DEF FetchList
  <2>2. PageTypeOK' BY <1>1, <2>1 DEF PageTypeOK
  <2>3. QED BY <2>1, <2>2 DEF PageInv, PageLinks, AnswersAreTold, WrongIsCorrected, LastEventIsTrue
<1>6. CASE FetchLands
  <2>1. /\ fetch = "answered" /\ fetch' = "none" /\ cache' = answer
        /\ UNCHANGED <<truth, socket, wire, answer, reply, stale>>
    BY <1>6 DEF FetchLands
  <2>2. PageTypeOK' BY <1>1, <2>1 DEF PageTypeOK
  <2>3. ASSUME NEW j \in Items \ stale PROVE answer[j] = truth[j] \/ Coming(j) \/ socket = "lost"
    BY <2>1, <2>3 DEF PageInv, AnswersAreTold
  <2>4. \A j \in Items : Coming(j)' <=> Coming(j) BY <2>1 DEF Coming
  <2>5. WrongIsCorrected' BY <2>1, <2>3, <2>4 DEF WrongIsCorrected
  <2>6. QED BY <2>1, <2>2, <2>5 DEF PageInv, PageLinks, AnswersAreTold, LastEventIsTrue
<1>7. CASE ListFetchFails
  <2>1. /\ fetch' = "none" /\ stale' = (IF cache = NotLoaded THEN stale ELSE Items)
        /\ UNCHANGED <<truth, socket, wire, cache, answer, reply>>
    BY <1>7 DEF ListFetchFails
  <2>2. PageTypeOK' BY <1>1, <2>1 DEF PageTypeOK
  <2>3. QED BY <2>1, <2>2 DEF PageInv, PageLinks, AnswersAreTold, WrongIsCorrected, LastEventIsTrue
<1>8. CASE SocketCloses
  <2>1. socket' = "lost" /\ wire' = <<>> /\ UNCHANGED <<truth, cache, fetch, answer, reply, stale>>
    BY <1>8 DEF SocketCloses
  <2>2. PageTypeOK' BY <1>1, <2>1 DEF PageTypeOK
  <2>3. QED BY <2>1, <2>2 DEF PageInv, PageLinks, AnswersAreTold, WrongIsCorrected, LastEventIsTrue
<1>9. CASE UNCHANGED pageVars
  <2>1. UNCHANGED <<truth, socket, wire, cache, fetch, answer, reply, stale>> BY <1>9 DEF pageVars
  <2>2. PageTypeOK' BY <1>1, <2>1 DEF PageTypeOK
  <2>3. QED BY <2>1, <2>2 DEF PageInv, PageLinks, AnswersAreTold, WrongIsCorrected, LastEventIsTrue, Coming
<1>10. QED
  BY <1>2, <1>3, <1>4, <1>5, <1>6, <1>7, <1>8, <1>9, ReplyLandsKeeps, EventArrivesKeeps, SocketOpensKeeps
  DEF PageNext

\* The live page: whatever order fetches, events and answers arrive in, an entry it shows wrongly is
\* about to be corrected, unless for one of the causes the model names; a page that is connected and
\* has nothing on its way shows what the server has.
THEOREM PagesAreCorrected == ASSUME PageSized PROVE PageSpec => [](WrongIsCorrected /\ QuietPageIsRight)
<1>1. PageInit => PageInv BY PageInitially
<1>2. PageInv /\ [PageNext]_pageVars => PageInv' BY PageStep
<1>3. PageInv => WrongIsCorrected /\ QuietPageIsRight
  BY DEF PageInv, WrongIsCorrected, QuietPageIsRight, Coming
<1>4. QED BY <1>1, <1>2, <1>3, PTL DEF PageSpec

--------------------------------------------------------------------------------
(* UiThread.                                                                    *)

\* What the task, its job and the links have to do with each other.
UiTasks ==
    /\ taken \notin claimed
    /\ task = "install" => Installing /\ ~due
    /\ task = "ending" => ~Installing /\ ~due /\ linked # "none"
    /\ task \notin {"install", "ending", "crashed"} => (due <=> Installing)
    /\ ticks <=> linked = "http"
    /\ task \in {"quiet", "update"} => linked # "none"
    /\ task = "saves" /\ step # "open" => linked # "none"
    /\ task \in {"none", "crashed"} => outer = "none"
    /\ (due \/ task = "install") /\ linked = "none" => rewired

\* Which requests may be under way together.
UiCalls ==
    /\ outer = "control" => how = "ask"
    /\ inside = "no" => inner = "none"
    /\ inside = "tick" => Installing /\ linked = "http" /\ Visible /\ outer # "control"
    /\ inside = "hook" => task = "install" /\ linked = "usb" /\ outer = "none"
    /\ inner # "none" => inner = ApiLink

UiInv ==
    /\ UiSized /\ UiTypeOK /\ UiTasks /\ UiCalls
    /\ NeverWaitsForItself /\ LinksInUseStay /\ CancelsReachTheirJob /\ CancelsStayWithTheirJob
    /\ CancelledSavesStop /\ CrashesAreResets

LEMMA UiInitially == ASSUME UiSized, UiInit PROVE UiInv
<1> USE DEF UiSized, UiInit, NoJob
<1>1. UiTypeOK BY DEF UiTypeOK
<1>2. UiTasks BY DEF UiTasks, Installing
<1>3. UiCalls BY DEF UiCalls, Visible
<1>4. NeverWaitsForItself /\ LinksInUseStay BY DEF NeverWaitsForItself, LinksInUseStay, Held
<1>5. CancelsReachTheirJob /\ CancelsStayWithTheirJob /\ CancelledSavesStop /\ CrashesAreResets
  BY DEF CancelsReachTheirJob, CancelsStayWithTheirJob, CancelledSavesStop, CrashesAreResets, Installing
<1>6. QED BY <1>1, <1>2, <1>3, <1>4, <1>5 DEF UiInv

\* The type invariant in two halves: one for each of the provers.
UiFlags ==
    /\ useUsb \in BOOLEAN /\ ticks \in BOOLEAN /\ pinging \in BOOLEAN /\ due \in BOOLEAN
    /\ cancelling \in BOOLEAN /\ aborted \in BOOLEAN /\ given \in BOOLEAN /\ stuck \in BOOLEAN
    /\ askedFor \in BOOLEAN /\ rewired \in BOOLEAN /\ strayed \in BOOLEAN

UiShapes ==
    /\ linked \in {"none", "http", "usb"}
    /\ task \in {"none", "quiet", "install", "ending", "saves", "update", "crashed"}
    /\ step \in {"open", "cleared", "packed"}
    /\ outer \in {"none", "data", "control"} /\ how \in {"ask", "stream", "send"}
    /\ inside \in {"no", "tick", "hook"} /\ inner \in {"none", "data", "control"}
    /\ taken \in UiJobs \cup {NoJob} /\ claimed \subseteq UiJobs

LEMMA UiFlagsKeep == ASSUME UiFlags, [UiNext]_uiVars PROVE UiFlags'
<1> USE DEF UiFlags, links, calls, jobs, flags
<1>1. CASE Answer BY <1>1 DEF Answer
<1>2. CASE SideAnswer BY <1>2 DEF SideAnswer
<1>3. CASE BeginQuiet BY <1>3 DEF BeginQuiet, EnsureClient
<1>4. CASE QuietAsk BY <1>4, ZenonT(40) DEF QuietAsk, Ask, Idle
<1>5. CASE EndQuiet BY <1>5 DEF EndQuiet, Idle
<1>6. CASE RunInstall BY <1>6 DEF RunInstall
<1>7. CASE InstallCrashes BY <1>7 DEF InstallCrashes
<1>8. CASE InstallStreams BY <1>8 DEF InstallStreams, Ask, Idle
<1>9. CASE InstallReports BY <1>9 DEF InstallReports, Ask, Idle
<1>10. CASE InstallEnds BY <1>10 DEF InstallEnds, Idle
<1>11. CASE FetchStaleCatalog BY <1>11 DEF FetchStaleCatalog, Ask, Idle
<1>12. CASE PumpNext BY <1>12, ZenonT(40) DEF PumpNext, PumpWith, Idle
<1>13. CASE BeginUpdate BY <1>13 DEF BeginUpdate, EnsureClient
<1>14. CASE BeginSaves BY <1>14 DEF BeginSaves
<1>15. CASE ClearTransfer BY <1>15 DEF ClearTransfer, EnsureClient, Idle
<1>16. CASE FirstReport BY <1>16 DEF FirstReport, Idle
<1>17. CASE ListSaves BY <1>17 DEF ListSaves, Ask, Idle
<1>18. CASE ScreenEnds BY <1>18 DEF ScreenEnds, Idle
<1>19. CASE Tick BY <1>19 DEF Tick
<1>20. CASE ChunkHook BY <1>20 DEF ChunkHook, Idle
<1>21. CASE SideAsk BY <1>21 DEF SideAsk, Ask
<1>22. CASE SideEnds BY <1>22 DEF SideEnds
<1>23. CASE Press BY <1>23 DEF Press
<1>24. CASE PingBegins BY <1>24 DEF PingBegins
<1>25. CASE PingEnds BY <1>25 DEF PingEnds
<1>26. ASSUME NEW usb \in BOOLEAN, Reset(usb) PROVE UiFlags' BY <1>26 DEF Reset, ResetConnection, Idle
<1>27. ASSUME NEW j \in UiJobs, TakeJob(j) PROVE UiFlags' BY <1>27, ZenonT(40) DEF TakeJob, PumpWith, Between, Idle
<1>28. ASSUME NEW j \in UiJobs, CancelJob(j) PROVE UiFlags' BY <1>28, ZenonT(40) DEF CancelJob, Ask, Between, Idle
<1>29. ASSUME NEW kind \in {"stream", "send"}, Transfer(kind) PROVE UiFlags' BY <1>29 DEF Transfer, Ask, Idle
<1>30. ASSUME NEW kind \in {"ask", "stream"}, UpdateAsks(kind) PROVE UiFlags' BY <1>30 DEF UpdateAsks, Ask, Idle
<1>31. CASE UNCHANGED uiVars BY <1>31 DEF uiVars
<1>32. QED
  BY <1>1, <1>2, <1>3, <1>4, <1>5, <1>6, <1>7, <1>8, <1>9, <1>10, <1>11, <1>12, <1>13, <1>14,
     <1>15, <1>16, <1>17, <1>18, <1>19, <1>20, <1>21, <1>22, <1>23, <1>24, <1>25, <1>26, <1>27, <1>28, <1>29, <1>30, <1>31 DEF UiNext

LEMMA UiShapesKeep == ASSUME UiShapes, [UiNext]_uiVars PROVE UiShapes'
<1> USE DEF UiShapes, links, calls, jobs, flags
<1>1. CASE Answer BY <1>1 DEF Answer
<1>2. CASE SideAnswer BY <1>2 DEF SideAnswer
<1>3. CASE BeginQuiet BY <1>3 DEF BeginQuiet, EnsureClient
<1>4. CASE QuietAsk BY <1>4 DEF QuietAsk, Ask, Idle, ApiLink
<1>5. CASE EndQuiet BY <1>5 DEF EndQuiet, Idle
<1>6. CASE RunInstall BY <1>6 DEF RunInstall
<1>7. CASE InstallCrashes BY <1>7 DEF InstallCrashes
<1>8. CASE InstallStreams BY <1>8 DEF InstallStreams, Ask, Idle, ApiLink
<1>9. CASE InstallReports BY <1>9 DEF InstallReports, Ask, Idle, ApiLink
<1>10. CASE InstallEnds BY <1>10 DEF InstallEnds, Idle
<1>11. CASE FetchStaleCatalog BY <1>11 DEF FetchStaleCatalog, Ask, Idle, ApiLink
<1>12. CASE PumpNext BY <1>12 DEF PumpNext, PumpWith, Idle
<1>13. CASE BeginUpdate BY <1>13 DEF BeginUpdate, EnsureClient
<1>14. CASE BeginSaves BY <1>14 DEF BeginSaves
<1>15. CASE ClearTransfer BY <1>15 DEF ClearTransfer, EnsureClient, Idle
<1>16. CASE FirstReport BY <1>16 DEF FirstReport, Idle
<1>17. CASE ListSaves BY <1>17 DEF ListSaves, Ask, Idle, ApiLink
<1>18. CASE ScreenEnds BY <1>18 DEF ScreenEnds, Idle
<1>19. CASE Tick BY <1>19 DEF Tick
<1>20. CASE ChunkHook BY <1>20 DEF ChunkHook, Idle
<1>21. CASE SideAsk BY <1>21 DEF SideAsk, Ask, ApiLink
<1>22. CASE SideEnds BY <1>22 DEF SideEnds
<1>23. CASE Press BY <1>23 DEF Press
<1>24. CASE PingBegins BY <1>24 DEF PingBegins
<1>25. CASE PingEnds BY <1>25 DEF PingEnds
<1>26. ASSUME NEW usb \in BOOLEAN, Reset(usb) PROVE UiShapes' BY <1>26 DEF Reset, ResetConnection, Idle
<1>27. ASSUME NEW j \in UiJobs, TakeJob(j) PROVE UiShapes' BY <1>27 DEF TakeJob, PumpWith, Between, Idle
<1>28. ASSUME NEW j \in UiJobs, CancelJob(j) PROVE UiShapes' BY <1>28 DEF CancelJob, Ask, Between, Idle, ApiLink
<1>29. ASSUME NEW kind \in {"stream", "send"}, Transfer(kind) PROVE UiShapes' BY <1>29 DEF Transfer, Ask, Idle, ApiLink
<1>30. ASSUME NEW kind \in {"ask", "stream"}, UpdateAsks(kind) PROVE UiShapes' BY <1>30 DEF UpdateAsks, Ask, Idle, ApiLink
<1>31. CASE UNCHANGED uiVars BY <1>31 DEF uiVars
<1>32. QED
  BY <1>1, <1>2, <1>3, <1>4, <1>5, <1>6, <1>7, <1>8, <1>9, <1>10, <1>11, <1>12, <1>13, <1>14,
     <1>15, <1>16, <1>17, <1>18, <1>19, <1>20, <1>21, <1>22, <1>23, <1>24, <1>25, <1>26, <1>27, <1>28, <1>29, <1>30, <1>31 DEF UiNext

LEMMA UiTypes == ASSUME UiTypeOK, [UiNext]_uiVars PROVE UiTypeOK'
<1>1. UiFlags /\ UiShapes BY Zenon DEF UiTypeOK, UiFlags, UiShapes
<1>2. UiFlags' /\ UiShapes' BY <1>1, UiFlagsKeep, UiShapesKeep
<1>3. QED BY <1>2, Zenon DEF UiTypeOK, UiFlags, UiShapes

LEMMA UiStep == ASSUME UiInv, [UiNext]_uiVars PROVE UiInv'
<1> USE DEF UiInv, UiSized, UiTypeOK, UiTasks, UiCalls, NeverWaitsForItself, LinksInUseStay,
            CancelsReachTheirJob, CancelsStayWithTheirJob, CancelledSavesStop, CrashesAreResets,
            Installing, Held, NoJob, Visible, ApiLink, links, calls, jobs, flags
<1>1. CASE Answer BY <1>1 DEF Answer
<1>2. CASE SideAnswer BY <1>2 DEF SideAnswer
<1>3. CASE BeginQuiet
  <2>1. UiTypeOK' BY UiTypes DEF UiInv
  <2>2. UiTasks' BY <1>3 DEF BeginQuiet, EnsureClient
  <2>3. UiCalls' /\ NeverWaitsForItself' BY <1>3 DEF BeginQuiet, EnsureClient
  <2>4. LinksInUseStay' BY <1>3 DEF BeginQuiet, EnsureClient
  <2>5. (CancelsReachTheirJob /\ CancelsStayWithTheirJob /\ CancelledSavesStop /\ CrashesAreResets)'
    BY <1>3 DEF BeginQuiet, EnsureClient
  <2>6. QED BY <2>1, <2>2, <2>3, <2>4, <2>5
<1>4. CASE QuietAsk BY <1>4 DEF QuietAsk, Ask, Idle
<1>5. CASE EndQuiet BY <1>5 DEF EndQuiet, Idle
<1>6. CASE RunInstall
  <2>1. UiTypeOK' BY UiTypes DEF UiInv
  <2>2. UiTasks' BY <1>6 DEF RunInstall
  <2>3. UiCalls' /\ NeverWaitsForItself' BY <1>6 DEF RunInstall
  <2>4. LinksInUseStay' BY <1>6 DEF RunInstall
  <2>5. (CancelsReachTheirJob /\ CancelsStayWithTheirJob /\ CancelledSavesStop /\ CrashesAreResets)'
    BY <1>6 DEF RunInstall
  <2>6. QED BY <2>1, <2>2, <2>3, <2>4, <2>5
<1>7. CASE InstallCrashes BY <1>7 DEF InstallCrashes
<1>8. CASE InstallStreams BY <1>8 DEF InstallStreams, Ask, Idle
<1>9. CASE InstallReports BY <1>9 DEF InstallReports, Ask, Idle
<1>10. CASE InstallEnds BY <1>10 DEF InstallEnds, Idle
<1>11. CASE FetchStaleCatalog BY <1>11 DEF FetchStaleCatalog, Ask, Idle
<1>12. CASE PumpNext
  <2>1. UiTypeOK' BY UiTypes DEF UiInv
  <2>2. UiTasks' BY <1>12 DEF PumpNext, PumpWith, Idle
  <2>3. UiCalls' /\ NeverWaitsForItself' BY <1>12 DEF PumpNext, PumpWith, Idle
  <2>4. LinksInUseStay' BY <1>12 DEF PumpNext, PumpWith, Idle
  <2>5. (CancelsReachTheirJob /\ CancelsStayWithTheirJob /\ CancelledSavesStop /\ CrashesAreResets)'
    BY <1>12 DEF PumpNext, PumpWith, Idle
  <2>6. QED BY <2>1, <2>2, <2>3, <2>4, <2>5
<1>13. CASE BeginUpdate
  <2>1. UiTypeOK' BY UiTypes DEF UiInv
  <2>2. UiTasks' BY <1>13 DEF BeginUpdate, EnsureClient
  <2>3. UiCalls' /\ NeverWaitsForItself' BY <1>13 DEF BeginUpdate, EnsureClient
  <2>4. LinksInUseStay' BY <1>13 DEF BeginUpdate, EnsureClient
  <2>5. (CancelsReachTheirJob /\ CancelsStayWithTheirJob /\ CancelledSavesStop /\ CrashesAreResets)'
    BY <1>13 DEF BeginUpdate, EnsureClient
  <2>6. QED BY <2>1, <2>2, <2>3, <2>4, <2>5
<1>14. CASE BeginSaves
  <2>1. UiTypeOK' BY UiTypes DEF UiInv
  <2>2. UiTasks' BY <1>14 DEF BeginSaves
  <2>3. UiCalls' /\ NeverWaitsForItself' BY <1>14 DEF BeginSaves
  <2>4. LinksInUseStay' BY <1>14 DEF BeginSaves
  <2>5. (CancelsReachTheirJob /\ CancelsStayWithTheirJob /\ CancelledSavesStop /\ CrashesAreResets)'
    BY <1>14 DEF BeginSaves
  <2>6. QED BY <2>1, <2>2, <2>3, <2>4, <2>5
<1>15. CASE ClearTransfer
  <2>1. UiTypeOK' BY UiTypes DEF UiInv
  <2>2. UiTasks' BY <1>15 DEF ClearTransfer, EnsureClient, Idle
  <2>3. UiCalls' /\ NeverWaitsForItself' BY <1>15 DEF ClearTransfer, EnsureClient, Idle
  <2>4. LinksInUseStay' BY <1>15 DEF ClearTransfer, EnsureClient, Idle
  <2>5. (CancelsReachTheirJob /\ CancelsStayWithTheirJob /\ CancelledSavesStop /\ CrashesAreResets)'
    BY <1>15 DEF ClearTransfer, EnsureClient, Idle
  <2>6. QED BY <2>1, <2>2, <2>3, <2>4, <2>5
<1>16. CASE FirstReport BY <1>16 DEF FirstReport, Idle
<1>17. CASE ListSaves BY <1>17 DEF ListSaves, Ask, Idle
<1>18. CASE ScreenEnds
  <2>1. UiTypeOK' BY UiTypes DEF UiInv
  <2>2. UiTasks' BY <1>18 DEF ScreenEnds, Idle
  <2>3. UiCalls' /\ NeverWaitsForItself' BY <1>18 DEF ScreenEnds, Idle
  <2>4. LinksInUseStay' BY <1>18 DEF ScreenEnds, Idle
  <2>5. (CancelsReachTheirJob /\ CancelsStayWithTheirJob /\ CancelledSavesStop /\ CrashesAreResets)'
    BY <1>18 DEF ScreenEnds, Idle
  <2>6. QED BY <2>1, <2>2, <2>3, <2>4, <2>5
<1>19. CASE Tick BY <1>19 DEF Tick
<1>20. CASE ChunkHook BY <1>20 DEF ChunkHook, Idle
<1>21. CASE SideAsk BY <1>21 DEF SideAsk, Ask
<1>22. CASE SideEnds BY <1>22 DEF SideEnds
<1>23. CASE Press
  <2>1. UiTypeOK' BY UiTypes DEF UiInv
  <2>2. UiTasks' BY <1>23 DEF Press
  <2>3. UiCalls' /\ NeverWaitsForItself' BY <1>23 DEF Press
  <2>4. LinksInUseStay' BY <1>23 DEF Press
  <2>5. (CancelsReachTheirJob /\ CancelsStayWithTheirJob /\ CancelledSavesStop /\ CrashesAreResets)'
    BY <1>23 DEF Press
  <2>6. QED BY <2>1, <2>2, <2>3, <2>4, <2>5
<1>24. CASE PingBegins BY <1>24 DEF PingBegins
<1>25. CASE PingEnds
  <2>1. UiTypeOK' BY UiTypes DEF UiInv
  <2>2. UiTasks' BY <1>25 DEF PingEnds
  <2>3. UiCalls' /\ NeverWaitsForItself' BY <1>25 DEF PingEnds
  <2>4. LinksInUseStay' BY <1>25 DEF PingEnds
  <2>5. (CancelsReachTheirJob /\ CancelsStayWithTheirJob /\ CancelledSavesStop /\ CrashesAreResets)'
    BY <1>25 DEF PingEnds
  <2>6. QED BY <2>1, <2>2, <2>3, <2>4, <2>5
<1>26. ASSUME NEW usb \in BOOLEAN, Reset(usb) PROVE UiInv' BY <1>26, ZenonT(40) DEF Reset, ResetConnection, Idle
<1>27. ASSUME NEW j \in UiJobs, TakeJob(j) PROVE UiInv'
  <2>1. UiTypeOK' BY UiTypes DEF UiInv
  <2>2. UiTasks' BY <1>27 DEF TakeJob, PumpWith, Between, Idle
  <2>3. UiCalls' /\ NeverWaitsForItself' BY <1>27 DEF TakeJob, PumpWith, Between, Idle
  <2>4. LinksInUseStay' BY <1>27 DEF TakeJob, PumpWith, Between, Idle
  <2>5. (CancelsReachTheirJob /\ CancelsStayWithTheirJob /\ CancelledSavesStop /\ CrashesAreResets)'
    BY <1>27 DEF TakeJob, PumpWith, Between, Idle
  <2>6. QED BY <2>1, <2>2, <2>3, <2>4, <2>5
<1>28. ASSUME NEW j \in UiJobs, CancelJob(j) PROVE UiInv'
  <2>1. UiTypeOK' BY UiTypes DEF UiInv
  <2>2. UiTasks' BY <1>28 DEF CancelJob, Ask, Between, Idle
  <2>3. UiCalls' /\ NeverWaitsForItself' BY <1>28 DEF CancelJob, Ask, Between, Idle
  <2>4. LinksInUseStay' BY <1>28 DEF CancelJob, Ask, Between, Idle
  <2>5. (CancelsReachTheirJob /\ CancelsStayWithTheirJob /\ CancelledSavesStop /\ CrashesAreResets)'
    BY <1>28 DEF CancelJob, Ask, Between, Idle
  <2>6. QED BY <2>1, <2>2, <2>3, <2>4, <2>5
<1>29. ASSUME NEW kind \in {"stream", "send"}, Transfer(kind) PROVE UiInv' BY <1>29 DEF Transfer, Ask, Idle
<1>30. ASSUME NEW kind \in {"ask", "stream"}, UpdateAsks(kind) PROVE UiInv' BY <1>30 DEF UpdateAsks, Ask, Idle
<1>31. CASE UNCHANGED uiVars BY <1>31 DEF uiVars
<1>32. QED
  BY <1>1, <1>2, <1>3, <1>4, <1>5, <1>6, <1>7, <1>8, <1>9, <1>10, <1>11, <1>12, <1>13, <1>14, <1>15, <1>16, <1>17, <1>18, <1>19, <1>20, <1>21, <1>22, <1>23, <1>24, <1>25, <1>26, <1>27, <1>28, <1>29, <1>30, <1>31 DEF UiNext

\* The UI thread: however requests, ticks, chunk hooks, presses and the ping thread nest, it never
\* waits for a lock of its own and no link in use goes away; a cancel reaches its job and no other;
\* a cancelled save is aborted; only a reset in the gap leaves an install without a client.
THEOREM UiThreadIsSafe ==
    ASSUME UiSized
    PROVE  UiSpec => [](NeverWaitsForItself /\ LinksInUseStay /\ CancelsReachTheirJob
                        /\ CancelsStayWithTheirJob /\ CancelledSavesStop /\ CrashesAreResets)
<1>1. UiInit => UiInv BY UiInitially
<1>2. UiInv /\ [UiNext]_uiVars => UiInv' BY UiStep
<1>3. UiInv => NeverWaitsForItself /\ LinksInUseStay /\ CancelsReachTheirJob
               /\ CancelsStayWithTheirJob /\ CancelledSavesStop /\ CrashesAreResets
  BY DEF UiInv
<1>4. QED BY <1>1, <1>2, <1>3, PTL DEF UiSpec

--------------------------------------------------------------------------------
(* Desktop.                                                                     *)

DeskFlags ==
    /\ quitting \in BOOLEAN /\ closed \in BOOLEAN /\ hidden \in BOOLEAN /\ fresh \in BOOLEAN
    /\ pending \in BOOLEAN /\ hurried \in BOOLEAN /\ silent \in BOOLEAN /\ torn \in BOOLEAN /\ twice \in BOOLEAN

DeskShapes ==
    /\ deskFile \in [port : Int, lan : BOOLEAN] \cup {NoSettings} /\ desk \in DeskSettings
    /\ boot \in {"off", "creating", "listening", "starting", "ready", "failed"}
    /\ tries \in 0 .. PortAttempts /\ deskPort \in 1 .. MaxPort /\ foreign \subseteq Int
    /\ house \in {"none", "up", "closing"} /\ page \in {"none", "ours", "other"} /\ seenBusy \subseteq Int

\* What the start knows of its port, and the exit of its server.
DeskLinks ==
    /\ boot # "off" => Loaded(deskFile).port = desk.port
    /\ boot \in {"starting", "ready"} => desk.port = deskPort
    /\ boot = "creating" => tries = 0
    /\ boot \in {"off", "creating"} <=> house = "none"
    /\ boot = "off" => page = "none"
    /\ page = "other" => hurried
    /\ closed => quitting

DeskInv ==
    /\ DeskSized /\ DeskTypeOK /\ DeskLinks
    /\ PortIsKept /\ PortMovesPastBusyOnes /\ ExitsAreClean /\ WindowIsOurs /\ MenuIsComing

LEMMA SettingsAreLoaded ==
    ASSUME DeskSized, NEW f \in [port : Int, lan : BOOLEAN] \cup {NoSettings}
    PROVE  /\ Loaded(f) \in DeskSettings
           /\ f \in DeskSettings => Loaded(f) = f
  BY DEF DeskSized, Loaded, DeskSettings

LEMMA DeskInitially == ASSUME DeskSized, DeskInit PROVE DeskInv
<1>1. Loaded(NoSettings) \in DeskSettings BY SettingsAreLoaded
<1>2. DeskTypeOK
  <2>1. DeskFlags BY Zenon DEF DeskInit, DeskFlags
  <2>2. DeskShapes
    <3>1. deskFile \in [port : Int, lan : BOOLEAN] \cup {NoSettings} BY DEF DeskInit, DeskSized
    <3>2. QED BY <1>1, <3>1 DEF DeskInit, DeskShapes, DeskSized
  <2>3. QED BY <2>1, <2>2, Zenon DEF DeskTypeOK, DeskFlags, DeskShapes
<1>3. DeskLinks BY DEF DeskInit, DeskLinks
<1>4. PortIsKept /\ PortMovesPastBusyOnes /\ ExitsAreClean /\ WindowIsOurs /\ MenuIsComing
  BY DEF DeskInit, PortIsKept, PortMovesPastBusyOnes, ExitsAreClean, WindowIsOurs, MenuIsComing
<1>5. QED BY <1>2, <1>3, <1>4 DEF DeskInv

LEMMA DeskFlagsKeep == ASSUME DeskFlags, [DeskNext]_deskVars PROVE DeskFlags'
<1> USE DEF DeskFlags, bootVars, quitVars, windowVars, trayVars
<1>1. CASE Launch BY <1>1 DEF Launch
<1>2. CASE CreateServer BY <1>2 DEF CreateServer
<1>3. CASE PortIsBusy BY <1>3 DEF PortIsBusy, Candidate
<1>4. CASE Listens BY <1>4 DEF Listens, Candidate
<1>5. CASE ListenFails BY <1>5 DEF ListenFails
<1>6. CASE StartDone BY <1>6 DEF StartDone, Opens
<1>7. CASE OpenWindow BY <1>7 DEF OpenWindow, Opens
<1>8. CASE CloseWindow BY <1>8 DEF CloseWindow
<1>9. CASE TrayPolls BY <1>9 DEF TrayPolls
<1>10. CASE TrayRefreshes BY <1>10 DEF TrayRefreshes
<1>11. CASE AskQuit BY <1>11 DEF AskQuit, Exits
<1>12. CASE CloseEnds BY <1>12 DEF CloseEnds, Exits
<1>13. ASSUME NEW heard \in BOOLEAN, MenuChanges(heard) PROVE DeskFlags' BY <1>13 DEF MenuChanges
<1>14. ASSUME NEW heard \in BOOLEAN, SetAllowLan(heard) PROVE DeskFlags' BY <1>14 DEF SetAllowLan
<1>15. ASSUME NEW p \in 1 .. MaxPort, PortsChange(p) PROVE DeskFlags' BY <1>15 DEF PortsChange
<1>16. CASE UNCHANGED deskVars BY <1>16 DEF deskVars
<1>17. QED BY <1>1, <1>2, <1>3, <1>4, <1>5, <1>6, <1>7, <1>8, <1>9, <1>10, <1>11, <1>12, <1>13, <1>14, <1>15, <1>16 DEF DeskNext

LEMMA DeskShapesKeep == ASSUME DeskSized, DeskShapes, [DeskNext]_deskVars PROVE DeskShapes'
<1> USE DEF DeskSized, DeskShapes, DeskSettings, bootVars, quitVars, windowVars, trayVars
<1>1. CASE Launch BY <1>1, SettingsAreLoaded DEF Launch
<1>2. CASE CreateServer BY <1>2 DEF CreateServer
<1>3. CASE PortIsBusy
  <2>1. desk.port \in Int /\ tries \in Nat BY DEF DeskSized
  <2>2. tries + 1 \in 0 .. PortAttempts BY <1>3, <2>1 DEF PortIsBusy
  <2>3. Candidate \in Int BY <2>1 DEF Candidate
  <2>4. seenBusy' \subseteq Int BY <1>3, <2>3 DEF PortIsBusy
  <2>5. QED BY <1>3, <2>2, <2>4 DEF PortIsBusy
<1>4. CASE Listens BY <1>4 DEF Listens, Candidate
<1>5. CASE ListenFails BY <1>5 DEF ListenFails
<1>6. CASE StartDone BY <1>6 DEF StartDone, Opens
<1>7. CASE OpenWindow BY <1>7 DEF OpenWindow, Opens
<1>8. CASE CloseWindow BY <1>8 DEF CloseWindow
<1>9. CASE TrayPolls BY <1>9 DEF TrayPolls
<1>10. CASE TrayRefreshes BY <1>10 DEF TrayRefreshes
<1>11. CASE AskQuit BY <1>11 DEF AskQuit, Exits
<1>12. CASE CloseEnds BY <1>12 DEF CloseEnds, Exits
<1>13. ASSUME NEW heard \in BOOLEAN, MenuChanges(heard) PROVE DeskShapes' BY <1>13 DEF MenuChanges
<1>14. ASSUME NEW heard \in BOOLEAN, SetAllowLan(heard) PROVE DeskShapes' BY <1>14 DEF SetAllowLan
<1>15. ASSUME NEW p \in 1 .. MaxPort, PortsChange(p) PROVE DeskShapes' BY <1>15 DEF PortsChange
<1>16. CASE UNCHANGED deskVars BY <1>16 DEF deskVars
<1>17. QED BY <1>1, <1>2, <1>3, <1>4, <1>5, <1>6, <1>7, <1>8, <1>9, <1>10, <1>11, <1>12, <1>13, <1>14, <1>15, <1>16 DEF DeskNext

LEMMA DeskTypes == ASSUME DeskSized, DeskTypeOK, [DeskNext]_deskVars PROVE DeskTypeOK'
<1>1. DeskFlags /\ DeskShapes BY Zenon DEF DeskTypeOK, DeskFlags, DeskShapes
<1>2. DeskFlags' /\ DeskShapes' BY <1>1, DeskFlagsKeep, DeskShapesKeep
<1>3. QED BY <1>2, Zenon DEF DeskTypeOK, DeskFlags, DeskShapes

LEMMA DeskLinksKeep == ASSUME DeskSized, DeskShapes, DeskShapes', DeskLinks, [DeskNext]_deskVars PROVE DeskLinks'
<1> USE DEF DeskShapes, DeskLinks, DeskSettings, bootVars, quitVars, windowVars, trayVars
<1>1. CASE Launch BY <1>1, SettingsAreLoaded DEF Launch
<1>2. CASE CreateServer BY <1>2 DEF CreateServer
<1>3. CASE PortIsBusy BY <1>3 DEF PortIsBusy, Candidate
<1>4. CASE Listens BY <1>4, SettingsAreLoaded DEF Listens, Candidate
<1>5. CASE ListenFails BY <1>5 DEF ListenFails
<1>6. CASE StartDone BY <1>6 DEF StartDone, Opens
<1>7. CASE OpenWindow BY <1>7 DEF OpenWindow, Opens
<1>8. CASE CloseWindow BY <1>8 DEF CloseWindow
<1>9. CASE TrayPolls BY <1>9 DEF TrayPolls
<1>10. CASE TrayRefreshes BY <1>10 DEF TrayRefreshes
<1>11. CASE AskQuit BY <1>11 DEF AskQuit, Exits
<1>12. CASE CloseEnds BY <1>12 DEF CloseEnds, Exits
<1>13. ASSUME NEW heard \in BOOLEAN, MenuChanges(heard) PROVE DeskLinks' BY <1>13 DEF MenuChanges
<1>14. ASSUME NEW heard \in BOOLEAN, SetAllowLan(heard) PROVE DeskLinks' BY <1>14, SettingsAreLoaded DEF SetAllowLan
<1>15. ASSUME NEW p \in 1 .. MaxPort, PortsChange(p) PROVE DeskLinks' BY <1>15 DEF PortsChange
<1>16. CASE UNCHANGED deskVars BY <1>16 DEF deskVars
<1>17. QED BY <1>1, <1>2, <1>3, <1>4, <1>5, <1>6, <1>7, <1>8, <1>9, <1>10, <1>11, <1>12, <1>13, <1>14, <1>15, <1>16 DEF DeskNext

LEMMA PortsKeep == ASSUME DeskSized, DeskShapes, DeskLinks, PortMovesPastBusyOnes, [DeskNext]_deskVars PROVE PortMovesPastBusyOnes'
<1> USE DEF DeskShapes, DeskLinks, DeskSettings, PortMovesPastBusyOnes, FirstPort, bootVars, quitVars, windowVars, trayVars
<1>1. CASE Launch
  <2>1. desk' \in DeskSettings BY <1>1, SettingsAreLoaded DEF Launch
  <2>2. boot' = "creating" /\ tries' = 0 /\ FirstPort' = desk'.port BY <1>1 DEF Launch
  <2>3. desk'.port \in Int BY <2>1 DEF DeskSized
  <2>4. QED BY <2>2, <2>3
<1>2. CASE CreateServer BY <1>2 DEF CreateServer
<1>3. CASE PortIsBusy
  <2>1. FirstPort = desk.port /\ FirstPort' = desk.port /\ tries' = tries + 1 /\ seenBusy' = seenBusy \cup {desk.port + tries}
    BY <1>3 DEF PortIsBusy, Candidate
  <2>2. desk.port \in Int /\ tries \in Int BY DEF DeskSized
  <2>3. \A p \in desk.port .. desk.port + tries - 1 : p \in seenBusy BY <1>3, <2>1 DEF PortIsBusy
  <2>4. ASSUME NEW p \in desk.port .. desk.port + (tries + 1) - 1 PROVE p \in seenBusy \cup {desk.port + tries}
    <3>1. p \in desk.port .. desk.port + tries - 1 \/ p = desk.port + tries BY <2>2
    <3>2. QED BY <2>3, <3>1
  <2>5. QED BY <2>1, <2>4
<1>4. CASE Listens BY <1>4 DEF Listens, Candidate
<1>5. CASE ListenFails BY <1>5 DEF ListenFails
<1>6. CASE StartDone BY <1>6 DEF StartDone, Opens
<1>7. CASE OpenWindow BY <1>7 DEF OpenWindow, Opens
<1>8. CASE CloseWindow BY <1>8 DEF CloseWindow
<1>9. CASE TrayPolls BY <1>9 DEF TrayPolls
<1>10. CASE TrayRefreshes BY <1>10 DEF TrayRefreshes
<1>11. CASE AskQuit BY <1>11 DEF AskQuit, Exits
<1>12. CASE CloseEnds BY <1>12 DEF CloseEnds, Exits
<1>13. ASSUME NEW heard \in BOOLEAN, MenuChanges(heard) PROVE PortMovesPastBusyOnes' BY <1>13 DEF MenuChanges
<1>14. ASSUME NEW heard \in BOOLEAN, SetAllowLan(heard) PROVE PortMovesPastBusyOnes' BY <1>14 DEF SetAllowLan
<1>15. ASSUME NEW p \in 1 .. MaxPort, PortsChange(p) PROVE PortMovesPastBusyOnes' BY <1>15 DEF PortsChange
<1>16. CASE UNCHANGED deskVars BY <1>16 DEF deskVars
<1>17. QED BY <1>1, <1>2, <1>3, <1>4, <1>5, <1>6, <1>7, <1>8, <1>9, <1>10, <1>11, <1>12, <1>13, <1>14, <1>15, <1>16 DEF DeskNext

LEMMA ExitsKeep == ASSUME DeskLinks, ExitsAreClean, [DeskNext]_deskVars PROVE ExitsAreClean'
<1> USE DEF DeskLinks, ExitsAreClean, bootVars, quitVars, windowVars, trayVars
<1>1. CASE Launch BY <1>1 DEF Launch
<1>2. CASE CreateServer BY <1>2 DEF CreateServer
<1>3. CASE PortIsBusy BY <1>3 DEF PortIsBusy
<1>4. CASE Listens BY <1>4 DEF Listens
<1>5. CASE ListenFails BY <1>5 DEF ListenFails
<1>6. CASE StartDone BY <1>6 DEF StartDone, Opens
<1>7. CASE OpenWindow BY <1>7 DEF OpenWindow, Opens
<1>8. CASE CloseWindow BY <1>8 DEF CloseWindow
<1>9. CASE TrayPolls BY <1>9 DEF TrayPolls
<1>10. CASE TrayRefreshes BY <1>10 DEF TrayRefreshes
<1>11. CASE AskQuit
  <2>1. closed => quitting BY DEF DeskLinks
  <2>2. closed \/ house = "none" => twice' BY <1>11, <2>1, Zenon DEF AskQuit
  <2>3. ~(closed \/ house = "none") => torn' = torn BY <1>11, Zenon DEF AskQuit
  <2>4. twice => twice' BY <1>11, Zenon DEF AskQuit
  <2>5. QED BY <2>2, <2>3, <2>4, Zenon DEF ExitsAreClean
<1>12. CASE CloseEnds BY <1>12 DEF CloseEnds, Exits
<1>13. ASSUME NEW heard \in BOOLEAN, MenuChanges(heard) PROVE ExitsAreClean' BY <1>13 DEF MenuChanges
<1>14. ASSUME NEW heard \in BOOLEAN, SetAllowLan(heard) PROVE ExitsAreClean' BY <1>14 DEF SetAllowLan
<1>15. ASSUME NEW p \in 1 .. MaxPort, PortsChange(p) PROVE ExitsAreClean' BY <1>15 DEF PortsChange
<1>16. CASE UNCHANGED deskVars BY <1>16 DEF deskVars
<1>17. QED BY <1>1, <1>2, <1>3, <1>4, <1>5, <1>6, <1>7, <1>8, <1>9, <1>10, <1>11, <1>12, <1>13, <1>14, <1>15, <1>16 DEF DeskNext

LEMMA MenusKeep == ASSUME DeskFlags, MenuIsComing, [DeskNext]_deskVars PROVE MenuIsComing'
<1> USE DEF DeskFlags, MenuIsComing, bootVars, quitVars, windowVars, trayVars
<1>1. CASE Launch BY <1>1 DEF Launch
<1>2. CASE CreateServer BY <1>2 DEF CreateServer
<1>3. CASE PortIsBusy BY <1>3 DEF PortIsBusy
<1>4. CASE Listens BY <1>4 DEF Listens
<1>5. CASE ListenFails BY <1>5 DEF ListenFails
<1>6. CASE StartDone BY <1>6 DEF StartDone, Opens
<1>7. CASE OpenWindow BY <1>7 DEF OpenWindow, Opens
<1>8. CASE CloseWindow BY <1>8 DEF CloseWindow
<1>9. CASE TrayPolls BY <1>9 DEF TrayPolls
<1>10. CASE TrayRefreshes BY <1>10 DEF TrayRefreshes
<1>11. CASE AskQuit BY <1>11 DEF AskQuit, Exits
<1>12. CASE CloseEnds BY <1>12 DEF CloseEnds, Exits
<1>13. ASSUME NEW heard \in BOOLEAN, MenuChanges(heard) PROVE MenuIsComing' BY <1>13 DEF MenuChanges
<1>14. ASSUME NEW heard \in BOOLEAN, SetAllowLan(heard) PROVE MenuIsComing' BY <1>14 DEF SetAllowLan
<1>15. ASSUME NEW p \in 1 .. MaxPort, PortsChange(p) PROVE MenuIsComing' BY <1>15 DEF PortsChange
<1>16. CASE UNCHANGED deskVars BY <1>16 DEF deskVars
<1>17. QED BY <1>1, <1>2, <1>3, <1>4, <1>5, <1>6, <1>7, <1>8, <1>9, <1>10, <1>11, <1>12, <1>13, <1>14, <1>15, <1>16 DEF DeskNext

LEMMA DeskStep == ASSUME DeskInv, [DeskNext]_deskVars PROVE DeskInv'
<1>1. DeskFlags /\ DeskShapes BY Zenon DEF DeskInv, DeskTypeOK, DeskFlags, DeskShapes
<1>2. DeskTypeOK' /\ DeskShapes' /\ DeskLinks' /\ PortMovesPastBusyOnes' /\ DeskSized'
  BY <1>1, DeskTypes, DeskShapesKeep, DeskLinksKeep, PortsKeep DEF DeskInv, DeskSized
<1>3. PortIsKept' /\ WindowIsOurs' BY <1>2 DEF DeskLinks, PortIsKept, WindowIsOurs
<1>4. ExitsAreClean' /\ MenuIsComing' BY <1>1, ExitsKeep, MenusKeep DEF DeskInv
<1>5. QED BY <1>2, <1>3, <1>4 DEF DeskInv

\* The desktop program: it listens on the port the next start tries first and moves on only past
\* ports in use; it ends with its server closed, shows the library and refreshes its menu, but for
\* the quits, windows and changes named.
THEOREM DesktopIsOrderly ==
    ASSUME DeskSized
    PROVE  DeskSpec => [](PortIsKept /\ PortMovesPastBusyOnes /\ ExitsAreClean /\ WindowIsOurs /\ MenuIsComing)
<1>1. DeskInit => DeskInv BY DeskInitially
<1>2. DeskInv /\ [DeskNext]_deskVars => DeskInv' BY DeskStep
<1>3. DeskInv => PortIsKept /\ PortMovesPastBusyOnes /\ ExitsAreClean /\ WindowIsOurs /\ MenuIsComing BY DEF DeskInv
<1>4. QED BY <1>1, <1>2, <1>3, PTL DEF DeskSpec

--------------------------------------------------------------------------------
(* SaveRestore.                                                                 *)

RestoreFlags == committed \in BOOLEAN /\ kept \in BOOLEAN /\ clash \in BOOLEAN

RestoreShapes ==
    /\ stage \in {"off", "listing", "listed", "fits", "backed", "folders", "file", "over"}
    /\ tar \in Seq(Blocks) /\ listedTo \in Nat /\ entries \in Seq(ArchiveEntries) /\ amount \in Nat
    /\ entryNo \in Nat \ {0} /\ dirsMade \subseteq SavePaths /\ unsaved \in Nat
    /\ live \in [SavePaths -> Nodes] /\ disk \in [SavePaths -> Nodes] /\ version \in {"old", "new"}
    /\ report \in {"none", "done", "failed", "incomplete"}

\* What the listing has gone through.
ListedSoFar ==
    /\ listedTo <= Len(tar)
    /\ \A i \in 1 .. Len(entries) : entries[i].offset + Padded(entries[i].size) <= listedTo
    /\ \A i \in 1 .. Len(entries) : entries[i].dir = "dir" => entries[i].size = 0
    /\ \A i, j \in 1 .. Len(entries) : i < j =>
          /\ entries[i].path # entries[j].path
          /\ entries[i].offset + Padded(entries[i].size) < entries[j].offset

\* Nothing is inside a file, from the end of the listing on.
Nested ==
    stage \in {"listed", "fits", "backed", "folders", "file"} =>
        \A i, j \in 1 .. Len(entries) : entries[i].path \in Above[entries[j].path] => entries[i].dir = "dir"

Whole(i) == [kind |-> entries[i].dir, from |-> IF entries[i].dir = "dir" THEN 0 ELSE entries[i].offset,
             filled |-> entries[i].size]

\* What is mounted is what the entries so far need, and nothing else.
Written ==
    /\ stage \in {"listing", "listed", "fits", "backed"} => entryNo = 1 /\ dirsMade = {}
    /\ stage \in {"folders", "file"} =>
        /\ \A i \in 1 .. Len(entries) : i < entryNo => live[entries[i].path] = Whole(i)
        /\ \A p \in SavePaths : live[p].kind = "dir" <=> p \in dirsMade
        /\ \A p \in dirsMade : live[p] = [kind |-> "dir", from |-> 0, filled |-> 0]
        /\ \A p \in dirsMade : Above[p] \subseteq dirsMade
        /\ \A p \in dirsMade : \E i \in 1 .. Len(entries) : i <= entryNo /\ p \in Needed(entries[i])
        /\ \A p \in SavePaths : live[p].kind = "file" =>
              \E i \in 1 .. Len(entries) :
                 /\ entries[i].path = p /\ entries[i].dir = "file"
                 /\ i < entryNo \/ (stage = "file" /\ i = entryNo)
    /\ stage = "file" =>
        /\ entryNo <= Len(entries) /\ Entry.dir = "file" /\ Needed(Entry) \subseteq dirsMade
        /\ live[Entry.path].kind = "file" /\ live[Entry.path].from = Entry.offset /\ Filled <= Entry.size

\* What the committed save is, what the server has, and what the journal holds.
SafeSoFar ==
    /\ committed => version = "new"
    /\ ~committed => version = "old"
    /\ stage \in {"listing", "listed", "fits", "backed"} => version = "old"
    /\ stage \in {"backed", "folders", "file"} => kept
    /\ stage \notin {"off", "over"} => report = "none"

JournalRoom == Journal # 0 => unsaved <= Budget

RestoreInv ==
    /\ RestoreSized /\ RestoreTypeOK /\ ListedSoFar /\ Nested /\ Written /\ SafeSoFar /\ JournalRoom
    /\ NothingClashes /\ ReportsAreTrue /\ OldIsKept /\ DoneIsWhole

LEMMA PaddedIsNat == ASSUME RestoreSized, NEW s \in Nat PROVE Padded(s) \in Nat
<1>1. BlockBytes \in Nat /\ BlockBytes > 0 BY DEF RestoreSized
<1>2. s + BlockBytes - 1 \in Nat BY <1>1
<1>3. QED BY <1>1, <1>2 DEF Padded

LEMMA BudgetFits == ASSUME RestoreSized PROVE Budget \in Nat /\ (Journal # 0 => Budget <= Journal /\ Budget > 0) /\ ChunkSize \in Nat \ {0} /\ (Budget # 0 => ChunkSize <= Budget)
<1>1. Journal \in Nat /\ CopyChunk \in Nat /\ CopyChunk > 0 BY DEF RestoreSized
<1>2. Budget \in Nat /\ (Journal # 0 => Budget <= Journal /\ Budget > 0) BY <1>1 DEF Budget
<1>3. QED BY <1>1, <1>2 DEF ChunkSize

LEMMA EntriesAreTyped ==
    ASSUME RestoreShapes, NEW i \in 1 .. Len(entries)
    PROVE  /\ entries[i] \in ArchiveEntries /\ entries[i].path \in SavePaths /\ entries[i].dir \in {"dir", "file"}
           /\ entries[i].size \in Nat /\ entries[i].offset \in Nat
<1>1. entries[i] \in ArchiveEntries BY DEF RestoreShapes
<1>2. QED BY <1>1 DEF ArchiveEntries

LEMMA HereIsTyped ==
    ASSUME RestoreShapes, listedTo < Len(tar), Here.kind = "header"
    PROVE  Here.dir \in {"dir", "file"} /\ Here.size \in Nat /\ HeaderSize(Here) \in Nat
<1>1. Here \in Blocks BY DEF RestoreShapes, Here
<1>2. QED BY <1>1 DEF Blocks, HeaderSize

LEMMA NothingIsTyped == Nothing \in [SavePaths -> Nodes] BY DEF Nothing, Nodes

LEMMA RestoreFlagsKeep == ASSUME RestoreFlags, [RestoreNext]_restoreVars PROVE RestoreFlags'
<1> USE DEF RestoreFlags, listVars, writeVars, saveVars
<1>1. ASSUME NEW archive \in Archives, Staged(archive) PROVE RestoreFlags' BY <1>1, Zenon DEF Staged
<1>2. CASE ListRoot BY <1>2, Zenon DEF ListRoot
<1>3. CASE ListEntry BY <1>3, Zenon DEF ListEntry
<1>4. CASE ListEnds BY <1>4, Zenon DEF ListEnds
<1>5. CASE Fits BY <1>5, Zenon DEF Fits
<1>6. CASE KeepsOld BY <1>6, Zenon DEF KeepsOld
<1>7. CASE Clears BY <1>7, Zenon DEF Clears
<1>8. CASE FolderDone BY <1>8, Zenon DEF FolderDone
<1>9. CASE BeginsFile BY <1>9, Zenon DEF BeginsFile
<1>10. CASE CommitsPart BY <1>10, Zenon DEF CommitsPart, Commits
<1>11. CASE Writes BY <1>11, Zenon DEF Writes
<1>12. CASE EndsFile BY <1>12, Zenon DEF EndsFile, Commits
<1>13. CASE CommitsAll BY <1>13, Zenon DEF CommitsAll, Commits
<1>14. CASE RestoreFails BY <1>14, Zenon DEF RestoreFails
<1>15. CASE ConsoleOff BY <1>15, Zenon DEF ConsoleOff
<1>16. ASSUME NEW d \in SavePaths, MakesFolder(d) PROVE RestoreFlags' BY <1>16, Zenon DEF MakesFolder
<1>17. CASE UNCHANGED restoreVars BY <1>17, Zenon DEF restoreVars
<1>18. QED BY <1>1, <1>2, <1>3, <1>4, <1>5, <1>6, <1>7, <1>8, <1>9, <1>10, <1>11, <1>12, <1>13, <1>14, <1>15, <1>16, <1>17 DEF RestoreNext

LEMMA RestoreShapesKeep == ASSUME RestoreSized, RestoreShapes, Written, [RestoreNext]_restoreVars PROVE RestoreShapes'
<1> USE DEF RestoreShapes, listVars, writeVars, saveVars
<1>1. ASSUME NEW archive \in Archives, Staged(archive) PROVE RestoreShapes' BY <1>1, NothingIsTyped DEF Staged, RestoreSized, ArchiveEntries
<1>2. CASE ListRoot BY <1>2 DEF ListRoot
<1>3. CASE ListEntry 
  <2>1. Here.dir \in {"dir", "file"} /\ HeaderSize(Here) \in Nat /\ Here.path \in SavePaths BY <1>3, HereIsTyped DEF ListEntry
  <2>2. Padded(HeaderSize(Here)) \in Nat BY <2>1, PaddedIsNat
  <2>3. entries' \in Seq(ArchiveEntries) BY <1>3, <2>1 DEF ListEntry, ArchiveEntries
  <2>4. listedTo' \in Nat /\ amount' \in Nat BY <1>3, <2>1, <2>2 DEF ListEntry
  <2>5. QED BY <1>3, <2>3, <2>4 DEF ListEntry
<1>4. CASE ListEnds BY <1>4 DEF ListEnds
<1>5. CASE Fits BY <1>5 DEF Fits
<1>6. CASE KeepsOld BY <1>6 DEF KeepsOld
<1>7. CASE Clears BY <1>7, NothingIsTyped DEF Clears
<1>8. CASE FolderDone BY <1>8 DEF FolderDone
<1>9. CASE BeginsFile
  <2>1. Entry.path \in SavePaths /\ Entry.offset \in Nat BY <1>9, EntriesAreTyped DEF BeginsFile, Entry
  <2>2. QED BY <1>9, <2>1 DEF BeginsFile, Nodes
<1>10. CASE CommitsPart BY <1>10 DEF CommitsPart, Commits
<1>11. CASE Writes
  <2>1. entryNo \in 1 .. Len(entries) BY <1>11 DEF Writes, Written
  <2>2. Entry.path \in SavePaths /\ Entry.size \in Nat BY <2>1, EntriesAreTyped DEF Entry
  <2>3. Filled \in Nat BY <2>2 DEF Filled, Nodes
  <2>4. Piece \in Nat BY <1>11, <2>2, <2>3, BudgetFits DEF Writes, Piece
  <2>5. live' \in [SavePaths -> Nodes]
    <3>1. Entry.offset \in Nat BY <2>1, EntriesAreTyped DEF Entry
    <3>2. [kind |-> "file", from |-> Entry.offset, filled |-> Filled + Piece] \in Nodes BY <3>1, <2>3, <2>4 DEF Nodes
    <3>3. QED BY <1>11, <2>2, <3>2 DEF Writes
  <2>6. QED BY <1>11, <2>4, <2>5 DEF Writes
<1>12. CASE EndsFile BY <1>12 DEF EndsFile, Commits
<1>13. CASE CommitsAll BY <1>13 DEF CommitsAll, Commits
<1>14. CASE RestoreFails BY <1>14 DEF RestoreFails
<1>15. CASE ConsoleOff BY <1>15 DEF ConsoleOff
<1>16. ASSUME NEW d \in SavePaths, MakesFolder(d) PROVE RestoreShapes' BY <1>16 DEF MakesFolder, Nodes
<1>17. CASE UNCHANGED restoreVars BY <1>17 DEF restoreVars
<1>18. QED BY <1>1, <1>2, <1>3, <1>4, <1>5, <1>6, <1>7, <1>8, <1>9, <1>10, <1>11, <1>12, <1>13, <1>14, <1>15, <1>16, <1>17 DEF RestoreNext

LEMMA RestoreTypes == ASSUME RestoreSized, RestoreTypeOK, Written, [RestoreNext]_restoreVars PROVE RestoreTypeOK'
<1>1. RestoreFlags /\ RestoreShapes BY Zenon DEF RestoreTypeOK, RestoreFlags, RestoreShapes
<1>2. RestoreFlags' /\ RestoreShapes' BY <1>1, RestoreFlagsKeep, RestoreShapesKeep
<1>3. QED BY <1>2, Zenon DEF RestoreTypeOK, RestoreFlags, RestoreShapes

LEMMA ListKeeps == ASSUME RestoreSized, RestoreShapes, ListedSoFar, [RestoreNext]_restoreVars PROVE ListedSoFar'
<1> USE DEF RestoreShapes, ListedSoFar, listVars, writeVars, saveVars
<1>1. ASSUME NEW archive \in Archives, Staged(archive) PROVE ListedSoFar' BY <1>1 DEF Staged
<1>2. CASE ListRoot
  <2>1. \A i \in 1 .. Len(entries) : Padded(entries[i].size) \in Nat /\ entries[i].offset \in Nat
    BY PaddedIsNat, EntriesAreTyped
  <2>2. \A i \in 1 .. Len(entries) : entries[i].offset + Padded(entries[i].size) <= listedTo' BY <1>2, <2>1 DEF ListRoot
  <2>3. tar' = tar /\ entries' = entries /\ listedTo' <= Len(tar) BY <1>2 DEF ListRoot
  <2>4. QED BY <2>2, <2>3 DEF Padded
<1>3. CASE ListEntry
  <2> DEFINE e == [path |-> Here.path, dir |-> Here.dir, size |-> HeaderSize(Here), offset |-> listedTo + 1]
  <2>1. Here.dir \in {"dir", "file"} /\ HeaderSize(Here) \in Nat /\ Here.path \in SavePaths BY <1>3, HereIsTyped DEF ListEntry
  <2>2. Padded(HeaderSize(Here)) \in Nat BY <2>1, PaddedIsNat
  <2>3. listedTo' = listedTo + 1 + Padded(HeaderSize(Here)) /\ listedTo' <= Len(tar) /\ tar' = tar /\ listedTo < listedTo'
    BY <1>3, <2>2 DEF ListEntry
  <2>4. e \in ArchiveEntries BY <2>1 DEF ArchiveEntries
  <2>5. Len(entries') = Len(entries) + 1 /\ entries'[Len(entries) + 1] = e /\ \A i \in 1 .. Len(entries) : entries'[i] = entries[i]
    BY <1>3, <2>4 DEF ListEntry
  <2>6. \A i \in 1 .. Len(entries) : Padded(entries[i].size) \in Nat /\ entries[i].offset \in Nat
    BY PaddedIsNat, EntriesAreTyped
  <2>7. \A i \in 1 .. Len(entries') : i \in 1 .. Len(entries) \/ i = Len(entries) + 1 BY <2>5
  <2>8. ASSUME NEW i \in 1 .. Len(entries') PROVE entries'[i].offset + Padded(entries'[i].size) <= listedTo'
    <3>1. CASE i \in 1 .. Len(entries)
      <4>1. entries'[i] = entries[i] BY <3>1, <2>5
      <4>2. entries[i].offset + Padded(entries[i].size) <= listedTo BY <3>1
      <4>3. Padded(entries[i].size) \in Nat /\ entries[i].offset \in Nat BY <3>1, <2>6
      <4> HIDE DEF RestoreShapes, ListedSoFar, e
      <4>4. listedTo \in Nat /\ listedTo' \in Nat /\ listedTo < listedTo' BY <2>2, <2>3 DEF RestoreShapes
      <4>5. entries[i].offset + Padded(entries[i].size) <= listedTo' BY <4>2, <4>3, <4>4
      <4>6. QED BY <4>1, <4>5
    <3>2. CASE i = Len(entries) + 1 BY <3>2, <2>2, <2>3, <2>5
    <3>3. QED BY <2>7, <3>1, <3>2
  <2>9. \A i \in 1 .. Len(entries') : entries'[i].dir = "dir" => entries'[i].size = 0 BY <2>5, <2>7 DEF HeaderSize
  <2>10. ASSUME NEW i \in 1 .. Len(entries'), NEW j \in 1 .. Len(entries'), i < j
         PROVE  /\ entries'[i].path # entries'[j].path
                /\ entries'[i].offset + Padded(entries'[i].size) < entries'[j].offset
    <3>1. i \in 1 .. Len(entries) BY <2>5, <2>10
    <3>2. CASE j \in 1 .. Len(entries) BY <3>1, <3>2, <2>5, <2>10
    <3>3. CASE j = Len(entries) + 1
      <4>1. entries'[i] = entries[i] /\ entries'[j] = e BY <3>1, <3>3, <2>5
      <4>2. entries[i].path # Here.path BY <1>3, <3>1 DEF ListEntry
      <4>3. entries[i].offset + Padded(entries[i].size) <= listedTo BY <3>1
      <4>4. QED BY <4>1, <4>2, <4>3, <3>1, <2>6
    <3>4. QED BY <2>7, <3>2, <3>3
  <2>11. QED BY <2>3, <2>8, <2>9, <2>10 DEF Padded
<1>4. CASE ListEnds BY <1>4 DEF ListEnds
<1>5. CASE Fits BY <1>5 DEF Fits
<1>6. CASE KeepsOld BY <1>6 DEF KeepsOld
<1>7. CASE Clears BY <1>7 DEF Clears
<1>8. CASE FolderDone BY <1>8 DEF FolderDone
<1>9. CASE BeginsFile BY <1>9 DEF BeginsFile
<1>10. CASE CommitsPart BY <1>10 DEF CommitsPart, Commits
<1>11. CASE Writes BY <1>11 DEF Writes
<1>12. CASE EndsFile BY <1>12 DEF EndsFile, Commits
<1>13. CASE CommitsAll BY <1>13 DEF CommitsAll, Commits
<1>14. CASE RestoreFails BY <1>14 DEF RestoreFails
<1>15. CASE ConsoleOff BY <1>15 DEF ConsoleOff
<1>16. ASSUME NEW d \in SavePaths, MakesFolder(d) PROVE ListedSoFar' BY <1>16 DEF MakesFolder
<1>17. CASE UNCHANGED restoreVars BY <1>17 DEF restoreVars
<1>18. QED BY <1>1, <1>2, <1>3, <1>4, <1>5, <1>6, <1>7, <1>8, <1>9, <1>10, <1>11, <1>12, <1>13, <1>14, <1>15, <1>16, <1>17 DEF RestoreNext

LEMMA NestingKeeps == ASSUME RestoreShapes, Nested, [RestoreNext]_restoreVars PROVE Nested'
<1> USE DEF RestoreShapes, Nested, listVars, writeVars, saveVars
<1>1. ASSUME NEW archive \in Archives, Staged(archive) PROVE Nested' BY <1>1 DEF Staged
<1>2. CASE ListRoot BY <1>2 DEF ListRoot
<1>3. CASE ListEntry BY <1>3 DEF ListEntry
<1>4. CASE ListEnds BY <1>4 DEF ListEnds
<1>5. CASE Fits BY <1>5 DEF Fits
<1>6. CASE KeepsOld BY <1>6 DEF KeepsOld
<1>7. CASE Clears BY <1>7 DEF Clears
<1>8. CASE FolderDone BY <1>8 DEF FolderDone
<1>9. CASE BeginsFile BY <1>9 DEF BeginsFile
<1>10. CASE CommitsPart BY <1>10 DEF CommitsPart, Commits
<1>11. CASE Writes BY <1>11 DEF Writes
<1>12. CASE EndsFile BY <1>12 DEF EndsFile, Commits
<1>13. CASE CommitsAll BY <1>13 DEF CommitsAll, Commits
<1>14. CASE RestoreFails BY <1>14 DEF RestoreFails
<1>15. CASE ConsoleOff BY <1>15 DEF ConsoleOff
<1>16. ASSUME NEW d \in SavePaths, MakesFolder(d) PROVE Nested' BY <1>16 DEF MakesFolder
<1>17. CASE UNCHANGED restoreVars BY <1>17 DEF restoreVars
<1>18. QED BY <1>1, <1>2, <1>3, <1>4, <1>5, <1>6, <1>7, <1>8, <1>9, <1>10, <1>11, <1>12, <1>13, <1>14, <1>15, <1>16, <1>17 DEF RestoreNext

\* What is to be created is not there, and the folders above it are.
LEMMA FoldersAreNew ==
    ASSUME RestoreSized, RestoreShapes, ListedSoFar, Nested, Written, NEW d \in SavePaths, MakesFolder(d)
    PROVE  ~Clashes(d) /\ live[d].kind = "absent"
<1>1. entryNo \in 1 .. Len(entries) /\ d \in Needed(Entry) /\ d \notin dirsMade /\ Above[d] \subseteq dirsMade /\ stage = "folders"
  BY DEF MakesFolder, RestoreShapes
<1>2. live[d].kind \in {"absent", "dir", "file"} BY DEF RestoreShapes, Nodes
<1>3. live[d].kind # "dir" BY <1>1 DEF Written
<1>4. ASSUME live[d].kind = "file" PROVE FALSE
  <2>1. PICK i \in 1 .. Len(entries) : entries[i].path = d /\ entries[i].dir = "file" /\ i < entryNo
    BY <1>1, <1>4 DEF Written
  <2>2. CASE d \in Above[Entry.path] BY <1>1, <2>1, <2>2 DEF Nested, Entry
  <2>3. CASE d = Entry.path BY <1>1, <2>1, <2>3 DEF ListedSoFar, Entry
  <2>4. QED BY <1>1, <2>2, <2>3 DEF Needed
<1>5. \A q \in Above[d] : live[q].kind = "dir" BY <1>1 DEF Written, RestoreSized
<1>6. QED BY <1>2, <1>3, <1>4, <1>5 DEF Clashes

LEMMA FilesAreNew ==
    ASSUME RestoreSized, RestoreShapes, ListedSoFar, Nested, Written, BeginsFile
    PROVE  ~Clashes(Entry.path) /\ live[Entry.path].kind = "absent"
<1>1. entryNo \in 1 .. Len(entries) /\ Entry.dir = "file" /\ Needed(Entry) \subseteq dirsMade /\ stage = "folders"
  BY DEF BeginsFile, RestoreShapes
<1>2. Entry.path \in SavePaths BY <1>1, EntriesAreTyped DEF Entry
<1>3. live[Entry.path].kind \in {"absent", "dir", "file"} BY <1>2 DEF RestoreShapes, Nodes
<1>4. ASSUME live[Entry.path].kind = "dir" PROVE FALSE
  <2>1. Entry.path \in dirsMade BY <1>1, <1>2, <1>4 DEF Written
  <2>2. PICK i \in 1 .. Len(entries) : i <= entryNo /\ Entry.path \in Needed(entries[i]) BY <1>1, <2>1 DEF Written
  <2>3. CASE Entry.path \in Above[entries[i].path] BY <1>1, <2>2, <2>3 DEF Nested, Entry
  <2>4. CASE Entry.path = entries[i].path /\ entries[i].dir = "dir"
    <3>1. i # entryNo BY <1>1, <2>4 DEF Entry
    <3>2. i < entryNo BY <1>1, <2>2, <3>1
    <3>3. QED BY <1>1, <2>4, <3>2 DEF ListedSoFar, Entry
  <2>5. QED BY <2>2, <2>3, <2>4 DEF Needed
<1>5. ASSUME live[Entry.path].kind = "file" PROVE FALSE
  <2>1. PICK i \in 1 .. Len(entries) : entries[i].path = Entry.path /\ i < entryNo BY <1>1, <1>2, <1>5 DEF Written
  <2>2. QED BY <1>1, <2>1 DEF ListedSoFar, Entry
<1>6. \A q \in Above[Entry.path] : live[q].kind = "dir" BY <1>1, <1>2 DEF Written, RestoreSized, Needed
<1>7. QED BY <1>3, <1>4, <1>5, <1>6 DEF Clashes

LEMMA WritingKeeps ==
    ASSUME RestoreSized, RestoreShapes, ListedSoFar, Nested, Written, [RestoreNext]_restoreVars
    PROVE  Written'
<1> USE DEF RestoreShapes, Written, listVars, writeVars, saveVars
<1>1. ASSUME NEW archive \in Archives, Staged(archive) PROVE Written' BY <1>1 DEF Staged
<1>2. CASE ListRoot BY <1>2 DEF ListRoot
<1>3. CASE ListEntry BY <1>3 DEF ListEntry
<1>4. CASE ListEnds BY <1>4 DEF ListEnds
<1>5. CASE Fits BY <1>5 DEF Fits
<1>6. CASE KeepsOld BY <1>6 DEF KeepsOld
<1>7. CASE Clears
  <2>1. entryNo = 1 /\ dirsMade = {} BY <1>7 DEF Clears
  <2>2. \A p \in SavePaths : Nothing[p].kind = "absent" BY DEF Nothing
  <2>3. QED BY <1>7, <2>1, <2>2 DEF Clears
<1>8. CASE FolderDone
  <2>1. entryNo \in 1 .. Len(entries) /\ stage = "folders" /\ Entry.dir = "dir" /\ Needed(Entry) \subseteq dirsMade
    BY <1>8 DEF FolderDone
  <2>2. Entry.path \in dirsMade BY <2>1 DEF Needed
  <2>3. live[Entry.path] = [kind |-> "dir", from |-> 0, filled |-> 0] BY <2>1, <2>2
  <2>4. Entry.size = 0 BY <2>1 DEF ListedSoFar, Entry
  <2>5. live[entries[entryNo].path] = Whole(entryNo) BY <2>1, <2>3, <2>4 DEF Whole, Entry
  <2>6. entryNo' = entryNo + 1 /\ UNCHANGED <<entries, live, dirsMade, stage>> BY <1>8 DEF FolderDone
  <2>7. \A i \in 1 .. Len(entries) : i < entryNo' => live[entries[i].path] = Whole(i)
    <3>1. \A i \in 1 .. Len(entries) : i < entryNo' => i < entryNo \/ i = entryNo BY <2>6
    <3>2. QED BY <2>1, <2>5, <3>1
  <2>8. \A p \in dirsMade : \E i \in 1 .. Len(entries) : i <= entryNo' /\ p \in Needed(entries[i])
    <3>1. \A i \in 1 .. Len(entries) : i <= entryNo => i <= entryNo' BY <2>6
    <3>2. QED BY <2>1, <3>1
  <2>9. \A p \in SavePaths : live[p].kind = "file" =>
          \E i \in 1 .. Len(entries) : entries[i].path = p /\ entries[i].dir = "file" /\ i < entryNo'
    <3>1. \A i \in 1 .. Len(entries) : i < entryNo => i < entryNo' BY <2>6
    <3>2. QED BY <2>1, <3>1
  <2>10. QED BY <2>1, <2>6, <2>7, <2>8, <2>9 DEF Whole, Needed
<1>9. CASE BeginsFile
  <2>1. entryNo \in 1 .. Len(entries) /\ stage = "folders" /\ Entry.dir = "file" /\ Needed(Entry) \subseteq dirsMade
    BY <1>9 DEF BeginsFile
  <2>2. Entry.path \in SavePaths /\ Entry.size \in Nat BY <2>1, EntriesAreTyped DEF Entry
  <2>3. live[Entry.path].kind = "absent" BY <1>9, FilesAreNew
  <2>4. Entry.path \notin dirsMade BY <2>1, <2>2, <2>3
  <2> DEFINE node == [kind |-> "file", from |-> Entry.offset, filled |-> 0]
  <2>5. live' = [live EXCEPT ![Entry.path] = node] /\ stage' = "file" /\ UNCHANGED <<entries, entryNo, dirsMade>>
    BY <1>9 DEF BeginsFile
  <2>6. live'[Entry.path] = node /\ \A p \in SavePaths : p # Entry.path => live'[p] = live[p] BY <2>2, <2>5
  <2>7. \A i \in 1 .. Len(entries) : i < entryNo => entries[i].path # Entry.path BY <2>1 DEF ListedSoFar, Entry
  <2>8. \A i \in 1 .. Len(entries) : entries[i].path \in SavePaths BY EntriesAreTyped
  <2>9. \A i \in 1 .. Len(entries) : i < entryNo => live'[entries[i].path] = Whole(i) BY <2>1, <2>6, <2>7, <2>8
  <2>10. \A p \in SavePaths : live'[p].kind = "dir" <=> p \in dirsMade BY <2>1, <2>4, <2>6
  <2>11. \A p \in dirsMade : live'[p] = [kind |-> "dir", from |-> 0, filled |-> 0] BY <2>1, <2>4, <2>6
  <2>12. \A p \in SavePaths : live'[p].kind = "file" =>
          \E i \in 1 .. Len(entries) : entries[i].path = p /\ entries[i].dir = "file" /\ (i < entryNo \/ i = entryNo)
    BY <2>1, <2>6 DEF Entry
  <2>13. QED BY <2>1, <2>2, <2>5, <2>6, <2>9, <2>10, <2>11, <2>12 DEF Whole, Needed, Entry, Filled
<1>10. CASE CommitsPart BY <1>10 DEF CommitsPart, Commits, Whole, Needed, Entry, Filled
<1>11. CASE Writes
  <2>1. entryNo \in 1 .. Len(entries) /\ stage = "file" /\ Entry.dir = "file" /\ Needed(Entry) \subseteq dirsMade
    BY <1>11 DEF Writes
  <2>2. Entry.path \in SavePaths /\ Entry.size \in Nat BY <2>1, EntriesAreTyped DEF Entry
  <2>3. live[Entry.path].kind = "file" /\ Filled \in Nat BY <2>1, <2>2 DEF Filled, Nodes
  <2>4. Entry.path \notin dirsMade BY <2>1, <2>2, <2>3
  <2> DEFINE node == [kind |-> "file", from |-> Entry.offset, filled |-> Filled + Piece]
  <2>5. live' = [live EXCEPT ![Entry.path] = node] /\ UNCHANGED <<stage, entries, entryNo, dirsMade>> BY <1>11 DEF Writes
  <2>6. live'[Entry.path] = node /\ \A p \in SavePaths : p # Entry.path => live'[p] = live[p] BY <2>2, <2>5
  <2>7. \A i \in 1 .. Len(entries) : i < entryNo => entries[i].path # Entry.path BY <2>1 DEF ListedSoFar, Entry
  <2>8. \A i \in 1 .. Len(entries) : entries[i].path \in SavePaths BY EntriesAreTyped
  <2>9. \A i \in 1 .. Len(entries) : i < entryNo => live'[entries[i].path] = Whole(i) BY <2>1, <2>6, <2>7, <2>8
  <2>10. \A p \in SavePaths : live'[p].kind = "dir" <=> p \in dirsMade BY <2>1, <2>4, <2>6
  <2>11. \A p \in dirsMade : live'[p] = [kind |-> "dir", from |-> 0, filled |-> 0] BY <2>1, <2>4, <2>6
  <2>12. \A p \in SavePaths : live'[p].kind = "file" => live[p].kind = "file" BY <2>3, <2>6
  <2>13. \A p \in SavePaths : live'[p].kind = "file" =>
          \E i \in 1 .. Len(entries) : entries[i].path = p /\ entries[i].dir = "file" /\ (i < entryNo \/ i = entryNo)
    BY <2>1, <2>12
  <2>14. Filled + Piece <= Entry.size BY <1>11, <2>2, <2>3, BudgetFits DEF Writes, Piece
  <2>15. QED BY <2>1, <2>2, <2>5, <2>6, <2>9, <2>10, <2>11, <2>13, <2>14 DEF Whole, Needed, Entry, Filled
<1>12. CASE EndsFile
  <2>1. entryNo \in 1 .. Len(entries) /\ stage = "file" /\ Entry.dir = "file" /\ Filled >= Entry.size
    BY <1>12 DEF EndsFile
  <2>2. Entry.path \in SavePaths /\ Entry.size \in Nat BY <2>1, EntriesAreTyped DEF Entry
  <2>3. live[Entry.path] \in Nodes BY <2>2
  <2>4. live[Entry.path] = [kind |-> "file", from |-> Entry.offset, filled |-> Entry.size]
    <3>1. live[Entry.path].kind = "file" /\ live[Entry.path].from = Entry.offset /\ Filled <= Entry.size BY <2>1
    <3>2. live[Entry.path].filled = Entry.size BY <2>1, <2>2, <2>3, <3>1 DEF Filled, Nodes
    <3>3. QED BY <2>3, <3>1, <3>2 DEF Nodes
  <2>5. live[entries[entryNo].path] = Whole(entryNo) BY <2>1, <2>4 DEF Whole, Entry
  <2>6. entryNo' = entryNo + 1 /\ stage' = "folders" /\ UNCHANGED <<entries, live, dirsMade>> BY <1>12 DEF EndsFile
  <2>7. \A i \in 1 .. Len(entries) : i < entryNo' => live[entries[i].path] = Whole(i)
    <3>1. \A i \in 1 .. Len(entries) : i < entryNo' => i < entryNo \/ i = entryNo BY <2>6
    <3>2. QED BY <2>1, <2>5, <3>1
  <2>8. \A p \in dirsMade : \E i \in 1 .. Len(entries) : i <= entryNo' /\ p \in Needed(entries[i])
    <3>1. \A i \in 1 .. Len(entries) : i <= entryNo => i <= entryNo' BY <2>6
    <3>2. QED BY <2>1, <3>1
  <2>9. \A p \in SavePaths : live[p].kind = "file" =>
          \E i \in 1 .. Len(entries) : entries[i].path = p /\ entries[i].dir = "file" /\ i < entryNo'
    <3>1. \A i \in 1 .. Len(entries) : i < entryNo \/ i = entryNo => i < entryNo' BY <2>6
    <3>2. QED BY <2>1, <3>1
  <2>10. QED BY <2>1, <2>6, <2>7, <2>8, <2>9 DEF Whole, Needed
<1>13. CASE CommitsAll BY <1>13 DEF CommitsAll, Commits
<1>14. CASE RestoreFails BY <1>14 DEF RestoreFails
<1>15. CASE ConsoleOff BY <1>15 DEF ConsoleOff
<1>16. ASSUME NEW d \in SavePaths, MakesFolder(d) PROVE Written'
  <2>1. entryNo \in 1 .. Len(entries) /\ stage = "folders" /\ d \in Needed(Entry) /\ Above[d] \subseteq dirsMade
    BY <1>16 DEF MakesFolder
  <2>2. live[d].kind = "absent" BY <1>16, FoldersAreNew
  <2>3. live' = [live EXCEPT ![d] = [kind |-> "dir", from |-> 0, filled |-> 0]] /\ dirsMade' = dirsMade \cup {d}
        /\ UNCHANGED <<stage, entries, entryNo>>
    BY <1>16 DEF MakesFolder
  <2>4. live'[d] = [kind |-> "dir", from |-> 0, filled |-> 0] /\ \A p \in SavePaths : p # d => live'[p] = live[p] BY <2>3
  <2>5. \A i \in 1 .. Len(entries) : entries[i].path \in SavePaths /\ entries[i].dir \in {"dir", "file"} BY EntriesAreTyped
  <2>6. \A i \in 1 .. Len(entries) : i < entryNo => live[entries[i].path] = Whole(i) /\ Whole(i).kind = entries[i].dir
    BY <2>1 DEF Whole
  <2>7. \A i \in 1 .. Len(entries) : i < entryNo => entries[i].path # d BY <2>2, <2>5, <2>6
  <2>8. \A i \in 1 .. Len(entries) : i < entryNo => live'[entries[i].path] = Whole(i) BY <2>4, <2>5, <2>6, <2>7
  <2>9. \A p \in SavePaths : live'[p].kind = "dir" <=> p \in dirsMade' BY <2>1, <2>3, <2>4
  <2>10. \A p \in dirsMade' : live'[p] = [kind |-> "dir", from |-> 0, filled |-> 0] BY <2>1, <2>3, <2>4
  <2>11. \A p \in dirsMade' : Above[p] \subseteq dirsMade' BY <2>1, <2>3
  <2>12. \A p \in dirsMade' : \E i \in 1 .. Len(entries) : i <= entryNo /\ p \in Needed(entries[i]) BY <2>1, <2>3 DEF Entry
  <2>13. \A p \in SavePaths : live'[p].kind = "file" => live[p].kind = "file" BY <2>4
  <2>14. \A p \in SavePaths : live'[p].kind = "file" =>
          \E i \in 1 .. Len(entries) : entries[i].path = p /\ entries[i].dir = "file" /\ i < entryNo
    BY <2>1, <2>13
  <2>15. QED BY <2>1, <2>3, <2>8, <2>9, <2>10, <2>11, <2>12, <2>14 DEF Whole, Needed
<1>17. CASE UNCHANGED restoreVars BY <1>17 DEF restoreVars, Whole, Needed, Entry, Filled
<1>18. QED BY <1>1, <1>2, <1>3, <1>4, <1>5, <1>6, <1>7, <1>8, <1>9, <1>10, <1>11, <1>12, <1>13, <1>14, <1>15, <1>16, <1>17 DEF RestoreNext

LEMMA JournalKeeps ==
    ASSUME RestoreSized, RestoreShapes, Written, JournalRoom, [RestoreNext]_restoreVars
    PROVE  JournalRoom'
<1> USE DEF RestoreShapes, JournalRoom, listVars, writeVars, saveVars
<1>1. ASSUME NEW archive \in Archives, Staged(archive) PROVE JournalRoom' BY <1>1, BudgetFits DEF Staged, Budget
<1>2. CASE ListRoot BY <1>2, BudgetFits DEF ListRoot
<1>3. CASE ListEntry BY <1>3, BudgetFits DEF ListEntry
<1>4. CASE ListEnds BY <1>4, BudgetFits DEF ListEnds
<1>5. CASE Fits BY <1>5, BudgetFits DEF Fits
<1>6. CASE KeepsOld BY <1>6, BudgetFits DEF KeepsOld
<1>7. CASE Clears BY <1>7, BudgetFits DEF Clears
<1>8. CASE FolderDone BY <1>8, BudgetFits DEF FolderDone
<1>9. CASE BeginsFile BY <1>9, BudgetFits DEF BeginsFile
<1>10. CASE CommitsPart BY <1>10, BudgetFits DEF CommitsPart, Commits, Budget
<1>11. CASE Writes
  <2>1. entryNo \in 1 .. Len(entries) /\ stage = "file" BY <1>11 DEF Writes, Written
  <2>2. Entry.path \in SavePaths /\ Entry.size \in Nat BY <2>1, EntriesAreTyped DEF Entry
  <2>3. Filled \in Nat BY <2>1, <2>2 DEF Filled, Nodes
  <2>4. Piece \in Nat /\ Piece <= ChunkSize BY <1>11, <2>2, <2>3, BudgetFits, SMTT(30) DEF Writes, Piece
  <2>5. Journal # 0 => unsaved + Piece <= Budget
    <3>1. Journal # 0 => unsaved = 0 \/ unsaved + Piece <= Budget BY <1>11, <2>4, BudgetFits DEF Writes, IsFull
    <3>2. QED BY <3>1, <2>4, BudgetFits
  <2>6. QED BY <1>11, <2>5 DEF Writes, Budget
<1>12. CASE EndsFile BY <1>12, BudgetFits DEF EndsFile, Commits
<1>13. CASE CommitsAll BY <1>13, BudgetFits DEF CommitsAll, Commits, Budget
<1>14. CASE RestoreFails BY <1>14, BudgetFits DEF RestoreFails
<1>15. CASE ConsoleOff BY <1>15, BudgetFits DEF ConsoleOff
<1>16. ASSUME NEW d \in SavePaths, MakesFolder(d) PROVE JournalRoom' BY <1>16, BudgetFits DEF MakesFolder
<1>17. CASE UNCHANGED restoreVars BY <1>17 DEF restoreVars, Budget
<1>18. QED BY <1>1, <1>2, <1>3, <1>4, <1>5, <1>6, <1>7, <1>8, <1>9, <1>10, <1>11, <1>12, <1>13, <1>14, <1>15, <1>16, <1>17 DEF RestoreNext

LEMMA SafetyKeeps ==
    ASSUME SafeSoFar, ReportsAreTrue, OldIsKept, [RestoreNext]_restoreVars
    PROVE  SafeSoFar' /\ ReportsAreTrue' /\ OldIsKept'
<1> USE DEF SafeSoFar, ReportsAreTrue, OldIsKept, listVars, writeVars, saveVars
<1>1. ASSUME NEW archive \in Archives, Staged(archive) PROVE SafeSoFar' /\ ReportsAreTrue' /\ OldIsKept' BY <1>1, Zenon DEF Staged
<1>2. CASE ListRoot BY <1>2, Zenon DEF ListRoot
<1>3. CASE ListEntry BY <1>3, Zenon DEF ListEntry
<1>4. CASE ListEnds BY <1>4, Zenon DEF ListEnds
<1>5. CASE Fits BY <1>5, Zenon DEF Fits
<1>6. CASE KeepsOld BY <1>6, Zenon DEF KeepsOld
<1>7. CASE Clears BY <1>7, Zenon DEF Clears
<1>8. CASE FolderDone BY <1>8, Zenon DEF FolderDone
<1>9. CASE BeginsFile BY <1>9, Zenon DEF BeginsFile
<1>10. CASE CommitsPart BY <1>10, Zenon DEF CommitsPart, Commits
<1>11. CASE Writes BY <1>11, Zenon DEF Writes
<1>12. CASE EndsFile BY <1>12, Zenon DEF EndsFile, Commits
<1>13. CASE CommitsAll BY <1>13, Zenon DEF CommitsAll, Commits
<1>14. CASE RestoreFails BY <1>14, Zenon DEF RestoreFails
<1>15. CASE ConsoleOff BY <1>15, Zenon DEF ConsoleOff
<1>16. ASSUME NEW d \in SavePaths, MakesFolder(d) PROVE SafeSoFar' /\ ReportsAreTrue' /\ OldIsKept' BY <1>16, Zenon DEF MakesFolder
<1>17. CASE UNCHANGED restoreVars BY <1>17, Zenon DEF restoreVars
<1>18. QED BY <1>1, <1>2, <1>3, <1>4, <1>5, <1>6, <1>7, <1>8, <1>9, <1>10, <1>11, <1>12, <1>13, <1>14, <1>15, <1>16, <1>17 DEF RestoreNext

LEMMA ClashesKeep ==
    ASSUME RestoreSized, RestoreShapes, ListedSoFar, Nested, Written, NothingClashes, [RestoreNext]_restoreVars
    PROVE  NothingClashes'
<1> USE DEF NothingClashes, listVars, writeVars, saveVars
<1>1. ASSUME NEW archive \in Archives, Staged(archive) PROVE NothingClashes' BY <1>1 DEF Staged
<1>2. CASE ListRoot BY <1>2 DEF ListRoot
<1>3. CASE ListEntry BY <1>3 DEF ListEntry
<1>4. CASE ListEnds BY <1>4 DEF ListEnds
<1>5. CASE Fits BY <1>5 DEF Fits
<1>6. CASE KeepsOld BY <1>6 DEF KeepsOld
<1>7. CASE Clears BY <1>7 DEF Clears
<1>8. CASE FolderDone BY <1>8 DEF FolderDone
<1>9. CASE BeginsFile BY <1>9, FilesAreNew DEF BeginsFile
<1>10. CASE CommitsPart BY <1>10 DEF CommitsPart, Commits
<1>11. CASE Writes BY <1>11 DEF Writes
<1>12. CASE EndsFile BY <1>12 DEF EndsFile, Commits
<1>13. CASE CommitsAll BY <1>13 DEF CommitsAll, Commits
<1>14. CASE RestoreFails BY <1>14 DEF RestoreFails
<1>15. CASE ConsoleOff BY <1>15 DEF ConsoleOff
<1>16. ASSUME NEW d \in SavePaths, MakesFolder(d) PROVE NothingClashes' BY <1>16, FoldersAreNew DEF MakesFolder
<1>17. CASE UNCHANGED restoreVars BY <1>17 DEF restoreVars
<1>18. QED BY <1>1, <1>2, <1>3, <1>4, <1>5, <1>6, <1>7, <1>8, <1>9, <1>10, <1>11, <1>12, <1>13, <1>14, <1>15, <1>16, <1>17 DEF RestoreNext

LEMMA DoneKeeps ==
    ASSUME RestoreShapes, Written, SafeSoFar, DoneIsWhole, [RestoreNext]_restoreVars
    PROVE  DoneIsWhole'
<1> USE DEF listVars, writeVars, saveVars
<1>1. ASSUME NEW archive \in Archives, Staged(archive) PROVE DoneIsWhole' BY <1>1 DEF Staged, SafeSoFar, DoneIsWhole
<1>2. CASE ListRoot BY <1>2 DEF ListRoot, SafeSoFar, DoneIsWhole
<1>3. CASE ListEntry BY <1>3 DEF ListEntry, SafeSoFar, DoneIsWhole
<1>4. CASE ListEnds BY <1>4 DEF ListEnds, SafeSoFar, DoneIsWhole
<1>5. CASE Fits BY <1>5 DEF Fits, SafeSoFar, DoneIsWhole
<1>6. CASE KeepsOld BY <1>6 DEF KeepsOld, SafeSoFar, DoneIsWhole
<1>7. CASE Clears BY <1>7 DEF Clears, SafeSoFar, DoneIsWhole
<1>8. CASE FolderDone BY <1>8 DEF FolderDone, SafeSoFar, DoneIsWhole
<1>9. CASE BeginsFile BY <1>9 DEF BeginsFile, SafeSoFar, DoneIsWhole
<1>10. CASE CommitsPart BY <1>10 DEF CommitsPart, Commits, SafeSoFar, DoneIsWhole
<1>11. CASE Writes BY <1>11 DEF Writes, SafeSoFar, DoneIsWhole
<1>12. CASE EndsFile BY <1>12 DEF EndsFile, Commits, SafeSoFar, DoneIsWhole
<1>13. CASE CommitsAll
  <2>1. stage = "folders" /\ entryNo > Len(entries) /\ disk' = live /\ UNCHANGED entries BY <1>13 DEF CommitsAll, Commits
  <2>2. \A i \in 1 .. Len(entries) : live[entries[i].path] = Whole(i) BY <2>1 DEF Written, RestoreShapes
  <2>3. ASSUME NEW p \in SavePaths, live[p].kind # "absent"
        PROVE \E i \in 1 .. Len(entries) : p = entries[i].path \/ p \in Above[entries[i].path]
    <3>1. live[p].kind = "dir" \/ live[p].kind = "file" BY <2>3 DEF RestoreShapes, Nodes
    <3>2. CASE live[p].kind = "dir"
      <4>1. p \in dirsMade BY <2>1, <3>2 DEF Written
      <4>2. QED BY <2>1, <4>1 DEF Written, Needed
    <3>3. CASE live[p].kind = "file" BY <2>1, <3>3 DEF Written
    <3>4. QED BY <3>1, <3>2, <3>3
  <2>4. QED BY <2>1, <2>2, <2>3 DEF DoneIsWhole, Whole
<1>14. CASE RestoreFails BY <1>14 DEF RestoreFails, SafeSoFar, DoneIsWhole
<1>15. CASE ConsoleOff BY <1>15 DEF ConsoleOff, SafeSoFar, DoneIsWhole
<1>16. ASSUME NEW d \in SavePaths, MakesFolder(d) PROVE DoneIsWhole' BY <1>16 DEF MakesFolder, SafeSoFar, DoneIsWhole
<1>17. CASE UNCHANGED restoreVars BY <1>17 DEF restoreVars, DoneIsWhole
<1>18. QED BY <1>1, <1>2, <1>3, <1>4, <1>5, <1>6, <1>7, <1>8, <1>9, <1>10, <1>11, <1>12, <1>13, <1>14, <1>15, <1>16, <1>17 DEF RestoreNext

LEMMA RestoreInitially == ASSUME RestoreSized, RestoreInit PROVE RestoreInv
<1>1. RestoreTypeOK
  <2>1. RestoreFlags BY Zenon DEF RestoreInit, RestoreFlags
  <2>2. RestoreShapes BY NothingIsTyped DEF RestoreInit, RestoreShapes
  <2>3. QED BY <2>1, <2>2, Zenon DEF RestoreTypeOK, RestoreFlags, RestoreShapes
<1>2. ListedSoFar /\ Nested /\ Written /\ DoneIsWhole BY DEF RestoreInit, ListedSoFar, Nested, Written, DoneIsWhole
<1>3. JournalRoom BY BudgetFits DEF RestoreInit, JournalRoom
<1>4. SafeSoFar /\ NothingClashes /\ ReportsAreTrue /\ OldIsKept
  BY Zenon DEF RestoreInit, SafeSoFar, NothingClashes, ReportsAreTrue, OldIsKept
<1>5. QED BY <1>1, <1>2, <1>3, <1>4 DEF RestoreInv

LEMMA RestoreStep == ASSUME RestoreInv, [RestoreNext]_restoreVars PROVE RestoreInv'
<1>1. RestoreShapes /\ RestoreSized BY Zenon DEF RestoreInv, RestoreTypeOK, RestoreShapes
<1>2. RestoreSized' BY <1>1 DEF RestoreSized
<1>3. RestoreTypeOK' /\ ListedSoFar' /\ Nested' /\ Written'
  BY <1>1, RestoreTypes, ListKeeps, NestingKeeps, WritingKeeps DEF RestoreInv
<1>4. JournalRoom' /\ SafeSoFar' /\ NothingClashes' /\ ReportsAreTrue' /\ OldIsKept' /\ DoneIsWhole'
  BY <1>1, JournalKeeps, SafetyKeeps, ClashesKeep, DoneKeeps DEF RestoreInv
<1>5. QED BY <1>2, <1>3, <1>4 DEF RestoreInv

LEMMA RestoreIsSafe ==
    ASSUME RestoreInv
    PROVE  ListingIsSound /\ NothingClashes /\ JournalHolds /\ ReportsAreTrue /\ OldIsKept /\ DoneIsWhole
<1>1. RestoreShapes /\ RestoreSized /\ ListedSoFar BY Zenon DEF RestoreInv, RestoreTypeOK, RestoreShapes
<1>2. \A i \in 1 .. Len(entries) : Padded(entries[i].size) \in Nat /\ entries[i].offset \in Nat
  BY <1>1, PaddedIsNat, EntriesAreTyped
<1>3. ListingIsSound BY <1>1, <1>2 DEF ListingIsSound, ListedSoFar, RestoreShapes
<1>4. JournalHolds BY <1>1, BudgetFits DEF RestoreInv, JournalRoom, JournalHolds, RestoreShapes, RestoreSized
<1>5. QED BY <1>3, <1>4 DEF RestoreInv

\* A restore of a save, wherever it fails, is cancelled or cut off: the listing lets nothing through
\* that could not be written, nothing is created over anything, commits fit the journal, the report
\* is true of what is committed, the server has the save that goes, and success means every file.
THEOREM RestoresAreWhole ==
    ASSUME RestoreSized
    PROVE  RestoreSpec => [](ListingIsSound /\ NothingClashes /\ JournalHolds /\ ReportsAreTrue /\ OldIsKept /\ DoneIsWhole)
<1>1. RestoreInit => RestoreInv BY RestoreInitially
<1>2. RestoreInv /\ [RestoreNext]_restoreVars => RestoreInv' BY RestoreStep
<1>3. RestoreInv => ListingIsSound /\ NothingClashes /\ JournalHolds /\ ReportsAreTrue /\ OldIsKept /\ DoneIsWhole
  BY RestoreIsSafe
<1>4. QED BY <1>1, <1>2, <1>3, PTL DEF RestoreSpec

--------------------------------------------------------------------------------
(* DeviceEvents: first the log.                                                 *)

\* The shape of the log with the entries' fields: what LogOK says, and that ids stay below the bound.
LogShape ==
    /\ LogOK(log) /\ log.head <= MaxHead /\ log.first \in Nat /\ log.first >= 1

LEMMA LogIsShaped == ASSUME LogOK(log), log.head <= MaxHead PROVE LogShape
BY MaxEventsAssumption DEF LogShape, LogOK

\* What since() finds is within the log and after the cursor.
LEMMA SinceIsLater ==
    ASSUME LogShape, NEW d \in Devices, NEW c \in Int
    PROVE  /\ Since(log, d, c) \subseteq 1..log.head /\ Since(log, d, c) \subseteq Int
           /\ \A i \in Since(log, d, c) : i > c /\ i <= log.head /\ i >= log.first
BY DEF LogShape, LogOK, Since

\* The cursor of an answer is the last id it carries.
LEMMA NextCursorIsLast ==
    ASSUME NEW ids, ids \subseteq Int, ids # {}, NEW n \in Int, \A i \in ids : i <= n, NEW c
    PROVE  NextCursor(ids, c) \in ids /\ \A i \in ids : i <= NextCursor(ids, c)
BY BoundedHasGreatest DEF NextCursor

LEMMA NextCursorOfOne == ASSUME NEW i \in Int, NEW c PROVE NextCursor({i}, c) = i
<1>1. \A x \in {i} : x <= i OBVIOUS
<1>2. NextCursor({i}, c) \in {i} BY <1>1, NextCursorIsLast
<1>3. QED BY <1>2

\* append() hands out the next id, keeps what it retains, and stays in shape.
LEMMA AppendedEntry ==
    ASSUME LogShape, NEW to \in Devices \cup {AllDevices}, log.head < MaxHead,
           log' = Appended(log, <<[dev |-> to]>>)
    PROVE  /\ LogShape' /\ log'.head = log.head + 1 /\ log'.first >= log.first
           /\ log'.first <= log'.head
           /\ \A i \in log'.first..log.head : i \in log.first..log.head /\ log'.at[i] = log.at[i]
           /\ log'.at[log.head + 1] = [dev |-> to]
<1> DEFINE h == log.head + 1
           f == IF h - log.first + 1 > MaxEvents THEN h - MaxEvents + 1 ELSE log.first
           a == [i \in f..h |-> IF i <= log.head THEN log.at[i] ELSE <<[dev |-> to]>>[i - log.head]]
<1>1. log' = [first |-> f, head |-> h, at |-> a] BY DEF Appended
<1>2. log.head \in Nat /\ log.first \in Nat /\ MaxEvents \in Nat /\ MaxEvents > 0 /\ log.first >= 1
      /\ log.first = (IF log.head > MaxEvents THEN log.head - MaxEvents + 1 ELSE 1)
  BY MaxEventsAssumption DEF LogShape, LogOK
<1>3. f \in Nat /\ f >= log.first /\ f <= h /\ f = (IF h > MaxEvents THEN h - MaxEvents + 1 ELSE 1) BY <1>2
<1>4. h \in Nat /\ h = log.head + 1 BY <1>2
<1> HIDE DEF f, h
<1>5. \A i \in f..log.head : a[i] = log.at[i] BY <1>2, <1>3, <1>4
<1>6. a[h] = [dev |-> to]
  <2>1. h \in f..h /\ ~(h <= log.head) /\ h - log.head = 1 BY <1>2, <1>3, <1>4
  <2>2. a[h] = <<[dev |-> to]>>[1] BY <2>1
  <2>3. QED BY <2>2
<1>7. \A i \in f..log.head : i \in log.first..log.head BY <1>2, <1>3
<1>8. DOMAIN a = f..h OBVIOUS
<1> HIDE DEF a
<1>9. log'.head = h /\ log'.first = f /\ log'.at = a BY <1>1
<1>10. \A i \in DOMAIN a : a[i].dev \in Devices \cup {AllDevices}
  <2>1. \A i \in f..h : i \in f..log.head \/ i = h BY <1>2, <1>3, <1>4
  <2>2. \A i \in log.first..log.head : log.at[i].dev \in Devices \cup {AllDevices} BY DEF LogShape, LogOK
  <2>3. QED BY <2>1, <2>2, <1>5, <1>6, <1>7, <1>8
<1>11. LogOK(log')
  <2>1. log'.head \in Nat /\ DOMAIN log'.at = log'.first..log'.head BY <1>4, <1>8, <1>9
  <2>2. \A i \in DOMAIN log'.at : log'.at[i].dev \in Devices \cup {AllDevices} BY <1>9, <1>10
  <2>3. log'.first = (IF log'.head > MaxEvents THEN log'.head - MaxEvents + 1 ELSE 1) BY <1>3, <1>9
  <2>4. QED BY <2>1, <2>2, <2>3 DEF LogOK
<1>12. h <= MaxHead BY <1>2, <1>4, BoundsAssumption
<1>13. log'.first \in Nat /\ log'.first >= 1 /\ log'.head <= MaxHead BY <1>2, <1>3, <1>9, <1>12
<1>14. LogShape' BY <1>11, <1>13, Zenon DEF LogShape
<1>15. QED BY <1>2, <1>3, <1>4, <1>5, <1>6, <1>7, <1>9, <1>14

--------------------------------------------------------------------------------
(* The invariant.                                                               *)

EventFlags == oldRun \in [Devices -> BOOLEAN] /\ missed \in [Devices -> BOOLEAN]

EventShapes ==
    /\ waiting \subseteq Devices
    /\ cursor \in [Devices -> 0..MaxHead \cup {NoCursor}]
    /\ owed \in [Devices -> SUBSET Ids] /\ skipped \in [Devices -> SUBSET Ids]
    /\ restarts \in 0..MaxRestarts

\* A held poll came with a cursor of this log, and nothing is after it.
HeldPolls == \A d \in waiting : cursor[d] # NoCursor /\ cursor[d] <= log.head /\ Since(log, d, cursor[d]) = {}

\* A cursor that this run handed out is not ahead of the log.
CursorsAreReached == \A d \in Devices : ~oldRun[d] => cursor[d] <= log.head

\* What a console is owed is of this run, is meant for it as long as the log retains it, and comes
\* after its cursor unless that is of an earlier run.
OwedIsAhead ==
    \A d \in Devices : \A i \in owed[d] :
        /\ cursor[d] # NoCursor /\ i <= log.head
        /\ i >= log.first => VisibleTo(log.at[i], d)
        /\ ~oldRun[d] => i > cursor[d]

EventInv == EventFlags /\ EventShapes /\ LogShape /\ HeldPolls /\ CursorsAreReached /\ OwedIsAhead

LEMMA InvIsTyped == EventInv => TypeOK
<1>1. SUFFICES ASSUME EventInv PROVE TypeOK OBVIOUS
<1>2. LogOK(log) /\ log.head <= MaxHead BY <1>1, Zenon DEF EventInv, LogShape
<1>3. QED BY <1>1, <1>2, Zenon DEF EventInv, EventFlags, EventShapes, TypeOK

LEMMA CursorsAreNumbers == ASSUME EventShapes, NEW d \in Devices PROVE cursor[d] \in Int /\ cursor[d] >= -1
<1>1. cursor[d] \in 0..MaxHead \cup {NoCursor} BY DEF EventShapes
<1>2. QED BY <1>1, BoundsAssumption DEF NoCursor

LEMMA EventsInitially == Init => EventInv
<1>1. SUFFICES ASSUME Init PROVE EventInv OBVIOUS
<1>2. EventFlags BY <1>1, Zenon DEF Init, EventFlags
<1>3. EventShapes BY <1>1, BoundsAssumption DEF Init, EventShapes
<1>4. LogShape
  <2>1. log.head = 0 /\ log.first = 1 /\ log.at = <<>> BY <1>1 DEF Init, EmptyLog
  <2>2. DOMAIN log.at = 1..0 BY <2>1
  <2>3. LogOK(log) BY <2>1, <2>2, MaxEventsAssumption DEF LogOK
  <2>4. QED BY <2>1, <2>3, BoundsAssumption DEF LogShape
<1>5. HeldPolls /\ OwedIsAhead BY <1>1, Zenon DEF Init, HeldPolls, OwedIsAhead
<1>6. CursorsAreReached BY <1>1 DEF Init, CursorsAreReached, NoCursor, EmptyLog
<1>7. QED BY <1>2, <1>3, <1>4, <1>5, <1>6 DEF EventInv

\* What an answer from the log does to the console that asked, and to no other.
LEMMA AnswerMoves ==
    ASSUME EventInv, NEW d \in Devices, PlainAnswer(d)
    PROVE  LET ids == Since(log, d, cursor[d])
               c == NextCursor(ids, cursor[d])
           IN /\ c \in ids /\ c \in 1..log.head /\ ids # {}
              /\ cursor' = [cursor EXCEPT ![d] = c]
              /\ oldRun' = [oldRun EXCEPT ![d] = FALSE]
              /\ owed' = [owed EXCEPT ![d] = {i \in owed[d] \ ids : i > c}]
              /\ skipped' = [skipped EXCEPT ![d] = skipped[d] \cup {i \in owed[d] \ ids : i <= c}]
              /\ UNCHANGED <<log, waiting, missed, restarts>>
<1> DEFINE ids == Since(log, d, cursor[d])
           c == NextCursor(ids, cursor[d])
<1>1. cursor[d] \in Int /\ LogShape BY CursorsAreNumbers DEF EventInv
<1>2. ids \subseteq 1..log.head /\ ids \subseteq Int /\ \A i \in ids : i <= log.head BY <1>1, SinceIsLater
<1>3. ids # {} /\ log.head \in Int BY <1>1 DEF PlainAnswer, LogShape, LogOK
<1>4. c \in ids
  <2> HIDE DEF ids
  <2>1. QED BY <1>2, <1>3, NextCursorIsLast
<1>5. cursor \in [Devices -> 0..MaxHead \cup {NoCursor}] /\ oldRun \in [Devices -> BOOLEAN]
      /\ skipped \in [Devices -> SUBSET Ids] BY DEF EventInv, EventShapes, EventFlags
<1>6. cursor' = [cursor EXCEPT ![d] = c] BY <1>5 DEF PlainAnswer, Told
<1>7. oldRun' = [oldRun EXCEPT ![d] = FALSE] BY <1>5, <1>3 DEF PlainAnswer, Told
<1>8. owed' = [owed EXCEPT ![d] = {i \in owed[d] \ ids : i > c}] BY DEF PlainAnswer, StillOwed
<1>9. skipped' = [skipped EXCEPT ![d] = skipped[d] \cup {i \in owed[d] \ ids : i <= c}]
  BY <1>5 DEF PlainAnswer, Told, PassedOver
<1>10. UNCHANGED <<log, waiting, missed, restarts>> BY DEF PlainAnswer
<1>11. QED BY <1>2, <1>3, <1>4, <1>6, <1>7, <1>8, <1>9, <1>10

LEMMA PlainAnswerKeeps == ASSUME EventInv, NEW d \in Devices, PlainAnswer(d) PROVE EventInv'
<1> DEFINE ids == Since(log, d, cursor[d])
           c == NextCursor(ids, cursor[d])
<1> HIDE DEF ids, c
<1>1. /\ c \in 1..log.head
      /\ cursor' = [cursor EXCEPT ![d] = c] /\ oldRun' = [oldRun EXCEPT ![d] = FALSE]
      /\ owed' = [owed EXCEPT ![d] = {i \in owed[d] \ ids : i > c}]
      /\ skipped' = [skipped EXCEPT ![d] = skipped[d] \cup {i \in owed[d] \ ids : i <= c}]
      /\ UNCHANGED <<log, waiting, missed, restarts>>
  BY AnswerMoves DEF c, ids
<1>2. d \notin waiting BY DEF PlainAnswer
<1>3. log.head \in Nat /\ log.head <= MaxHead BY DEF EventInv, LogShape, LogOK
<1>4. EventFlags' BY <1>1 DEF EventInv, EventFlags
<1>5. EventShapes' BY <1>1, <1>3, BoundsAssumption DEF EventInv, EventShapes
<1>6. LogShape' BY <1>1 DEF EventInv, LogShape
<1>7. HeldPolls' BY <1>1, <1>2 DEF EventInv, EventShapes, HeldPolls
<1>8. CursorsAreReached' BY <1>1, <1>3 DEF EventInv, EventShapes, EventFlags, CursorsAreReached
<1>9. OwedIsAhead' BY <1>1, <1>3 DEF EventInv, EventShapes, EventFlags, OwedIsAhead, NoCursor
<1>10. QED BY <1>4, <1>5, <1>6, <1>7, <1>8, <1>9 DEF EventInv

LEMMA ResyncAnswerKeeps == ASSUME EventInv, NEW d \in Devices, ResyncAnswer(d) PROVE EventInv'
<1> USE DEF ResyncAnswer
<1>1. log.head \in Nat /\ log.head <= MaxHead BY DEF EventInv, LogShape, LogOK
<1>2. EventFlags' BY DEF EventInv, EventFlags
<1>3. EventShapes' BY <1>1, BoundsAssumption DEF EventInv, EventShapes
<1>4. LogShape' BY DEF EventInv, LogShape
<1>5. HeldPolls' BY DEF EventInv, EventShapes, HeldPolls
<1>6. CursorsAreReached' BY <1>1 DEF EventInv, EventShapes, EventFlags, CursorsAreReached
<1>7. OwedIsAhead' BY <1>1 DEF EventInv, EventShapes, EventFlags, OwedIsAhead, NoCursor
<1>8. QED BY <1>2, <1>3, <1>4, <1>5, <1>6, <1>7 DEF EventInv

LEMMA NewSessionKeeps == ASSUME EventInv, NEW d \in Devices, NewSession(d) PROVE EventInv'
<1> USE DEF NewSession
<1>1. log.head \in Nat /\ log.head <= MaxHead BY DEF EventInv, LogShape, LogOK
<1>2. EventFlags' BY DEF EventInv, EventFlags
<1>3. EventShapes' BY <1>1, BoundsAssumption DEF EventInv, EventShapes
<1>4. LogShape' BY DEF EventInv, LogShape
<1>5. HeldPolls' BY DEF EventInv, EventShapes, HeldPolls
<1>6. CursorsAreReached' BY <1>1 DEF EventInv, EventShapes, EventFlags, CursorsAreReached, NoCursor
<1>7. OwedIsAhead' BY <1>1 DEF EventInv, EventShapes, EventFlags, OwedIsAhead
<1>8. QED BY <1>2, <1>3, <1>4, <1>5, <1>6, <1>7 DEF EventInv

LEMMA HoldPollKeeps == ASSUME EventInv, NEW d \in Devices, HoldPoll(d) PROVE EventInv'
<1> USE DEF HoldPoll
<1>1. log.head \in Nat /\ cursor[d] \in Int BY CursorsAreNumbers DEF EventInv, LogShape, LogOK
<1>2. cursor[d] <= log.head BY <1>1 DEF MustResync
<1>3. EventFlags' /\ EventShapes' BY DEF EventInv, EventFlags, EventShapes
<1>4. LogShape' /\ CursorsAreReached' /\ OwedIsAhead' BY DEF EventInv, LogShape, CursorsAreReached, OwedIsAhead
<1>5. HeldPolls' BY <1>2 DEF EventInv, HeldPolls
<1>6. QED BY <1>3, <1>4, <1>5 DEF EventInv

LEMMA ReleasePollKeeps == ASSUME EventInv, NEW d \in Devices, ReleasePoll(d) PROVE EventInv'
<1> USE DEF ReleasePoll
<1>1. EventFlags' /\ EventShapes' BY DEF EventInv, EventFlags, EventShapes
<1>2. LogShape' /\ CursorsAreReached' /\ OwedIsAhead' BY DEF EventInv, LogShape, CursorsAreReached, OwedIsAhead
<1>3. HeldPolls' BY DEF EventInv, HeldPolls
<1>4. QED BY <1>1, <1>2, <1>3 DEF EventInv

LEMMA RestartKeeps == ASSUME EventInv, Restart PROVE EventInv'
<1> USE DEF Restart
<1>1. log' = EmptyLog OBVIOUS
<1>2. log'.head = 0 /\ log'.first = 1 /\ log'.at = <<>> BY <1>1 DEF EmptyLog
<1>3. EventFlags' BY DEF EventFlags
<1>4. EventShapes' BY BoundsAssumption DEF EventInv, EventShapes
<1>5. LogShape'
  <2>1. LogOK(log')
    <3>1. DOMAIN log'.at = 1..0 BY <1>2
    <3>2. QED BY <1>2, <3>1, MaxEventsAssumption DEF LogOK
  <2>2. log'.head <= MaxHead /\ log'.first \in Nat /\ log'.first >= 1 BY <1>2, BoundsAssumption
  <2>3. QED BY <2>1, <2>2, Zenon DEF LogShape
<1>6. HeldPolls' /\ OwedIsAhead' BY DEF HeldPolls, OwedIsAhead
<1>7. CursorsAreReached'
  <2>1. \A d \in Devices : ~oldRun'[d] => cursor'[d] = NoCursor BY DEF EventInv, EventFlags
  <2>2. QED BY <1>2, <2>1 DEF CursorsAreReached, NoCursor
<1>8. QED BY <1>3, <1>4, <1>5, <1>6, <1>7 DEF EventInv

\* What append() does to each console: those in `got` are answered with the new entry, the others it
\* concerns owe it from now on.
LEMMA AppendMoves ==
    ASSUME EventInv, NEW to \in Devices \cup {AllDevices}, AppendEvent(to)
    PROVE  \E got \in SUBSET waiting :
              /\ log.head < MaxHead /\ log' = Appended(log, <<[dev |-> to]>>)
              /\ waiting' = {d \in waiting : ~VisibleTo([dev |-> to], d)}
              /\ cursor' = [d \in Devices |-> IF d \in got THEN log.head + 1 ELSE cursor[d]]
              /\ oldRun' = [d \in Devices |-> IF d \in got THEN FALSE ELSE oldRun[d]]
              /\ skipped' = [d \in Devices |-> IF d \in got THEN skipped[d] \cup {i \in owed[d] \ {log.head + 1} : i <= log.head + 1}
                                               ELSE skipped[d]]
              /\ \A d \in got : VisibleTo([dev |-> to], d)
              /\ owed' = [d \in Devices |->
                            IF d \in got THEN {i \in owed[d] \ {log.head + 1} : i > log.head + 1}
                            ELSE IF VisibleTo([dev |-> to], d) /\ cursor[d] # NoCursor THEN owed[d] \cup {log.head + 1}
                            ELSE owed[d]]
              /\ UNCHANGED <<missed, restarts>>
<1> DEFINE id == log.head + 1
           entry == [dev |-> to]
           resolved == {d \in waiting : Concerned(entry, d) /\ id > cursor[d]}
           ids == [d \in Devices |-> {id}]
<1>1. id \in Int /\ waiting \subseteq Devices /\ \A d \in waiting : cursor[d] <= log.head /\ cursor[d] \in Int
  BY CursorsAreNumbers DEF EventInv, LogShape, LogOK, EventShapes, HeldPolls
<1>2. PICK got \in SUBSET resolved :
         /\ Told(got, ids)
         /\ owed' = [d \in Devices |->
                       IF d \in got THEN StillOwed(d, {id}, id)
                       ELSE IF d \in {e \in Devices : VisibleTo(entry, e) /\ cursor[e] # NoCursor} THEN owed[d] \cup {id}
                       ELSE owed[d]]
  BY DEF AppendEvent
<1>3. log.head < MaxHead /\ log' = Appended(log, <<entry>>) /\ waiting' = waiting \ resolved /\ UNCHANGED <<missed, restarts>>
  BY DEF AppendEvent
<1>4. resolved = {d \in waiting : VisibleTo(entry, d)} BY <1>1 DEF Concerned, LogShape, LogOK, EventInv
<1>5. \A d \in Devices : NextCursor(ids[d], cursor[d]) = id BY <1>1, NextCursorOfOne
<1>6. waiting' = {d \in waiting : ~VisibleTo(entry, d)} BY <1>3, <1>4
<1>7. got \in SUBSET waiting /\ \A d \in got : VisibleTo(entry, d) BY <1>2, <1>4
<1> HIDE DEF id, resolved, entry
<1>8. cursor' = [d \in Devices |-> IF d \in got THEN id ELSE cursor[d]] BY <1>2, <1>5 DEF Told
<1>9. oldRun' = [d \in Devices |-> IF d \in got THEN FALSE ELSE oldRun[d]] BY <1>2 DEF Told
<1>10. skipped' = [d \in Devices |-> IF d \in got THEN skipped[d] \cup {i \in owed[d] \ {id} : i <= id} ELSE skipped[d]]
  BY <1>2, <1>5 DEF Told, PassedOver
<1>11. owed' = [d \in Devices |-> IF d \in got THEN {i \in owed[d] \ {id} : i > id}
                                  ELSE IF VisibleTo(entry, d) /\ cursor[d] # NoCursor THEN owed[d] \cup {id}
                                  ELSE owed[d]]
  BY <1>2 DEF StillOwed
<1> USE DEF id, entry
<1>12. QED BY <1>3, <1>6, <1>7, <1>8, <1>9, <1>10, <1>11

LEMMA AppendEventKeeps == ASSUME EventInv, NEW to \in Devices \cup {AllDevices}, AppendEvent(to) PROVE EventInv'
<1> DEFINE id == log.head + 1
           sees(d) == VisibleTo([dev |-> to], d)
<1> HIDE DEF id, sees
<1>1. PICK got \in SUBSET waiting :
         /\ log.head < MaxHead /\ log' = Appended(log, <<[dev |-> to]>>)
         /\ waiting' = {d \in waiting : ~sees(d)}
         /\ cursor' = [d \in Devices |-> IF d \in got THEN id ELSE cursor[d]]
         /\ oldRun' = [d \in Devices |-> IF d \in got THEN FALSE ELSE oldRun[d]]
         /\ skipped' = [d \in Devices |-> IF d \in got THEN skipped[d] \cup {i \in owed[d] \ {id} : i <= id} ELSE skipped[d]]
         /\ \A d \in got : sees(d)
         /\ owed' = [d \in Devices |-> IF d \in got THEN {i \in owed[d] \ {id} : i > id}
                                       ELSE IF sees(d) /\ cursor[d] # NoCursor THEN owed[d] \cup {id}
                                       ELSE owed[d]]
         /\ UNCHANGED <<missed, restarts>>
  BY AppendMoves DEF id, sees
<1>2. /\ LogShape' /\ log'.head = id /\ log'.first >= log.first /\ log'.first <= id
      /\ \A i \in log'.first..log.head : i \in log.first..log.head /\ log'.at[i] = log.at[i]
      /\ log'.at[id] = [dev |-> to]
  BY <1>1, AppendedEntry DEF EventInv, id
<1>3. log.head \in Nat /\ log.first \in Nat /\ id = log.head + 1 /\ id \in Ids /\ log'.first \in Nat /\ MaxHead \in Nat
  <2>1. log'.first \in Nat BY <1>2 DEF LogShape
  <2>2. QED BY <1>1, <2>1, BoundsAssumption DEF EventInv, LogShape, LogOK, id, Ids
<1>4. waiting \subseteq Devices /\ owed \in [Devices -> SUBSET Ids] BY DEF EventInv, EventShapes
<1>5. EventFlags' BY <1>1 DEF EventInv, EventFlags
<1>6. EventShapes'
  <2>1. cursor' \in [Devices -> 0..MaxHead \cup {NoCursor}]
    BY <1>1, <1>3 DEF EventInv, EventShapes, Ids
  <2>2. owed' \in [Devices -> SUBSET Ids] BY <1>1, <1>3, <1>4
  <2>3. skipped' \in [Devices -> SUBSET Ids] BY <1>1, <1>4 DEF EventInv, EventShapes
  <2>4. QED BY <1>1, <1>4, <2>1, <2>2, <2>3 DEF EventInv, EventShapes
<1>7. HeldPolls'
  <2>1. SUFFICES ASSUME NEW d \in waiting' PROVE cursor'[d] # NoCursor /\ cursor'[d] <= log'.head /\ Since(log', d, cursor'[d]) = {}
    BY DEF HeldPolls
  <2>2. d \in waiting /\ d \in Devices /\ ~sees(d) /\ d \notin got /\ cursor'[d] = cursor[d] BY <1>1, <1>4
  <2>3. cursor[d] # NoCursor /\ cursor[d] <= log.head /\ Since(log, d, cursor[d]) = {} BY <2>2 DEF EventInv, HeldPolls
  <2>4. cursor[d] \in Int BY <2>2, CursorsAreNumbers DEF EventInv
  <2>5. ASSUME NEW i \in Since(log', d, cursor[d]) PROVE FALSE
    <3>1. i \in log'.first..id /\ i > cursor[d] /\ VisibleTo(log'.at[i], d) BY <1>2, <2>5 DEF Since
    <3>2. CASE i = id BY <3>1, <3>2, <1>2, <2>2 DEF sees
    <3>3. CASE i # id
      <4>1. i \in log'.first..log.head BY <3>1, <3>3, <1>3
      <4>2. i \in Since(log, d, cursor[d]) BY <4>1, <3>1, <1>2 DEF Since
      <4>3. QED BY <4>2, <2>3
    <3>4. QED BY <3>2, <3>3
  <2>6. QED BY <1>2, <1>3, <2>2, <2>3, <2>4, <2>5
<1>8. CursorsAreReached'
  <2>1. SUFFICES ASSUME NEW d \in Devices, ~oldRun'[d] PROVE cursor'[d] <= log'.head BY DEF CursorsAreReached
  <2>2. cursor[d] \in Int BY CursorsAreNumbers DEF EventInv
  <2>3. CASE d \in got BY <2>3, <1>1, <1>2, <1>3
  <2>4. CASE d \notin got
    <3>1. cursor'[d] = cursor[d] /\ ~oldRun[d] BY <2>1, <2>4, <1>1
    <3>2. QED BY <3>1, <2>2, <1>2, <1>3 DEF EventInv, CursorsAreReached
  <2>5. QED BY <2>3, <2>4
<1>9. OwedIsAhead'
  <2>1. SUFFICES ASSUME NEW d \in Devices, NEW i \in owed'[d]
                 PROVE  /\ cursor'[d] # NoCursor /\ i <= log'.head
                        /\ i >= log'.first => VisibleTo(log'.at[i], d)
                        /\ ~oldRun'[d] => i > cursor'[d]
    BY DEF OwedIsAhead
  <2>2. cursor[d] \in Int /\ owed[d] \subseteq Ids /\ \A k \in owed[d] : k \in Nat
    BY <1>4, CursorsAreNumbers DEF EventInv, Ids
  <2>3. \A k \in owed[d] : /\ cursor[d] # NoCursor /\ k <= log.head
                           /\ k >= log.first => VisibleTo(log.at[k], d)
                           /\ ~oldRun[d] => k > cursor[d]
    BY DEF EventInv, OwedIsAhead
  <2>4. d \notin got
    <3>1. ASSUME d \in got PROVE FALSE
      <4>1. i \in owed[d] /\ i > id BY <1>1, <2>1, <3>1
      <4>2. QED BY <4>1, <2>2, <2>3, <1>3
    <3>2. QED BY <3>1
  <2>5. cursor'[d] = cursor[d] /\ oldRun'[d] = oldRun[d] BY <1>1, <2>4
  <2>6. CASE i \in owed[d]
    <3>1. i <= id /\ i >= log'.first => VisibleTo(log'.at[i], d)
      <4>1. ASSUME i >= log'.first PROVE VisibleTo(log'.at[i], d)
        <5>1. i \in log'.first..log.head BY <2>2, <2>3, <2>6, <1>3, <4>1
        <5>2. log'.at[i] = log.at[i] /\ i >= log.first BY <5>1, <1>2, <1>3
        <5>3. QED BY <5>2, <2>3, <2>6
      <4>2. QED BY <4>1
    <3>2. i <= id BY <2>2, <2>3, <2>6, <1>3
    <3>3. QED BY <3>1, <3>2, <2>3, <2>5, <2>6, <1>2
  <2>7. CASE i \notin owed[d]
    <3>1. i = id /\ sees(d) /\ cursor[d] # NoCursor BY <1>1, <2>1, <2>4, <2>7
    <3>2. ~oldRun[d] => cursor[d] <= log.head BY DEF EventInv, CursorsAreReached
    <3>3. VisibleTo(log'.at[id], d) BY <1>2, <3>1 DEF sees
    <3>4. QED BY <3>1, <3>2, <3>3, <2>2, <2>5, <1>2, <1>3
  <2>8. QED BY <2>6, <2>7
<1>10. QED BY <1>2, <1>5, <1>6, <1>7, <1>8, <1>9 DEF EventInv

LEMMA EventStep == EventInv /\ [Next]_vars => EventInv'
<1>1. SUFFICES ASSUME EventInv, [Next]_vars PROVE EventInv' OBVIOUS
<1>2. CASE Restart BY <1>1, <1>2, RestartKeeps
<1>3. ASSUME NEW to \in Devices \cup {AllDevices}, AppendEvent(to) PROVE EventInv' BY <1>1, <1>3, AppendEventKeeps
<1>4. ASSUME NEW d \in Devices, PlainAnswer(d) \/ ResyncAnswer(d) PROVE EventInv'
  BY <1>1, <1>4, PlainAnswerKeeps, ResyncAnswerKeeps
<1>5. ASSUME NEW d \in Devices, HoldPoll(d) \/ ReleasePoll(d) \/ NewSession(d) PROVE EventInv'
  BY <1>1, <1>5, HoldPollKeeps, ReleasePollKeeps, NewSessionKeeps
<1>6. CASE UNCHANGED vars
  BY <1>1, <1>6 DEF vars, EventInv, EventFlags, EventShapes, LogShape, HeldPolls, CursorsAreReached, OwedIsAhead
<1>7. QED BY <1>1, <1>2, <1>3, <1>4, <1>5, <1>6 DEF Next

LEMMA EventInvariance == Spec => []EventInv
<1>1. Init => EventInv BY EventsInitially
<1>2. EventInv /\ [Next]_vars => EventInv' BY EventStep
<1>3. QED BY <1>1, <1>2, PTL DEF Spec

--------------------------------------------------------------------------------
(* The properties.                                                              *)

\* What a console that is not blind is owed comes with its next poll, or that poll resyncs it.
LEMMA OwedIsWithinReach ==
    ASSUME EventInv, NEW d \in Devices, cursor[d] # NoCursor, ~Blind(d), ~MustResync(log, d, cursor[d])
    PROVE  owed[d] \subseteq Since(log, d, cursor[d])
<1>1. cursor[d] \in Int /\ cursor[d] # 0 /\ ~oldRun[d] /\ Since(log, d, -1) # {}
  BY CursorsAreNumbers DEF EventInv, Blind
<1>2. log.head \in Nat /\ log.first \in Nat BY DEF EventInv, LogShape, LogOK
<1>3. owed[d] \subseteq Ids /\ \A i \in owed[d] : i \in Nat /\ i <= log.head /\ i > cursor[d]
                              /\ (i >= log.first => VisibleTo(log.at[i], d))
  BY <1>1 DEF EventInv, EventShapes, OwedIsAhead, Ids
<1>4. PICK s \in Since(log, d, -1) : ~(cursor[d] < s - 1) BY <1>1 DEF MustResync
<1>5. s \in Nat /\ s >= log.first BY <1>2, <1>4 DEF Since
<1>6. \A i \in owed[d] : i >= log.first BY <1>1, <1>2, <1>3, <1>4, <1>5
<1>7. QED BY <1>2, <1>3, <1>6 DEF Since

LEMMA InvGivesDelivery == EventInv => OwedIsDeliverable
<1>1. ASSUME EventInv, NEW d \in Devices, cursor[d] # NoCursor, ~MustResync(log, d, cursor[d]), ~Blind(d)
      PROVE owed[d] \subseteq Since(log, d, cursor[d])
  BY <1>1, OwedIsWithinReach
<1>2. QED BY <1>1, Zenon DEF OwedIsDeliverable

\* The types of the log, the cursors and the histories (DeviceEventLog).
THEOREM EventTypesAreKept == Spec => []TypeOK
<1>1. EventInv => TypeOK BY InvIsTyped
<1>2. QED BY <1>1, EventInvariance, PTL

\* A held poll never sleeps on an event for its console (DeviceEventLog.wait, append).
THEOREM HeldPollsMissNothing == Spec => []NoHeldPollMissesEvents
<1>1. EventInv => NoHeldPollMissesEvents BY DEF EventInv, HeldPolls, NoHeldPollMissesEvents
<1>2. QED BY <1>1, EventInvariance, PTL

\* Whatever the order of polls, held polls, lost answers, trims and restarts, the next poll of a
\* console that is not blind brings it all it is owed, or a resync (pollEvents).
THEOREM OwedEventsAreDelivered == Spec => []OwedIsDeliverable
<1>1. EventInv => OwedIsDeliverable BY InvGivesDelivery
<1>2. QED BY <1>1, EventInvariance, PTL

SkipsOnlyBlindly == \A d \in Devices : skipped'[d] \subseteq skipped[d] \/ Blind(d)

\* A held poll is answered with one entry: there is nothing before it to be jumped over.
LEMMA HeldAnswersSkipNothing ==
    ASSUME EventInv, NEW d \in waiting, ~Blind(d) PROVE owed[d] = {}
<1>1. d \in Devices /\ cursor[d] # NoCursor /\ cursor[d] <= log.head /\ Since(log, d, cursor[d]) = {} /\ cursor[d] \in Int
  BY CursorsAreNumbers DEF EventInv, EventShapes, HeldPolls
<1>2. log.head \in Nat /\ log.first \in Nat BY DEF EventInv, LogShape, LogOK
<1>3. Since(log, d, -1) # {} BY DEF Blind
<1>4. PICK s : s \in Since(log, d, -1) BY <1>3
<1>5. s \in Nat /\ ~(s > cursor[d]) BY <1>1, <1>2, <1>4 DEF Since
<1>6. ~MustResync(log, d, cursor[d]) BY <1>1, <1>2, <1>4, <1>5 DEF MustResync
<1>7. QED BY <1>1, <1>6, OwedIsWithinReach

LEMMA StepSkipsOnlyBlindly == EventInv /\ [Next]_vars => SkipsOnlyBlindly
<1>1. SUFFICES ASSUME EventInv, [Next]_vars, NEW d \in Devices, ~Blind(d) PROVE skipped'[d] \subseteq skipped[d]
  BY DEF SkipsOnlyBlindly
<1>2. skipped \in [Devices -> SUBSET Ids] BY <1>1 DEF EventInv, EventShapes
<1>3. CASE Restart BY <1>3 DEF Restart
<1>4. ASSUME NEW to \in Devices \cup {AllDevices}, AppendEvent(to) PROVE skipped'[d] \subseteq skipped[d]
  <2>1. PICK got \in SUBSET waiting :
           skipped' = [e \in Devices |-> IF e \in got THEN skipped[e] \cup {i \in owed[e] \ {log.head + 1} : i <= log.head + 1}
                                         ELSE skipped[e]]
    BY <1>1, <1>4, AppendMoves
  <2>2. CASE d \in got
    <3>1. owed[d] = {} BY <1>1, <2>2, HeldAnswersSkipNothing
    <3>2. QED BY <2>1, <2>2, <3>1
  <2>3. CASE d \notin got BY <2>1, <2>3
  <2>4. QED BY <2>2, <2>3
<1>5. ASSUME NEW e \in Devices, PlainAnswer(e) PROVE skipped'[d] \subseteq skipped[d]
  <2>1. LET ids == Since(log, e, cursor[e])
        IN skipped' = [skipped EXCEPT ![e] = skipped[e] \cup {i \in owed[e] \ ids : i <= NextCursor(ids, cursor[e])}]
    BY <1>1, <1>5, AnswerMoves
  <2>2. CASE e = d
    <3>1. owed[d] \subseteq Since(log, d, cursor[d]) BY <1>1, <1>5, <2>2, OwedIsWithinReach DEF PlainAnswer
    <3>2. QED BY <1>2, <2>1, <2>2, <3>1
  <2>3. CASE e # d BY <1>2, <2>1, <2>3
  <2>4. QED BY <2>2, <2>3
<1>6. ASSUME NEW e \in Devices, ResyncAnswer(e) \/ NewSession(e) PROVE skipped'[d] \subseteq skipped[d]
  BY <1>2, <1>6 DEF ResyncAnswer, NewSession
<1>7. ASSUME NEW e \in Devices, HoldPoll(e) \/ ReleasePoll(e) PROVE skipped'[d] \subseteq skipped[d]
  BY <1>7 DEF HoldPoll, ReleasePoll
<1>8. CASE UNCHANGED vars BY <1>8 DEF vars
<1>9. QED BY <1>1, <1>3, <1>4, <1>5, <1>6, <1>7, <1>8 DEF Next

\* An answer moves a cursor past an event it does not carry only from a blind cursor: trimming the
\* log makes no other console lose one.
THEOREM CursorsSkipOnlyBlindly == Spec => SkipsOnlyFromBlindCursor
<1>1. EventInv /\ [Next]_vars => SkipsOnlyBlindly BY StepSkipsOnlyBlindly
<1>2. Spec => [][SkipsOnlyBlindly]_vars BY <1>1, EventInvariance, PTL DEF Spec
<1>3. QED BY <1>2 DEF SkipsOnlyFromBlindCursor, SkipsOnlyBlindly
================================================================================
