----------------------------- MODULE PublishRelease -----------------------------
(***************************************************************************)
(* publish-local-runtime.sh beside the scheduled refresh: its own lock,    *)
(* the stop of the running refresh, the wait for quiescence, the deploy    *)
(* and the reload of the launchd agent at the end.                         *)
(*                                                                         *)
(* launchctl stop ends the script that launchd runs, but leaves the agent  *)
(* loaded, so the next five-minute poll starts it again; bootout ends it   *)
(* once more and unloads the agent until bootstrap.  The publish lock is a *)
(* directory whose pid nobody reads: it counts for 300 s.                  *)
(*                                                                         *)
(* pgrep sees every script and every job it has left behind, since a job   *)
(* is a function in a subshell that keeps the script's command line.  The  *)
(* commands of the deploy are left out but for the restart of the backend, *)
(* which ends the API's tick.                                              *)
(***************************************************************************)
EXTENDS ScheduledRefresh

CONSTANTS
    Launchd,        \* the invocation that launchd starts
    Publisher       \* runs of the publish script that may overlap

ASSUME LaunchdAssumption == Launchd \in Proc

VARIABLES
    place,          \* where each publish stands
    publishLock,    \* publish.lock: "absent", "fresh" or "old" (300 s)
    loaded,         \* launchd has the refresh agent loaded
    disturbed,      \* history: publishes in whose deploy the script was started
    overdue         \* history: the age of a lock let a second publish in

publishVars == <<place, publishLock, loaded, disturbed, overdue>>
allVars == <<vars, publishVars>>

TakingOver == {"remove", "remake"}
Quiescing == {"lock check", "process check", "asleep"}
Deploying == {"deploy", "verify"}

\* From acquire_publish_lock to the end of the EXIT trap.
Inside == {"stop"} \union Quiescing \union Deploying \union {"boot out", "bootstrap", "unlock"}

\* An earlier publish may have left its lock behind.
PublishInit ==
    /\ Init
    /\ place = [u \in Publisher |-> "out"]
    /\ publishLock \in {"absent", "fresh", "old"}
    /\ loaded = TRUE
    /\ disturbed = {}
    /\ overdue = FALSE

At(u, from, to) == place[u] = from /\ place' = [place EXCEPT ![u] = to]

---------------------------------------------------------------------------
(* acquire_publish_lock *)

\* The first mkdir.
Publishes(u) ==
    /\ At(u, "out", IF publishLock = "absent" THEN "stop" ELSE "age")
    /\ publishLock' = IF publishLock = "absent" THEN "fresh" ELSE publishLock
    /\ UNCHANGED <<vars, loaded, disturbed, overdue>>

\* A lock that is younger than 300 s, or gone by now, ends the script.
ReadsAge(u) ==
    /\ At(u, "age", IF publishLock = "old" THEN "remove" ELSE "done")
    /\ overdue' = (overdue \/ /\ publishLock = "old"
                              /\ \E v \in Publisher \ {u} : place[v] \in TakingOver)
    /\ UNCHANGED <<vars, publishLock, loaded, disturbed>>

\* rm -rf
RemovesPublishLock(u) ==
    /\ At(u, "remove", "remake")
    /\ publishLock' = "absent"
    /\ UNCHANGED <<vars, loaded, disturbed, overdue>>

\* The second mkdir.
RemakesPublishLock(u) ==
    /\ At(u, "remake", IF publishLock = "absent" THEN "stop" ELSE "done")
    /\ publishLock' = IF publishLock = "absent" THEN "fresh" ELSE publishLock
    /\ UNCHANGED <<vars, loaded, disturbed, overdue>>

---------------------------------------------------------------------------
(* The pause *)

\* launchd ends the script it runs, if any.
LaunchdStops ==
    /\ IF pc[Launchd] = "idle" THEN UNCHANGED <<pc, todo, lock, orphans>> ELSE Killed(Launchd)
    /\ UNCHANGED <<evening, files, tick, troubles, raced>>

\* launchctl stop
Pauses(u) ==
    /\ At(u, "stop", "lock check")
    /\ LaunchdStops
    /\ UNCHANGED <<publishLock, loaded, disturbed, overdue>>

\* scheduled_refresh_lock_active
LooksAtLock(u) ==
    /\ At(u, "lock check", IF lock \in Proc THEN "asleep" ELSE "process check")
    /\ UNCHANGED <<vars, publishLock, loaded, disturbed, overdue>>

Quiet == orphans = {} /\ \A p \in Proc : pc[p] = "idle"

\* Mutant of LooksAtProcesses: only the scripts are looked for, not their jobs.
MutantLooksAtProcesses(u) ==
    /\ At(u, "process check", IF \A p \in Proc : pc[p] = "idle" THEN "deploy" ELSE "asleep")
    /\ UNCHANGED <<vars, publishLock, loaded, disturbed, overdue>>

\* scheduled_refresh_process_active
LooksAtProcesses(u) ==
    /\ At(u, "process check", IF Quiet THEN "deploy" ELSE "asleep")
    /\ UNCHANGED <<vars, publishLock, loaded, disturbed, overdue>>

\* sleep 2
Wakes(u) ==
    /\ At(u, "asleep", "lock check")
    /\ UNCHANGED <<vars, publishLock, loaded, disturbed, overdue>>

---------------------------------------------------------------------------
(* The deploy and the way out *)

\* rsync, and the restart of the backend with its background loop.
Deploys(u) ==
    /\ At(u, "deploy", "verify")
    /\ tick' = FALSE
    /\ UNCHANGED <<pc, todo, evening, lock, files, orphans, troubles, raced,
                   publishLock, loaded, disturbed, overdue>>

\* The script ends, for whatever reason but SIGKILL: it is done, the refresh
\* did not come to rest in 180 s, a command failed, or a signal.  Only a paused
\* refresh is resumed.
Exits(u) ==
    /\ place[u] \in {"stop"} \union Quiescing \union Deploying
    /\ place' = [place EXCEPT ![u] = IF @ = "stop" THEN "unlock" ELSE "boot out"]
    /\ disturbed' = disturbed \ {u}
    /\ UNCHANGED <<vars, publishLock, loaded, overdue>>

\* cleanup_on_exit, resume_scheduled_refresh: launchctl bootout ...
BootsOut(u) ==
    /\ At(u, "boot out", "bootstrap")
    /\ LaunchdStops
    /\ loaded' = FALSE
    /\ UNCHANGED <<publishLock, disturbed, overdue>>

\* ... and launchctl bootstrap ...
Bootstraps(u) ==
    /\ At(u, "bootstrap", "unlock")
    /\ loaded' = TRUE
    /\ UNCHANGED <<vars, publishLock, disturbed, overdue>>

\* ... whose failure "|| true" passes over.
BootstrapFails(u) ==
    /\ At(u, "bootstrap", "unlock")
    /\ troubles < MaxTroubles
    /\ troubles' = troubles + 1
    /\ UNCHANGED <<pc, todo, evening, lock, files, orphans, tick, raced,
                   publishLock, loaded, disturbed, overdue>>

\* release_publish_lock removes whatever lock there is.
Unlocks(u) ==
    /\ At(u, "unlock", "done")
    /\ publishLock' = "absent"
    /\ UNCHANGED <<vars, loaded, disturbed, overdue>>

\* SIGKILL, or a signal before the trap is set.
PublishDies(u) ==
    /\ place[u] \in Inside \union TakingOver
    /\ troubles < MaxTroubles
    /\ troubles' = troubles + 1
    /\ place' = [place EXCEPT ![u] = "done"]
    /\ disturbed' = disturbed \ {u}
    /\ UNCHANGED <<pc, todo, evening, lock, files, orphans, tick, raced,
                   publishLock, loaded, overdue>>

\* 300 s go by, for a publish that is still at work or for a lock left behind.
LockAges ==
    /\ publishLock = "fresh"
    /\ publishLock' = "old"
    /\ overdue' = (overdue \/ \E u \in Publisher : place[u] \in Inside)
    /\ UNCHANGED <<vars, place, loaded, disturbed>>

---------------------------------------------------------------------------

\* A start of the refresh script: launchd's polls need the agent.
Polls(p) ==
    /\ p = Launchd => loaded
    /\ Poll(p)
    /\ disturbed' = disturbed \union {u \in Publisher : place[u] \in Deploying}
    /\ UNCHANGED <<place, publishLock, loaded, overdue>>

\* Every other step of the refresh and its surroundings.
RefreshGoesOn ==
    /\ \/ \E p \in Proc : Proceed(p) \/ Offline(p) \/ JobFails(p) \/ Crash(p)
       \/ \E s \in Slots : OrphanEnds(s) \/ Expire(s)
       \/ Evening
       \/ TickStarts \/ TickEnds
    /\ UNCHANGED publishVars

\* What the publish script does by itself once started.
PublishProceeds(u) ==
    \/ ReadsAge(u) \/ RemovesPublishLock(u) \/ RemakesPublishLock(u)
    \/ Pauses(u) \/ LooksAtLock(u) \/ LooksAtProcesses(u) \/ Wakes(u)
    \/ Deploys(u) \/ Exits(u) \/ BootsOut(u) \/ Bootstraps(u) \/ Unlocks(u)

PublishNext ==
    \/ \E p \in Proc : Polls(p)
    \/ RefreshGoesOn
    \/ \E u \in Publisher : Publishes(u) \/ PublishProceeds(u) \/ BootstrapFails(u) \/ PublishDies(u)
    \/ LockAges

PublishSpec == PublishInit /\ [][PublishNext]_allVars

\* launchd polls every five minutes while the agent is loaded, a script that is
\* started goes on, jobs end, the evening comes, the retry intervals pass.
PublishFairSpec ==
    /\ PublishSpec
    /\ WF_allVars(Evening /\ UNCHANGED publishVars)
    /\ \A p \in Proc : WF_allVars(Polls(p)) /\ WF_allVars(Proceed(p) /\ UNCHANGED publishVars)
    /\ \A s \in Slots : /\ WF_allVars(OrphanEnds(s) /\ UNCHANGED publishVars)
                        /\ WF_allVars(Expire(s) /\ UNCHANGED publishVars)
    /\ \A u \in Publisher : WF_allVars(PublishProceeds(u))

---------------------------------------------------------------------------
(* Properties *)

\* The state of the publishes has its shape.
PublishTypeOK ==
    /\ TypeOK
    /\ place \in [Publisher -> {"out", "age", "done"} \union TakingOver \union Inside]
    /\ publishLock \in {"absent", "fresh", "old"}
    /\ loaded \in BOOLEAN /\ disturbed \subseteq Publisher /\ overdue \in BOOLEAN

\* Two publishes work at one time only after one had been at work for 300 s or
\* two were taking a stale lock over at one time: neither a kill, nor a refusal,
\* nor the unconditional release lets a second one in.
PublishersExcluded ==
    ~overdue => \A u, v \in Publisher : place[u] \in Inside /\ place[v] \in Inside => u = v

\* No script and no job that a killed script has left behind works while a
\* publish deploys, until the next poll starts one.
DeploysAloneUntilPolled ==
    (\E u \in Publisher \ disturbed : place[u] \in Deploying) => Quiet

\* publish-local-runtime.sh:119 as it stands: no script and no job of the
\* refresh works while a publish deploys.
RefreshPaused == (\E u \in Publisher : place[u] \in Deploying) => Quiet

\* Whatever crashes, fails, is offline for a while or is killed by a publish in
\* its work, the evening slots are completed: a stale lock is taken over, a
\* failed slot is retried and does not hold up the other.  Only a kill or a
\* failing bootstrap that leaves the agent unloaded prevents it.
SlotsOutlastPublishes == <>[]~loaded \/ \A s \in EveningSlots : <>(s \in ok)
=================================================================================
