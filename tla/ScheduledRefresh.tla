---------------------------- MODULE ScheduledRefresh ----------------------------
(***************************************************************************)
(* run-scheduled-refresh.sh: the slots of one trading date, the lock that  *)
(* keeps two invocations of the script apart, and the background tick of   *)
(* the API that stands back while the lock is active (runtime_locks.py).   *)
(*                                                                         *)
(* launchd starts the script every five minutes and never twice at a time; *)
(* a user may start it by hand (scheduled_refresh_status.py:310).  Every   *)
(* command that touches the state directory is a step: mkdir, the write of *)
(* the pid file, its read, rm -rf, the marks.  The files of a slot are     *)
(* .ok, .attempted and .deferred.  There is no .failed: under "set -e" a   *)
(* failing job ends the script at run_with_timeout, before                 *)
(* mark_slot_failed, so slot_recently_failed is always false.              *)
(*                                                                         *)
(* A dead process keeps its pid to itself: the reuse of a pid while a      *)
(* stale lock names it, which only delays the takeover, is left out.       *)
(***************************************************************************)
EXTENDS Integers, Sequences

CONSTANTS
    Proc,           \* invocations of the script that may overlap
    MaxTroubles     \* bound: crashes, failed jobs and network outages together

ASSUME RefreshAssumption ==
    /\ Proc \cap {"absent", "unowned", "dead"} = {}
    /\ MaxTroubles \in Nat

SameDay == "shortpick_intraday_same_day"
EveningSlots == {"postmarket", "shortpick_lab"}
Slots == EveningSlots \union {SameDay}

VARIABLES
    pc,             \* where each invocation stands; "idle" when it does not run
    todo,           \* its slots, the one it is at first
    evening,        \* the time of day has passed ASHARE_POSTMARKET_DAILY_REFRESH_AT
    lock,           \* run.lock: "absent", "unowned" (no pid file), a live pid or "dead"
    ok,             \* slots with a .ok file
    attempted,      \* the .attempted files: "none", "fresh", "old"
    deferred,       \* slots with a .deferred file
    orphans,        \* slots whose job outlived its script
    tick,           \* whether a background tick of the API is running
    troubles,       \* number of crashes, failures and outages, for the bound
    raced           \* history: two invocations were in acquire_run_lock at once

files == <<ok, attempted, deferred>>
vars == <<pc, todo, evening, lock, ok, attempted, deferred, orphans, tick, troubles, raced>>

\* Inside acquire_run_lock after its first mkdir.
Acquiring == {"write", "read", "remove", "relock"}

\* After acquire_run_lock has returned 0 and until release_run_lock.
Holding == {"held", "running", "clean", "release"}

---------------------------------------------------------------------------
(* Steps of an invocation *)

Init ==
    /\ pc = [p \in Proc |-> "idle"]
    /\ todo = [p \in Proc |-> <<>>]
    /\ evening = FALSE
    /\ lock = "absent"
    /\ ok = {}
    /\ attempted = [s \in Slots |-> "none"]
    /\ deferred = {}
    /\ orphans = {}
    /\ tick = FALSE
    /\ troubles = 0
    /\ raced = FALSE

Slot(p) == Head(todo[p])

GoTo(p, place) == pc' = [pc EXCEPT ![p] = place] /\ UNCHANGED todo

\* Mutant of NextSlot: the end of the list is missed.
MutantNextSlot(p) ==
    /\ todo' = [todo EXCEPT ![p] = Tail(@)]
    /\ pc' = [pc EXCEPT ![p] = "due"]

\* "return 0" of a slot function: the next slot, or the end of the script.
NextSlot(p) ==
    /\ todo' = [todo EXCEPT ![p] = Tail(@)]
    /\ pc' = [pc EXCEPT ![p] = IF Len(todo[p]) > 1 THEN "due" ELSE "idle"]

\* The slots that run_due_daily_refreshes goes through, in its order.
Plan == IF evening THEN <<"postmarket", "shortpick_lab">> ELSE <<SameDay>>

\* The script starts and reads the clock once.
Poll(p) ==
    /\ pc[p] = "idle"
    /\ todo' = [todo EXCEPT ![p] = Plan]
    /\ pc' = [pc EXCEPT ![p] = "due"]
    /\ UNCHANGED <<evening, lock, files, orphans, tick, troubles, raced>>

\* Mutant of LooksForOk: the .ok file is not looked for.
MutantLooksForOk(p) ==
    /\ pc[p] = "due"
    /\ GoTo(p, "throttle")
    /\ UNCHANGED <<evening, lock, files, orphans, tick, troubles, raced>>

\* slot_completed
LooksForOk(p) ==
    /\ pc[p] = "due"
    /\ IF Slot(p) \in ok THEN NextSlot(p) ELSE GoTo(p, "throttle")
    /\ UNCHANGED <<evening, lock, files, orphans, tick, troubles, raced>>

\* Mutant of LooksForAttempt: an attempt holds nobody back.
MutantLooksForAttempt(p) ==
    /\ pc[p] = "throttle"
    /\ GoTo(p, "network")
    /\ UNCHANGED <<evening, lock, files, orphans, tick, troubles, raced>>

\* slot_recently_attempted
LooksForAttempt(p) ==
    /\ pc[p] = "throttle"
    /\ IF attempted[Slot(p)] = "fresh" THEN NextSlot(p) ELSE GoTo(p, "network")
    /\ UNCHANGED <<evening, lock, files, orphans, tick, troubles, raced>>

\* network_available
Online(p) ==
    /\ pc[p] = "network"
    /\ GoTo(p, "lock")
    /\ UNCHANGED <<evening, lock, files, orphans, tick, troubles, raced>>

\* Without a network the slot is put off: mark_slot_deferred.
Offline(p) ==
    /\ pc[p] = "network"
    /\ troubles < MaxTroubles
    /\ troubles' = troubles + 1
    /\ deferred' = deferred \union {Slot(p)}
    /\ NextSlot(p)
    /\ UNCHANGED <<evening, lock, ok, attempted, orphans, tick, raced>>

---------------------------------------------------------------------------
(* acquire_run_lock *)

Raced(p) == raced' = (raced \/ \E q \in Proc \ {p} : pc[q] \in Acquiring)

\* Mutant of MakeLock: mkdir -p, which succeeds on a directory that is there.
MutantMakeLock(p) ==
    /\ pc[p] = "lock"
    /\ GoTo(p, "write")
    /\ lock' = IF lock = "absent" THEN "unowned" ELSE lock
    /\ Raced(p)
    /\ UNCHANGED <<evening, files, orphans, tick, troubles>>

\* The first mkdir.
MakeLock(p) ==
    /\ pc[p] = "lock"
    /\ IF lock = "absent"
       THEN lock' = "unowned" /\ GoTo(p, "write")
       ELSE UNCHANGED lock /\ GoTo(p, "read")
    /\ Raced(p)
    /\ UNCHANGED <<evening, files, orphans, tick, troubles>>

\* Mutant of WritePid: the pid file is left out.
MutantWritePid(p) ==
    /\ pc[p] = "write"
    /\ GoTo(p, "held")
    /\ UNCHANGED <<evening, lock, files, orphans, tick, troubles, raced>>

\* The pid is written into whatever directory is there now; should there be
\* none, the failing redirection goes unnoticed: the caller's "if !" turns
\* "set -e" off in acquire_run_lock.
WritePid(p) ==
    /\ pc[p] = "write"
    /\ lock' = IF lock = "absent" THEN lock ELSE p
    /\ GoTo(p, "held")
    /\ UNCHANGED <<evening, files, orphans, tick, troubles, raced>>

\* Mutant of ReadPid: a pid file is enough to stand back.
MutantReadPid(p) ==
    /\ pc[p] = "read"
    /\ IF lock \in Proc \union {"dead"} THEN NextSlot(p) ELSE GoTo(p, "remove")
    /\ UNCHANGED <<evening, lock, files, orphans, tick, troubles, raced>>

\* The pid read back: a live one ends the attempt; none, an empty one or that
\* of a dead process is taken over.
ReadPid(p) ==
    /\ pc[p] = "read"
    /\ IF lock \in Proc THEN NextSlot(p) ELSE GoTo(p, "remove")
    /\ UNCHANGED <<evening, lock, files, orphans, tick, troubles, raced>>

\* rm -rf
RemoveLock(p) ==
    /\ pc[p] = "remove"
    /\ lock' = "absent"
    /\ GoTo(p, "relock")
    /\ UNCHANGED <<evening, files, orphans, tick, troubles, raced>>

\* The second mkdir.
RemakeLock(p) ==
    /\ pc[p] = "relock"
    /\ IF lock = "absent"
       THEN lock' = "unowned" /\ GoTo(p, "write")
       ELSE UNCHANGED lock /\ NextSlot(p)
    /\ UNCHANGED <<evening, files, orphans, tick, troubles, raced>>

---------------------------------------------------------------------------
(* The job of a slot *)

\* mark_slot_attempted, write_run_context, whose mkdir -p puts back a lock
\* directory that is gone, the EXIT trap and the start of the job.
Begin(p) ==
    /\ pc[p] = "held"
    /\ attempted' = [attempted EXCEPT ![Slot(p)] = "fresh"]
    /\ lock' = IF lock = "absent" THEN "unowned" ELSE lock
    /\ GoTo(p, "running")
    /\ UNCHANGED <<evening, ok, deferred, orphans, tick, troubles, raced>>

\* The job exits with 0; mark_slot_completed writes the .ok file ...
JobSucceeds(p) ==
    /\ pc[p] = "running"
    /\ ok' = ok \union {Slot(p)}
    /\ GoTo(p, "clean")
    /\ UNCHANGED <<evening, lock, attempted, deferred, orphans, tick, troubles, raced>>

\* ... and removes the other marks.
RemoveMarks(p) ==
    /\ pc[p] = "clean"
    /\ attempted' = [attempted EXCEPT ![Slot(p)] = "none"]
    /\ deferred' = deferred \ {Slot(p)}
    /\ GoTo(p, "release")
    /\ UNCHANGED <<evening, lock, ok, orphans, tick, troubles, raced>>

Released(p) == IF lock = p THEN "absent" ELSE lock

\* release_run_lock: only the lock that carries the own pid.
Release(p) ==
    /\ pc[p] = "release"
    /\ lock' = Released(p)
    /\ NextSlot(p)
    /\ UNCHANGED <<evening, files, orphans, tick, troubles, raced>>

Stop(p) == pc' = [pc EXCEPT ![p] = "idle"] /\ todo' = [todo EXCEPT ![p] = <<>>]

\* Mutant of JobFails: the script exits without its EXIT trap.
MutantJobFails(p) ==
    /\ pc[p] = "running"
    /\ troubles < MaxTroubles
    /\ troubles' = troubles + 1
    /\ Stop(p)
    /\ UNCHANGED <<evening, lock, files, orphans, tick, raced>>

\* The job fails or is killed at its timeout: "set -e" ends the script, later
\* slots included, and the EXIT trap releases the lock.
JobFails(p) ==
    /\ pc[p] = "running"
    /\ troubles < MaxTroubles
    /\ troubles' = troubles + 1
    /\ Stop(p)
    /\ lock' = Released(p)
    /\ UNCHANGED <<evening, files, orphans, tick, raced>>

\* The script is killed.  SIGKILL leaves the lock behind, with the pid of a
\* dead process; a signal that bash handles runs the EXIT trap, where one is
\* set.  The job in the background may go on.
Killed(p) ==
    /\ Stop(p)
    /\ \/ lock' = IF lock = p THEN "dead" ELSE lock
       \/ pc[p] \in {"running", "clean", "release"} /\ lock' = Released(p)
    /\ \/ UNCHANGED orphans
       \/ pc[p] = "running" /\ orphans' = orphans \union {Slot(p)}

Crash(p) ==
    /\ pc[p] # "idle"
    /\ troubles < MaxTroubles
    /\ troubles' = troubles + 1
    /\ Killed(p)
    /\ UNCHANGED <<evening, files, tick, raced>>

---------------------------------------------------------------------------
(* Surroundings *)

OrphanEnds(s) ==
    /\ s \in orphans
    /\ orphans' = orphans \ {s}
    /\ UNCHANGED <<pc, todo, evening, lock, files, tick, troubles, raced>>

Evening ==
    /\ ~evening
    /\ evening' = TRUE
    /\ UNCHANGED <<pc, todo, lock, files, orphans, tick, troubles, raced>>

\* The job of a slot runs, in an invocation or abandoned.
Working(s) == s \in orphans \/ \E p \in Proc : pc[p] = "running" /\ Slot(p) = s

\* The retry interval of a slot passes.  That of the evening slots is longer
\* than their jobs take (run-scheduled-refresh.sh:57); the minute of the
\* same-day slot is not.
Expire(s) ==
    /\ attempted[s] = "fresh"
    /\ s = SameDay \/ ~Working(s)
    /\ attempted' = [attempted EXCEPT ![s] = "old"]
    /\ UNCHANGED <<pc, todo, evening, lock, ok, deferred, orphans, tick, troubles, raced>>

\* run_background_operations_tick, past scheduled_refresh_lock_active.
TickStarts ==
    /\ ~tick
    /\ lock \notin Proc
    /\ tick' = TRUE
    /\ UNCHANGED <<pc, todo, evening, lock, files, orphans, troubles, raced>>

TickEnds ==
    /\ tick
    /\ tick' = FALSE
    /\ UNCHANGED <<pc, todo, evening, lock, files, orphans, troubles, raced>>

\* What the script does by itself once started.
Proceed(p) ==
    \/ LooksForOk(p) \/ LooksForAttempt(p) \/ Online(p)
    \/ MakeLock(p) \/ WritePid(p) \/ ReadPid(p) \/ RemoveLock(p) \/ RemakeLock(p)
    \/ Begin(p) \/ JobSucceeds(p) \/ RemoveMarks(p) \/ Release(p)

Invocation(p) == Poll(p) \/ Proceed(p) \/ Offline(p) \/ JobFails(p) \/ Crash(p)

Next ==
    \/ \E p \in Proc : Invocation(p)
    \/ \E s \in Slots : OrphanEnds(s) \/ Expire(s)
    \/ Evening
    \/ TickStarts \/ TickEnds

Spec == Init /\ [][Next]_vars

---------------------------------------------------------------------------
(* Properties *)

TypeOK ==
    /\ pc \in [Proc -> {"idle", "due", "throttle", "network", "lock"} \union
                       Acquiring \union Holding]
    /\ todo \in [Proc -> Seq(Slots)]
    /\ evening \in BOOLEAN
    /\ lock \in Proc \union {"absent", "unowned", "dead"}
    /\ ok \in SUBSET Slots
    /\ attempted \in [Slots -> {"none", "fresh", "old"}]
    /\ deferred \in SUBSET Slots
    /\ orphans \in SUBSET Slots
    /\ tick \in BOOLEAN
    /\ troubles \in 0..MaxTroubles
    /\ raced \in BOOLEAN
    /\ \A p \in Proc : pc[p] = "idle" <=> todo[p] = <<>>

\* No way out of the script but its sudden death leaves the lock behind: a
\* live pid in run.lock is that of an invocation that holds it.
NoLeakedLock == lock \in Proc => pc[lock] \in Holding

\* Two invocations hold the run lock together only after both were inside
\* acquire_run_lock at one time: no crash, stale lock, failure or release
\* alone breaks the mutual exclusion.
OneRunnerUnlessRaced ==
    ~raced => \A p, q \in Proc :
        pc[p] \in Holding /\ pc[q] \in Holding => p = q

\* The API's background tick never starts while an invocation runs its job,
\* with the same exception.
TickAvoidsRefresh ==
    [][~tick /\ tick' /\ ~raced => \A p \in Proc : pc[p] # "running"]_vars

Begins(p) == pc[p] = "held" /\ pc'[p] = "running"

\* publish-local-runtime.sh:167: the ticks and the .ok guard trigger exactly
\* one refresh per trading day; an evening slot that is completed is not run
\* again.
OneRefreshPerDay ==
    [][\A p \in Proc : Begins(p) /\ Slot(p) \in EveningSlots
                           => Slot(p) \notin ok]_vars

\* An interrupted evening slot is not started again while the job that its
\* killed script left behind is still writing (run-scheduled-refresh.sh:57).
AttemptsNotStacked ==
    [][\A p \in Proc : Begins(p) /\ Slot(p) \in EveningSlots
                           => Slot(p) \notin orphans]_vars
================================================================================
