------------------------- MODULE PublishRelease_proofs -------------------------
(***************************************************************************)
(* Theorems about PublishRelease, for any number of publishes and of       *)
(* invocations of the refresh script, and any bound on the troubles.       *)
(***************************************************************************)
EXTENDS PublishRelease, ScheduledRefresh_proofs

\* What keeps the publishes apart until one of them is overdue: the directory
\* of whoever is inside is young, one publish at most takes a lock over, and
\* the lock it is about to remove is an old one.
Separated ==
    /\ \A u \in Publisher : place[u] \in Inside => publishLock = "fresh"
    /\ \A u, v \in Publisher : place[u] \in Inside /\ place[v] \in Inside => u = v
    /\ \A u, v \in Publisher : place[u] \in TakingOver /\ place[v] \in TakingOver => u = v
    /\ \A u \in Publisher : place[u] = "remove" => publishLock = "old"

\* The types of the publish script's state.
PublishPlaces == {"out", "age", "done"} \union TakingOver \union Inside

PublishStateOK ==
    /\ place \in [Publisher -> PublishPlaces]
    /\ publishLock \in {"absent", "fresh", "old"}
    /\ loaded \in BOOLEAN /\ disturbed \subseteq Publisher /\ overdue \in BOOLEAN

\* The inductive invariant of the publishes among themselves.
PublishInv == PublishStateOK /\ (~overdue => Separated)

---------------------------------------------------------------------------
(* The publish lock *)

LEMMA PublishInvInit == PublishInit => PublishInv
BY DEF PublishInit, PublishInv, PublishStateOK, PublishPlaces, Separated, Inside, TakingOver,
       Quiescing, Deploying

\* A step between two places inside, with the lock as it was.
Moves(u) ==
    \/ Pauses(u) \/ LooksAtLock(u) \/ LooksAtProcesses(u) \/ Wakes(u) \/ Deploys(u)
    \/ Exits(u) \/ BootsOut(u) \/ Bootstraps(u) \/ BootstrapFails(u)

LEMMA MovesInside ==
    ASSUME NEW u \in Publisher, PublishStateOK, Moves(u)
    PROVE  /\ place[u] \in Inside
           /\ \E there \in Inside : place' = [place EXCEPT ![u] = there]
           /\ publishLock' = publishLock /\ overdue' = overdue
           /\ loaded' \in BOOLEAN /\ disturbed' \subseteq Publisher
BY DEF Moves, At, Inside, Quiescing, Deploying, PublishStateOK, Pauses, LooksAtLock,
       LooksAtProcesses, Wakes, Deploys, Exits, BootsOut, Bootstraps, BootstrapFails

\* Nothing but the publishes and the age of their lock touches either.
Unlocked ==
    UNCHANGED allVars \/ (\E p \in Proc : Polls(p)) \/ RefreshGoesOn

LEMMA UnlockedKeeps ==
    ASSUME PublishStateOK, Unlocked
    PROVE  /\ place' = place /\ publishLock' = publishLock /\ overdue' = overdue
           /\ loaded' \in BOOLEAN /\ disturbed' \subseteq Publisher
BY DEF Unlocked, Polls, RefreshGoesOn, allVars, publishVars, PublishStateOK

LEMMA StepCases ==
    ASSUME [PublishNext]_allVars
    PROVE  \/ Unlocked \/ LockAges
           \/ \E u \in Publisher :
                 \/ Publishes(u) \/ ReadsAge(u) \/ RemovesPublishLock(u)
                 \/ RemakesPublishLock(u) \/ Moves(u) \/ Unlocks(u) \/ PublishDies(u)
BY DEF PublishNext, PublishProceeds, Moves, Unlocked

LEMMA PublishStateNext == PublishStateOK /\ [PublishNext]_allVars => PublishStateOK'
<1> SUFFICES ASSUME PublishStateOK, [PublishNext]_allVars PROVE PublishStateOK'
    OBVIOUS
<1> USE DEF PublishStateOK
<1>1. CASE Unlocked
    BY <1>1, UnlockedKeeps
<1>2. CASE LockAges
    BY <1>2 DEF LockAges
<1>3. ASSUME NEW u \in Publisher, Moves(u) PROVE PublishStateOK'
    BY <1>3, MovesInside DEF PublishPlaces
<1>4. ASSUME NEW u \in Publisher,
             \/ Publishes(u) \/ ReadsAge(u) \/ RemovesPublishLock(u)
             \/ RemakesPublishLock(u) \/ Unlocks(u) \/ PublishDies(u)
      PROVE  PublishStateOK'
    <2>1. \E there \in PublishPlaces : place' = [place EXCEPT ![u] = there]
        BY <1>4 DEF Publishes, ReadsAge, RemovesPublishLock, RemakesPublishLock, Unlocks,
               PublishDies, At, PublishPlaces, Inside, TakingOver
    <2>2. publishLock' \in {"absent", "fresh", "old"}
        BY <1>4 DEF Publishes, ReadsAge, RemovesPublishLock, RemakesPublishLock, Unlocks,
               PublishDies
    <2>3. loaded' \in BOOLEAN /\ disturbed' \subseteq Publisher
        BY <1>4 DEF Publishes, ReadsAge, RemovesPublishLock, RemakesPublishLock, Unlocks,
               PublishDies
    <2>4. overdue' \in BOOLEAN
        BY <1>4 DEF Publishes, ReadsAge, RemovesPublishLock, RemakesPublishLock, Unlocks,
               PublishDies
    <2> QED
        BY <2>1, <2>2, <2>3, <2>4
<1> QED
    BY <1>1, <1>2, <1>3, <1>4, StepCases

\* Every step that is not itself the overdue one keeps the publishes separate.
LEMMA SeparatedNext ==
    ASSUME PublishStateOK, ~overdue => Separated, [PublishNext]_allVars, ~overdue'
    PROVE  Separated'
<1> USE DEF At, Separated, PublishStateOK
<1>1. CASE Unlocked
    BY <1>1, UnlockedKeeps
<1>2. CASE LockAges
    BY <1>2 DEF LockAges, Inside
<1>3. ASSUME NEW u \in Publisher, Publishes(u) PROVE Separated'
    <2>1. CASE publishLock = "absent"
        BY <1>3, <2>1 DEF Publishes, Inside, Quiescing, Deploying, TakingOver
    <2>2. CASE publishLock # "absent"
        BY <1>3, <2>2 DEF Publishes, Inside, Quiescing, Deploying, TakingOver
    <2> QED
        BY <2>1, <2>2
<1>4. ASSUME NEW u \in Publisher, ReadsAge(u) PROVE Separated'
    <2>1. CASE publishLock = "old"
        BY <1>4, <2>1 DEF ReadsAge, Inside, Quiescing, Deploying, TakingOver
    <2>2. CASE publishLock # "old"
        BY <1>4, <2>2 DEF ReadsAge, Inside, Quiescing, Deploying, TakingOver
    <2> QED
        BY <2>1, <2>2
<1>5. ASSUME NEW u \in Publisher, RemovesPublishLock(u) PROVE Separated'
    BY <1>5 DEF RemovesPublishLock, Inside, Quiescing, Deploying, TakingOver
<1>6. ASSUME NEW u \in Publisher, RemakesPublishLock(u) PROVE Separated'
    <2>1. CASE publishLock = "absent"
        BY <1>6, <2>1 DEF RemakesPublishLock, Inside, Quiescing, Deploying, TakingOver
    <2>2. CASE publishLock # "absent"
        BY <1>6, <2>2 DEF RemakesPublishLock, Inside, Quiescing, Deploying, TakingOver
    <2> QED
        BY <2>1, <2>2
<1>7. ASSUME NEW u \in Publisher, Moves(u) PROVE Separated'
    <2>1. PICK there \in Inside : place' = [place EXCEPT ![u] = there]
        BY <1>7, MovesInside
    <2>2. place[u] \in Inside /\ publishLock' = publishLock /\ ~overdue
        BY <1>7, MovesInside
    <2>3. \A v \in Publisher : /\ place'[v] \in Inside <=> place[v] \in Inside
                               /\ v # u => place'[v] = place[v]
        BY <2>1, <2>2
    <2>4. place'[u] \notin TakingOver
        BY <2>1 DEF Inside, Quiescing, Deploying, TakingOver
    <2>5. \A v \in Publisher : /\ place'[v] \in TakingOver => place[v] \in TakingOver
                               /\ place'[v] = "remove" => place[v] = "remove"
        BY <2>3, <2>4 DEF TakingOver
    <2> QED
        BY <2>2, <2>3, <2>5
<1>8. ASSUME NEW u \in Publisher, Unlocks(u) PROVE Separated'
    BY <1>8 DEF Unlocks, Inside, Quiescing, Deploying, TakingOver
<1>9. ASSUME NEW u \in Publisher, PublishDies(u) PROVE Separated'
    BY <1>9 DEF PublishDies, Inside, Quiescing, Deploying, TakingOver
<1> QED
    BY <1>1, <1>2, <1>3, <1>4, <1>5, <1>6, <1>7, <1>8, <1>9, StepCases

LEMMA PublishInvNext == PublishInv /\ [PublishNext]_allVars => PublishInv'
BY PublishStateNext, SeparatedNext DEF PublishInv

LEMMA PublishInvariant == PublishSpec => []PublishInv
<1> QED
    BY PublishInvInit, PublishInvNext, PTL DEF PublishSpec

\* Two publishes are at work together only after one of them had been for 300 s,
\* or two were taking a lock over at one time.
THEOREM PublishesApart == PublishSpec => []PublishersExcluded
<1>1. PublishInv => PublishersExcluded
    BY DEF PublishInv, Separated, PublishersExcluded
<1> QED
    BY <1>1, PublishInvariant, PTL

---------------------------------------------------------------------------
(* The refresh under publishes *)

\* What a step of a publish does to the refresh: launchd's invocation is
\* killed, the backend is restarted, or one of the troubles is used up.
RefreshSteps ==
    \/ Next \/ UNCHANGED vars
    \/ LaunchdStops
    \/ /\ tick' = FALSE
       /\ UNCHANGED <<pc, todo, evening, lock, files, orphans, troubles, raced>>
    \/ /\ troubles < MaxTroubles /\ troubles' = troubles + 1
       /\ UNCHANGED <<pc, todo, evening, lock, files, orphans, tick, raced>>

LEMMA RefreshStepCases ==
    ASSUME [PublishNext]_allVars
    PROVE  RefreshSteps
<1>1. CASE UNCHANGED allVars
    BY <1>1 DEF allVars, RefreshSteps
<1>2. CASE (\E p \in Proc : Polls(p)) \/ RefreshGoesOn
    BY <1>2 DEF Polls, RefreshGoesOn, RefreshSteps, Next, Invocation
<1>3. CASE LockAges
    BY <1>3 DEF LockAges, RefreshSteps
<1>4. ASSUME NEW u \in Publisher,
             \/ Publishes(u) \/ ReadsAge(u) \/ RemovesPublishLock(u)
             \/ RemakesPublishLock(u) \/ Unlocks(u) \/ LooksAtLock(u) \/ LooksAtProcesses(u)
             \/ Wakes(u) \/ Exits(u) \/ Bootstraps(u)
      PROVE  UNCHANGED vars
    BY <1>4 DEF Publishes, ReadsAge, RemovesPublishLock, RemakesPublishLock, Unlocks,
           LooksAtLock, LooksAtProcesses, Wakes, Exits, Bootstraps
<1>5. ASSUME NEW u \in Publisher,
             Pauses(u) \/ BootsOut(u) \/ Deploys(u) \/ BootstrapFails(u) \/ PublishDies(u)
      PROVE  RefreshSteps
    BY <1>5 DEF Pauses, BootsOut, Deploys, BootstrapFails, PublishDies, RefreshSteps
<1> QED
    BY <1>1, <1>2, <1>3, <1>4, <1>5 DEF PublishNext, PublishProceeds, RefreshSteps

\* What the end of launchd's invocation leaves: its lock, dead, or none.
LEMMA LaunchdStopsLock ==
    ASSUME TypeOK, LaunchdStops
    PROVE  /\ \A q \in Proc \ {Launchd} : pc'[q] = pc[q]
           /\ raced' = raced
           /\ \/ pc' = pc /\ lock' = lock
              \/ /\ pc'[Launchd] = "idle"
                 /\ \/ lock' = lock /\ lock # Launchd
                    \/ lock = Launchd /\ lock' \in {"absent", "dead"}
<1> USE LaunchdAssumption
<1>1. CASE pc[Launchd] = "idle"
    BY <1>1 DEF LaunchdStops
<1>2. CASE pc[Launchd] # "idle"
    BY <1>2 DEF LaunchdStops, Killed, Stop, Released, TypeOK
<1> QED
    BY <1>1, <1>2

LEMMA PublishTypeNext == TypeOK /\ RefreshSteps => TypeOK'
<1> SUFFICES ASSUME TypeOK, RefreshSteps PROVE TypeOK'
    OBVIOUS
<1>1. CASE Next \/ UNCHANGED vars
    BY <1>1, TypeNext
<1>2. CASE LaunchdStops
    <2>1. CASE pc[Launchd] = "idle"
        BY <1>2, <2>1 DEF LaunchdStops, TypeOK, files
    <2>2. CASE pc[Launchd] # "idle"
        <3>1. PlacesOK
            BY DEF TypeOK, PlacesOK, Places
        <3>2. PlacesOK'
            BY <1>2, <2>2, <3>1, StopType, LaunchdAssumption DEF LaunchdStops, Killed
        <3>3. Slot(Launchd) \in Slots
            BY <2>2, <3>1, SlotType, LaunchdAssumption
        <3>4. lock' \in Proc \union {"absent", "unowned", "dead"} /\ orphans' \in SUBSET Slots
            BY <1>2, <2>2, <3>3 DEF LaunchdStops, Killed, Released, TypeOK
        <3>5. UNCHANGED <<evening, files, tick, troubles, raced>>
            BY <1>2 DEF LaunchdStops
        <3> QED
            BY <3>2, <3>4, <3>5 DEF TypeOK, PlacesOK, Places, files
    <2> QED
        BY <2>1, <2>2
<1>3. CASE /\ tick' = FALSE
           /\ UNCHANGED <<pc, todo, evening, lock, files, orphans, troubles, raced>>
    BY <1>3 DEF TypeOK, files
<1>4. CASE /\ troubles < MaxTroubles /\ troubles' = troubles + 1
           /\ UNCHANGED <<pc, todo, evening, lock, files, orphans, tick, raced>>
    <2>1. troubles' \in 0..MaxTroubles
        BY <1>4, RefreshAssumption DEF TypeOK
    <2> QED
        BY <1>4, <2>1 DEF TypeOK, files
<1> QED
    BY <1>1, <1>2, <1>3, <1>4 DEF RefreshSteps

LEMMA PublishLockNext == LockInv /\ RefreshSteps => LockInv'
<1> SUFFICES ASSUME LockInv, RefreshSteps PROVE LockInv'
    OBVIOUS
<1>1. TypeOK'
    BY PublishTypeNext DEF LockInv
<1>2. CASE Next \/ UNCHANGED vars
    BY <1>2, LockNext
<1>3. CASE UNCHANGED <<pc, lock, raced>>
    BY <1>1, <1>3 DEF LockInv, NoLeakedLock, Undisputed
<1>4. CASE LaunchdStops
    <2> USE RefreshAssumption, LaunchdAssumption DEF Acquiring, Holding
    <2>1. CASE pc' = pc /\ lock' = lock
        BY <1>3, <1>4, <2>1, LaunchdStopsLock DEF LockInv
    <2>2. CASE /\ pc'[Launchd] = "idle"
               /\ \/ lock' = lock /\ lock # Launchd
                  \/ lock = Launchd /\ lock' \in {"absent", "dead"}
        <3>1. /\ \A q \in Proc \ {Launchd} : pc'[q] = pc[q]
              /\ raced' = raced
            BY <1>4, LaunchdStopsLock DEF LockInv
        <3>2. NoLeakedLock'
            BY <2>2, <3>1 DEF LockInv, NoLeakedLock
        <3>3. Undisputed => Undisputed'
            BY <2>2, <3>1 DEF Undisputed
        <3> QED
            BY <1>1, <3>1, <3>2, <3>3 DEF LockInv
    <2> QED
        BY <1>4, <2>1, <2>2, LaunchdStopsLock DEF LockInv
<1> QED
    BY <1>2, <1>3, <1>4 DEF RefreshSteps

LEMMA PublishLockInvariant == PublishSpec => [](LockInv /\ PublishStateOK)
<1>1. PublishInit => LockInv /\ PublishStateOK
    BY LockInit, PublishInvInit DEF PublishInit, PublishInv
<1>2. LockInv /\ PublishStateOK /\ [PublishNext]_allVars => (LockInv /\ PublishStateOK)'
    BY RefreshStepCases, PublishLockNext, PublishStateNext
<1> QED
    BY <1>1, <1>2, PTL DEF PublishSpec

\* The refresh and the publish script stay well-formed together.
THEOREM PublishTypeCorrect == PublishSpec => []PublishTypeOK
<1>1. LockInv /\ PublishStateOK => PublishTypeOK
    BY DEF LockInv, PublishStateOK, PublishPlaces, PublishTypeOK
<1> QED
    BY <1>1, PublishLockInvariant, PTL

\* A publish kills the refresh in the midst of any step and unloads it, and
\* still leaves no live pid in run.lock nor lets a second invocation past it.
THEOREM RunLockOutlastsPublishes == PublishSpec => [](NoLeakedLock /\ OneRunnerUnlessRaced)
<1>1. LockInv => NoLeakedLock /\ OneRunnerUnlessRaced
    BY DEF LockInv, Undisputed, OneRunnerUnlessRaced
<1> QED
    BY <1>1, PublishLockInvariant, PTL

---------------------------------------------------------------------------
(* The quiescence wait *)

\* A refresh at rest stays so until it is polled.
LEMMA QuietStays ==
    ASSUME TypeOK, Quiet, RefreshGoesOn \/ LaunchdStops
    PROVE  Quiet'
<1> USE LaunchdAssumption DEF Quiet
<1>1. CASE LaunchdStops
    BY <1>1 DEF LaunchdStops
<1>2. ASSUME NEW p \in Proc, Proceed(p) \/ Offline(p) \/ JobFails(p) \/ Crash(p)
      PROVE  FALSE
    BY <1>2 DEF Proceed, Offline, JobFails, Crash, LooksForOk, LooksForAttempt, Online,
           MakeLock, WritePid, ReadPid, RemoveLock, RemakeLock, Begin, JobSucceeds,
           RemoveMarks, Release
<1>3. CASE \/ \E s \in Slots : OrphanEnds(s) \/ Expire(s)
           \/ Evening \/ TickStarts \/ TickEnds
    BY <1>3 DEF OrphanEnds, Expire, Evening, TickStarts, TickEnds
<1> QED
    BY <1>1, <1>2, <1>3 DEF RefreshGoesOn

\* The publishes that deploy without the script having been started meanwhile.
Undisturbed == {u \in Publisher \ disturbed : place[u] \in Deploying}

LEMMA AloneNext ==
    TypeOK /\ PublishStateOK /\ DeploysAloneUntilPolled /\ [PublishNext]_allVars
        => DeploysAloneUntilPolled'
<1> SUFFICES ASSUME TypeOK, PublishStateOK, DeploysAloneUntilPolled, [PublishNext]_allVars,
                    Undisturbed' # {}
             PROVE  Quiet'
    BY DEF DeploysAloneUntilPolled, Undisturbed
<1> USE DEF PublishStateOK, PublishPlaces, Undisturbed
<1>1. Undisturbed # {} => Quiet
    BY DEF DeploysAloneUntilPolled
<1>2. CASE UNCHANGED allVars
    BY <1>1, <1>2 DEF allVars, vars, publishVars, Quiet
<1>3. CASE \E p \in Proc : Polls(p)
    BY <1>3 DEF Polls
<1>4. CASE RefreshGoesOn
    BY <1>1, <1>4, QuietStays DEF RefreshGoesOn, publishVars
<1>5. CASE LockAges
    BY <1>1, <1>5 DEF LockAges, vars, Quiet
<1>6. ASSUME NEW u \in Publisher, LooksAtProcesses(u) PROVE Quiet'
    <2>1. UNCHANGED <<pc, orphans, disturbed>>
        BY <1>6 DEF LooksAtProcesses, vars
    <2>2. CASE Quiet
        BY <2>1, <2>2 DEF Quiet
    <2>3. CASE ~Quiet
        BY <1>1, <1>6, <2>1, <2>3 DEF LooksAtProcesses, At, Deploying
    <2> QED
        BY <2>2, <2>3
<1>7. ASSUME NEW u \in Publisher, Pauses(u) \/ BootsOut(u) PROVE Quiet'
    <2>1. Undisturbed' \subseteq Undisturbed
        BY <1>7 DEF Pauses, BootsOut, At, Deploying
    <2> QED
        BY <1>1, <1>7, <2>1, QuietStays DEF Pauses, BootsOut
<1>8. ASSUME NEW u \in Publisher,
             \/ Publishes(u) \/ ReadsAge(u) \/ RemovesPublishLock(u) \/ RemakesPublishLock(u)
             \/ LooksAtLock(u) \/ Wakes(u) \/ Deploys(u) \/ Exits(u) \/ Bootstraps(u)
             \/ BootstrapFails(u) \/ Unlocks(u) \/ PublishDies(u)
      PROVE  Quiet'
    <2>1. UNCHANGED <<pc, orphans>>
        BY <1>8 DEF Publishes, ReadsAge, RemovesPublishLock, RemakesPublishLock, LooksAtLock,
               Wakes, Deploys, Exits, Bootstraps, BootstrapFails, Unlocks, PublishDies, vars
    <2>2. \E there \in PublishPlaces :
             /\ place' = [place EXCEPT ![u] = there]
             /\ there \in Deploying => place[u] \in Deploying
        BY <1>8 DEF Publishes, ReadsAge, RemovesPublishLock, RemakesPublishLock, LooksAtLock,
               Wakes, Deploys, Exits, Bootstraps, BootstrapFails, Unlocks, PublishDies,
               At, Deploying, Inside, Quiescing, TakingOver
    <2>3. disturbed' = disturbed \/ (disturbed' = disturbed \ {u} /\ place'[u] \notin Deploying)
        BY <1>8 DEF Publishes, ReadsAge, RemovesPublishLock, RemakesPublishLock, LooksAtLock,
               Wakes, Deploys, Exits, Bootstraps, BootstrapFails, Unlocks, PublishDies,
               At, Deploying, Inside, Quiescing, TakingOver
    <2>4. Undisturbed' \subseteq Undisturbed
        BY <2>2, <2>3
    <2> QED
        BY <1>1, <2>1, <2>4 DEF Quiet
<1> QED
    BY <1>2, <1>3, <1>4, <1>5, <1>6, <1>7, <1>8 DEF PublishNext, PublishProceeds

\* While a publish deploys nothing of the refresh works, whatever was killed or
\* left behind before, unless launchd or a user has started the script again.
THEOREM DeploysAlone == PublishSpec => []DeploysAloneUntilPolled
<1>1. PublishInit => DeploysAloneUntilPolled
    BY DEF PublishInit, DeploysAloneUntilPolled, Deploying
<1>2. LockInv /\ PublishStateOK /\ DeploysAloneUntilPolled /\ [PublishNext]_allVars
          => DeploysAloneUntilPolled'
    BY AloneNext DEF LockInv
<1> QED
    BY <1>1, <1>2, PublishLockInvariant, PTL DEF PublishSpec

---------------------------------------------------------------------------
(* The evening slots under publishes *)

\* A publish ends the script in the midst of any step, with its job or without.
LEMMA PublishMarkedNext == Lone /\ TypeOK /\ Marked /\ RefreshSteps => Marked'
<1> SUFFICES ASSUME Lone, TypeOK, Marked, RefreshSteps PROVE Marked'
    OBVIOUS
<1>1. CASE Next \/ UNCHANGED vars
    BY <1>1, MarkedNext
<1>2. CASE UNCHANGED <<pc, todo, files, orphans>>
    BY <1>2 DEF Marked, Slot, files
<1>3. CASE LaunchdStops
    <2>1. CASE pc[Launchd] = "idle"
        BY <1>2, <1>3, <2>1 DEF LaunchdStops, files
    <2>2. CASE pc[Launchd] # "idle"
        BY <1>3, <2>2, MarkedKilled, LaunchdAssumption DEF LaunchdStops
    <2> QED
        BY <2>1, <2>2
<1> QED
    BY <1>1, <1>2, <1>3 DEF RefreshSteps, files

\* publish-local-runtime.sh:167 holds under publishes too: whatever they kill,
\* each evening slot is run once to its end, and never beside the job of an
\* attempt that a publish has ended, as long as no one but launchd starts it.
THEOREM OncePerDayUnderPublishes ==
    Lone => (PublishSpec => OneRefreshPerDay /\ AttemptsNotStacked)
<1> SUFFICES ASSUME Lone PROVE PublishSpec => OneRefreshPerDay /\ AttemptsNotStacked
    OBVIOUS
<1>1. PublishInit => TypeOK /\ Marked
    BY TypeInit, MarkedInit DEF PublishInit
<1>2. TypeOK /\ Marked /\ [PublishNext]_allVars => (TypeOK /\ Marked)'
    BY RefreshStepCases, PublishTypeNext, PublishMarkedNext
<1>3. Marked => \A p \in Proc : Begins(p) /\ Slot(p) \in EveningSlots
                                    => Slot(p) \notin ok /\ Slot(p) \notin orphans
    BY BeginsUnmarked
<1>4. PublishSpec => [](TypeOK /\ Marked)
    BY <1>1, <1>2, PTL DEF PublishSpec
<1>5. Marked => [\A p \in Proc : Begins(p) /\ Slot(p) \in EveningSlots => Slot(p) \notin ok]_vars
    BY <1>3
<1>6. Marked => [\A p \in Proc : Begins(p) /\ Slot(p) \in EveningSlots => Slot(p) \notin orphans]_vars
    BY <1>3
<1> QED
    BY <1>4, <1>5, <1>6, PTL DEF OneRefreshPerDay, AttemptsNotStacked
=================================================================================
