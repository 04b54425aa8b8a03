------------------------ MODULE ScheduledRefresh_proofs ------------------------
(***************************************************************************)
(* Theorems about ScheduledRefresh, for any number of invocations and any  *)
(* bound on the troubles.                                                  *)
(***************************************************************************)
EXTENDS ScheduledRefresh, SequenceTheorems, TLAPS

\* As long as no two invocations were in acquire_run_lock together: one at
\* most is in it now, every holder finds its own pid in the lock, the one that
\* has just made the directory finds it without a pid, and the one that is
\* about to take it over finds no live pid.
Undisputed ==
    /\ \A p, q \in Proc : pc[p] \in Acquiring /\ pc[q] \in Acquiring => p = q
    /\ \A p \in Proc : pc[p] \in Holding => lock = p
    /\ \A p \in Proc : pc[p] = "write" => lock = "unowned"
    /\ \A p \in Proc : pc[p] \in {"remove", "relock"} => lock \notin Proc

\* The inductive invariant.
LockInv == TypeOK /\ NoLeakedLock /\ (~raced => Undisputed)

---------------------------------------------------------------------------
(* Types *)

Places == {"idle", "due", "throttle", "network", "lock"} \union Acquiring \union Holding

\* The conjuncts of TypeOK on the program counters and the slots left.
PlacesOK ==
    /\ pc \in [Proc -> Places]
    /\ todo \in [Proc -> Seq(Slots)]
    /\ \A p \in Proc : pc[p] = "idle" <=> todo[p] = <<>>

\* An invocation that runs has a slot at hand.
LEMMA SlotType ==
    ASSUME PlacesOK, NEW p \in Proc, pc[p] # "idle"
    PROVE  todo[p] \in Seq(Slots) /\ todo[p] # <<>> /\ Slot(p) \in Slots
<1>1. todo[p] \in Seq(Slots) /\ todo[p] # <<>>
    BY DEF PlacesOK
<1>2. Head(todo[p]) \in Slots
    BY <1>1
<1> QED
    BY <1>1, <1>2 DEF Slot

\* The three ways an invocation moves keep the program counters well-formed.
LEMMA GoToType ==
    ASSUME PlacesOK, NEW p \in Proc, pc[p] # "idle",
           NEW place \in Places \ {"idle"}, GoTo(p, place)
    PROVE  PlacesOK'
BY DEF PlacesOK, GoTo

LEMMA NextSlotType ==
    ASSUME PlacesOK, NEW p \in Proc, pc[p] # "idle", NextSlot(p)
    PROVE  PlacesOK'
<1>1. todo[p] \in Seq(Slots) /\ todo[p] # <<>>
    BY SlotType
<1> DEFINE rest == Tail(todo[p])
<1>2. /\ rest \in Seq(Slots) /\ Len(rest) = Len(todo[p]) - 1
      /\ Len(todo[p]) \in Nat
    BY <1>1
<1>3. Len(todo[p]) > 1 <=> rest # <<>>
    <2>1. rest = <<>> <=> Len(rest) = 0
        BY <1>2, EmptySeq
    <2> QED
        BY <1>2, <2>1
<1> HIDE DEF rest
<1>4. /\ pc' = [pc EXCEPT ![p] = IF rest # <<>> THEN "due" ELSE "idle"]
      /\ todo' = [todo EXCEPT ![p] = rest]
    BY <1>3 DEF NextSlot, rest
<1> QED
    BY <1>2, <1>4 DEF PlacesOK, Places

LEMMA StopType ==
    ASSUME PlacesOK, NEW p \in Proc, Stop(p)
    PROVE  PlacesOK'
<1>1. <<>> \in Seq(Slots)
    OBVIOUS
<1> QED
    BY <1>1 DEF PlacesOK, Stop, Places

LEMMA PollType ==
    ASSUME PlacesOK, NEW p \in Proc, Poll(p)
    PROVE  PlacesOK'
<1>1. "postmarket" \in Slots /\ "shortpick_lab" \in Slots /\ SameDay \in Slots
    BY DEF Slots, EveningSlots
<1>2. ASSUME NEW s \in Slots, NEW t \in Slots
      PROVE  <<s, t>> \in Seq(Slots) /\ <<s, t>> # <<>> /\ <<s>> \in Seq(Slots) /\ <<s>> # <<>>
    OBVIOUS
<1>3. Plan \in Seq(Slots) /\ Plan # <<>>
    BY <1>1, <1>2 DEF Plan
<1> QED
    BY <1>3 DEF PlacesOK, Poll, Places

\* Every step keeps the program counters well-formed.
LEMMA PlacesNext == PlacesOK /\ [Next]_vars => PlacesOK'
<1> SUFFICES ASSUME PlacesOK, [Next]_vars PROVE PlacesOK'
    OBVIOUS
<1>1. CASE UNCHANGED <<pc, todo>>
    BY <1>1 DEF PlacesOK
<1>2. ASSUME NEW p \in Proc, Proceed(p) PROVE PlacesOK'
    <2>1. pc[p] # "idle"
        BY <1>2 DEF Proceed, LooksForOk, LooksForAttempt, Online, MakeLock, WritePid,
               ReadPid, RemoveLock, RemakeLock, Begin, JobSucceeds, RemoveMarks, Release
    <2>2. CASE NextSlot(p)
        BY <2>1, <2>2, NextSlotType
    <2>3. CASE \E place \in Places \ {"idle"} : GoTo(p, place)
        BY <2>1, <2>3, GoToType
    <2>4. NextSlot(p) \/ \E place \in Places \ {"idle"} : GoTo(p, place)
        BY <1>2 DEF Proceed, LooksForOk, LooksForAttempt, Online, MakeLock, WritePid,
               ReadPid, RemoveLock, RemakeLock, Begin, JobSucceeds, RemoveMarks, Release,
               Places, Acquiring, Holding
    <2> QED
        BY <2>2, <2>3, <2>4
<1>3. ASSUME NEW p \in Proc, Poll(p) PROVE PlacesOK'
    BY <1>3, PollType
<1>4. ASSUME NEW p \in Proc, Offline(p) PROVE PlacesOK'
    BY <1>4, NextSlotType DEF Offline
<1>5. ASSUME NEW p \in Proc, JobFails(p) \/ Crash(p) PROVE PlacesOK'
    BY <1>5, StopType DEF JobFails, Crash, Killed
<1> QED
    BY <1>1, <1>2, <1>3, <1>4, <1>5
       DEF Next, Invocation, OrphanEnds, Expire, Evening, TickStarts, TickEnds, vars

\* Each invocation's state, the lock, the marks of the slots and the counters
\* stay within their types.
LEMMA TypeNext == TypeOK /\ [Next]_vars => TypeOK'
<1> SUFFICES ASSUME TypeOK, [Next]_vars PROVE TypeOK'
    OBVIOUS
<1> USE RefreshAssumption
<1>1. PlacesOK /\ PlacesOK'
    BY PlacesNext DEF TypeOK, PlacesOK, Places
<1>2. CASE UNCHANGED vars
    BY <1>2 DEF TypeOK, vars
<1>3. ASSUME NEW p \in Proc, Invocation(p) PROVE TypeOK'
    <2>1. pc[p] # "idle" => Slot(p) \in Slots
        BY <1>1, SlotType
    <2>2. evening' \in BOOLEAN /\ tick' \in BOOLEAN /\ raced' \in BOOLEAN
        BY <1>3 DEF TypeOK, Invocation, Proceed, Poll, Offline, JobFails, Crash, Killed,
               LooksForOk, LooksForAttempt, Online, MakeLock, WritePid, ReadPid,
               RemoveLock, RemakeLock, Begin, JobSucceeds, RemoveMarks, Release, Raced
    <2>3. lock' \in Proc \union {"absent", "unowned", "dead"}
        BY <1>3 DEF TypeOK, Invocation, Proceed, Poll, Offline, JobFails, Crash, Killed,
               LooksForOk, LooksForAttempt, Online, MakeLock, WritePid, ReadPid,
               RemoveLock, RemakeLock, Begin, JobSucceeds, RemoveMarks, Release, Released
    <2>4. /\ ok' \in SUBSET Slots /\ deferred' \in SUBSET Slots
          /\ orphans' \in SUBSET Slots
          /\ attempted' \in [Slots -> {"none", "fresh", "old"}]
        BY <1>3, <2>1 DEF TypeOK, files, Invocation, Proceed, Poll, Offline, JobFails, Crash, Killed,
               LooksForOk, LooksForAttempt, Online, MakeLock, WritePid, ReadPid,
               RemoveLock, RemakeLock, Begin, JobSucceeds, RemoveMarks, Release
    <2>5. troubles' \in 0..MaxTroubles
        BY <1>3 DEF TypeOK, Invocation, Proceed, Poll, Offline, JobFails, Crash, Killed,
               LooksForOk, LooksForAttempt, Online, MakeLock, WritePid, ReadPid,
               RemoveLock, RemakeLock, Begin, JobSucceeds, RemoveMarks, Release
    <2> QED
        BY <1>1, <2>2, <2>3, <2>4, <2>5 DEF TypeOK, PlacesOK, Places
<1>4. CASE \/ \E s \in Slots : OrphanEnds(s) \/ Expire(s)
          \/ Evening \/ TickStarts \/ TickEnds
    BY <1>4 DEF TypeOK, files, OrphanEnds, Expire, Evening, TickStarts, TickEnds
<1> QED
    BY <1>2, <1>3, <1>4 DEF Next

LEMMA TypeInit == Init => TypeOK
<1> SUFFICES ASSUME Init PROVE TypeOK
    OBVIOUS
<1>1. <<>> \in Seq(Slots)
    OBVIOUS
<1>2. PlacesOK
    BY <1>1 DEF Init, PlacesOK, Places
<1>3. attempted \in [Slots -> {"none", "fresh", "old"}] /\ troubles \in 0..MaxTroubles
    BY RefreshAssumption DEF Init
<1> QED
    BY <1>2, <1>3 DEF Init, TypeOK, PlacesOK, Places

\* The state of every invocation, the lock and the marks of the slots are
\* well-formed after any interleaving of scripts, crashes and the API's tick.
THEOREM TypeCorrect == Spec => []TypeOK
<1>1. Init => TypeOK
    BY TypeInit
<1>2. TypeOK /\ [Next]_vars => TypeOK'
    BY TypeNext
<1> QED
    BY <1>1, <1>2, PTL DEF Spec

---------------------------------------------------------------------------
(* The lock *)

\* What a step of an invocation does to its place and to the lock: the moves
\* that matter to the invariant, one disjunct each.
LEMMA LockMoves ==
    ASSUME TypeOK, NEW p \in Proc, Invocation(p)
    PROVE  /\ \A q \in Proc \ {p} : pc'[q] = pc[q]
           /\ \/ /\ pc[p] \notin Acquiring \union Holding
                 /\ pc'[p] \notin Acquiring \union Holding
                 /\ lock' = lock /\ raced' = raced
              \/ MakeLock(p) /\ pc'[p] = IF lock = "absent" THEN "write" ELSE "read"
              \/ /\ pc[p] = "write" /\ pc'[p] = "held" /\ raced' = raced
                 /\ lock' = IF lock = "absent" THEN lock ELSE p
              \/ /\ pc[p] = "read" /\ lock' = lock /\ raced' = raced
                 /\ IF lock \in Proc THEN pc'[p] \in {"idle", "due"} ELSE pc'[p] = "remove"
              \/ /\ pc[p] = "remove" /\ pc'[p] = "relock" /\ raced' = raced
                 /\ lock' = "absent"
              \/ /\ pc[p] = "relock" /\ raced' = raced
                 /\ IF lock = "absent" THEN lock' = "unowned" /\ pc'[p] = "write"
                    ELSE lock' = lock /\ pc'[p] \in {"idle", "due"}
              \/ /\ pc[p] \in Holding /\ pc'[p] \in Holding /\ raced' = raced
                 /\ lock' = lock \/ (lock = "absent" /\ lock' = "unowned")
              \/ /\ pc'[p] \in {"idle", "due"} /\ raced' = raced
                 /\ \/ lock' = lock /\ lock # p
                    \/ lock = p /\ lock' \in {"absent", "dead"}
<1> USE DEF Acquiring, Holding, TypeOK
<1>1. CASE Poll(p)
    BY <1>1 DEF Poll
<1>2. CASE LooksForOk(p) \/ LooksForAttempt(p) \/ Online(p) \/ Offline(p)
    BY <1>2 DEF LooksForOk, LooksForAttempt, Online, Offline, GoTo, NextSlot
<1>3. CASE MakeLock(p)
    BY <1>3 DEF MakeLock, GoTo
<1>4. CASE WritePid(p)
    BY <1>4 DEF WritePid, GoTo
<1>5. CASE ReadPid(p)
    BY <1>5 DEF ReadPid, GoTo, NextSlot
<1>6. CASE RemoveLock(p)
    BY <1>6 DEF RemoveLock, GoTo
<1>7. CASE RemakeLock(p)
    BY <1>7 DEF RemakeLock, GoTo, NextSlot
<1>8. CASE Begin(p)
    BY <1>8 DEF Begin, GoTo
<1>9. CASE JobSucceeds(p) \/ RemoveMarks(p)
    BY <1>9 DEF JobSucceeds, RemoveMarks, GoTo
<1>10. CASE Release(p)
    BY <1>10 DEF Release, Released, NextSlot
<1>11. CASE JobFails(p) \/ Crash(p)
    BY <1>11 DEF JobFails, Crash, Killed, Stop, Released
<1> QED
    BY <1>1, <1>2, <1>3, <1>4, <1>5, <1>6, <1>7, <1>8, <1>9, <1>10, <1>11
       DEF Invocation, Proceed

LEMMA LockInit == Init => LockInv
BY TypeInit, RefreshAssumption
   DEF Init, LockInv, NoLeakedLock, Undisputed, Acquiring, Holding

\* A pid in the lock stays that of a holder: it is written on becoming one, and
\* a holder that leaves takes it away or, when killed, turns it into a dead one.
LEMMA NoLeakedLockNext ==
    ASSUME TypeOK, NoLeakedLock, NEW p \in Proc, Invocation(p)
    PROVE  NoLeakedLock'
BY LockMoves, RefreshAssumption DEF NoLeakedLock, MakeLock, Acquiring, Holding

\* Undisputed survives every step that does not itself make a dispute.
LEMMA UndisputedNext ==
    ASSUME TypeOK, NoLeakedLock, ~raced => Undisputed, NEW p \in Proc, Invocation(p), ~raced'
    PROVE  Undisputed'
<1> USE RefreshAssumption DEF Acquiring, Holding
<1>1. ~raced /\ Undisputed
    BY LockMoves DEF MakeLock, Raced, TypeOK
<1>2. \A q \in Proc \ {p} : pc'[q] = pc[q]
    BY LockMoves
<1>3. CASE /\ pc[p] \notin Acquiring \union Holding
           /\ pc'[p] \notin Acquiring \union Holding
           /\ lock' = lock
    BY <1>1, <1>2, <1>3 DEF Undisputed
<1>4. CASE MakeLock(p) /\ pc'[p] = IF lock = "absent" THEN "write" ELSE "read"
    <2>1. \A q \in Proc \ {p} : pc[q] \notin Acquiring
        BY <1>4 DEF MakeLock, Raced, TypeOK
    <2>2. CASE lock = "absent"
        BY <1>1, <1>2, <1>4, <2>1, <2>2 DEF MakeLock, Undisputed
    <2>3. CASE lock # "absent"
        BY <1>1, <1>2, <1>4, <2>1, <2>3 DEF MakeLock, Undisputed
    <2> QED
        BY <2>2, <2>3
<1>5. CASE pc[p] = "write" /\ pc'[p] = "held" /\ lock' = IF lock = "absent" THEN lock ELSE p
    <2>1. lock = "unowned" /\ lock' = p
        BY <1>1, <1>5 DEF Undisputed
    <2>2. \A q \in Proc \ {p} : pc[q] \notin Acquiring /\ pc[q] \notin Holding
        BY <1>1, <1>5, <2>1 DEF Undisputed
    <2> QED
        BY <1>2, <1>5, <2>1, <2>2 DEF Undisputed
<1>6. CASE /\ pc[p] = "read" /\ lock' = lock
           /\ IF lock \in Proc THEN pc'[p] \in {"idle", "due"} ELSE pc'[p] = "remove"
    BY <1>1, <1>2, <1>6 DEF Undisputed
<1>7. CASE pc[p] = "remove" /\ pc'[p] = "relock" /\ lock' = "absent"
    BY <1>1, <1>2, <1>7 DEF Undisputed
<1>8. CASE /\ pc[p] = "relock"
           /\ IF lock = "absent" THEN lock' = "unowned" /\ pc'[p] = "write"
              ELSE lock' = lock /\ pc'[p] \in {"idle", "due"}
    BY <1>1, <1>2, <1>8 DEF Undisputed
<1>9. CASE /\ pc[p] \in Holding /\ pc'[p] \in Holding
           /\ lock' = lock \/ (lock = "absent" /\ lock' = "unowned")
    BY <1>1, <1>2, <1>9 DEF Undisputed
<1>10. CASE /\ pc'[p] \in {"idle", "due"}
            /\ \/ lock' = lock /\ lock # p
               \/ lock = p /\ lock' \in {"absent", "dead"}
    <2>1. CASE lock' = lock
        BY <1>1, <1>2, <1>10, <2>1 DEF Undisputed
    <2>2. CASE lock = p /\ lock' \in {"absent", "dead"}
        BY <1>1, <1>2, <1>10, <2>2 DEF Undisputed
    <2> QED
        BY <1>10, <2>1, <2>2
<1> QED
    BY LockMoves, <1>3, <1>4, <1>5, <1>6, <1>7, <1>8, <1>9, <1>10

LEMMA LockNext == LockInv /\ [Next]_vars => LockInv'
<1> SUFFICES ASSUME LockInv, [Next]_vars PROVE LockInv'
    OBVIOUS
<1>1. TypeOK'
    BY TypeNext DEF LockInv
<1>2. CASE UNCHANGED <<pc, lock, raced>>
    BY <1>1, <1>2 DEF LockInv, NoLeakedLock, Undisputed
<1>3. ASSUME NEW p \in Proc, Invocation(p) PROVE LockInv'
    BY <1>1, <1>3, NoLeakedLockNext, UndisputedNext DEF LockInv
<1> QED
    BY <1>2, <1>3 DEF Next, OrphanEnds, Expire, Evening, TickStarts, TickEnds, vars

LEMMA LockInvariant == Spec => []LockInv
<1>1. Init => LockInv
    BY LockInit
<1>2. LockInv /\ [Next]_vars => LockInv'
    BY LockNext
<1> QED
    BY <1>1, <1>2, PTL DEF Spec

\* A live pid in run.lock is that of an invocation that holds the lock: it is
\* never left behind by a script that ended in good order.
THEOREM LockNeverLeaks == Spec => []NoLeakedLock
<1>1. LockInv => NoLeakedLock
    BY DEF LockInv
<1> QED
    BY <1>1, LockInvariant, PTL

\* acquire_run_lock keeps any number of invocations apart, through crashes and
\* takeovers, as long as no two of them are inside it at one time.
THEOREM MutualExclusion == Spec => []OneRunnerUnlessRaced
<1>1. LockInv => OneRunnerUnlessRaced
    BY DEF LockInv, Undisputed, OneRunnerUnlessRaced
<1> QED
    BY <1>1, LockInvariant, PTL

\* With the same exception, the API's background tick never starts while an
\* invocation runs its job: the pid it looks for is there.
THEOREM TickStandsBack == Spec => TickAvoidsRefresh
<1>1. LockInv /\ [Next]_vars =>
          [~tick /\ tick' /\ ~raced => \A p \in Proc : pc[p] # "running"]_vars
    <2> SUFFICES ASSUME LockInv, [Next]_vars, ~tick, tick', ~raced,
                        NEW p \in Proc, pc[p] = "running"
                 PROVE  FALSE
        OBVIOUS
    <2>1. lock = p
        BY DEF LockInv, Undisputed, Holding
    <2>2. TickStarts
        BY DEF LockInv, TypeOK, Next, Invocation, Proceed, Poll, Offline, JobFails, Crash, Killed,
               LooksForOk, LooksForAttempt, Online, MakeLock, WritePid, ReadPid,
               RemoveLock, RemakeLock, Begin, JobSucceeds, RemoveMarks, Release,
               OrphanEnds, Expire, Evening, TickEnds, vars
    <2> QED
        BY <2>1, <2>2 DEF TickStarts
<1> QED
    BY <1>1, LockInvariant, PTL DEF Spec, TickAvoidsRefresh

---------------------------------------------------------------------------
(* The marks of the evening slots *)

\* One invocation at a time: the script is started by launchd alone, which
\* does not start it again while it runs.
Lone == \A p, q \in Proc : p = q

\* After LooksForOk has let the slot pass, and after LooksForAttempt has.
Due == {"throttle", "network", "lock", "held", "running"} \union Acquiring
Cleared == (Due \ {"throttle"}) \union {"clean"}

\* The inductive invariant of a lone invocation: the slot it goes on with has
\* no .ok file and no abandoned job; an evening slot whose job runs, in the
\* script or abandoned, has a fresh .attempted file.
Marked ==
    /\ \A p \in Proc : pc[p] \in Due /\ Slot(p) \in EveningSlots => Slot(p) \notin ok
    /\ \A p \in Proc : pc[p] \in Cleared /\ Slot(p) \in EveningSlots => Slot(p) \notin orphans
    /\ \A p \in Proc : pc[p] = "running" /\ Slot(p) \in EveningSlots
                           => attempted[Slot(p)] = "fresh"
    /\ \A s \in EveningSlots \cap orphans : attempted[s] = "fresh"

LEMMA MarkedInit == Init => Marked
BY DEF Init, Marked, Due, Cleared, Acquiring

\* The death of the script abandons its job under a fresh mark.
LEMMA MarkedKilled ==
    ASSUME Lone, TypeOK, Marked, NEW p \in Proc, Killed(p), UNCHANGED files
    PROVE  Marked'
<1>1. \A q \in Proc : pc'[q] = "idle"
    BY DEF Killed, Stop, TypeOK, Lone
<1>2. \A s \in EveningSlots \cap orphans' : attempted'[s] = "fresh"
    BY DEF Killed, Marked, files
<1> QED
    BY <1>1, <1>2 DEF Marked, Due, Cleared, Acquiring

\* The invocation goes on to another slot, or ends.
LEMMA MarkedNextSlot ==
    ASSUME Lone, TypeOK, Marked, NEW p \in Proc, NextSlot(p), UNCHANGED <<attempted, orphans>>
    PROVE  Marked'
<1>1. \A q \in Proc : pc'[q] \in {"due", "idle"}
    BY DEF NextSlot, TypeOK, Lone
<1> QED
    BY <1>1 DEF Marked, Due, Cleared, Acquiring

\* Every step of the script's own.
LEMMA MarkedProceeds ==
    ASSUME Lone, TypeOK, Marked, NEW p \in Proc, Invocation(p)
    PROVE  Marked'
<1> USE DEF Due, Cleared, Acquiring
<1>0. \A q \in Proc : q = p
    BY DEF Lone
<1>1. CASE Poll(p)
    <2>1. pc'[p] = "due" /\ UNCHANGED <<orphans, attempted>>
        BY <1>1 DEF Poll, files, TypeOK
    <2> QED
        BY <1>0, <2>1 DEF Marked
<1>2. CASE NextSlot(p) /\ UNCHANGED <<attempted, orphans>>
    BY <1>2, MarkedNextSlot
<1>3. ASSUME NEW there, GoTo(p, there), UNCHANGED <<ok, attempted, orphans>>,
             there \in Due => pc[p] \in Due \/ Slot(p) \notin ok,
             there \in Cleared => pc[p] \in Cleared \/ attempted[Slot(p)] # "fresh",
             there # "running"
      PROVE  Marked'
    <2>1. pc'[p] = there /\ Slot(p)' = Slot(p)
        BY <1>3 DEF GoTo, Slot, TypeOK
    <2> QED
        BY <1>0, <1>3, <2>1 DEF Marked
<1>4. CASE LooksForOk(p)
    <2>1. CASE Slot(p) \in ok
        BY <1>2, <1>4, <2>1 DEF LooksForOk, files
    <2>2. CASE Slot(p) \notin ok
        BY <1>3, <1>4, <2>2 DEF LooksForOk, files
    <2> QED
        BY <2>1, <2>2
<1>5. CASE LooksForAttempt(p)
    <2>1. CASE attempted[Slot(p)] = "fresh"
        BY <1>2, <1>5, <2>1 DEF LooksForAttempt, files
    <2>2. CASE attempted[Slot(p)] # "fresh"
        BY <1>3, <1>5, <2>2 DEF LooksForAttempt, files
    <2> QED
        BY <2>1, <2>2
<1>6. CASE Online(p) \/ MakeLock(p) \/ WritePid(p) \/ RemoveLock(p)
    BY <1>3, <1>6 DEF Online, MakeLock, WritePid, RemoveLock, files
<1>7. CASE ReadPid(p) \/ RemakeLock(p)
    BY <1>2, <1>3, <1>7 DEF ReadPid, RemakeLock, files
<1>8. CASE Offline(p) \/ Release(p)
    BY <1>2, <1>8 DEF Offline, Release, files
<1>9. CASE Begin(p)
    <2>1. /\ pc'[p] = "running" /\ pc[p] = "held" /\ Slot(p)' = Slot(p)
          /\ UNCHANGED <<ok, orphans>>
        BY <1>9 DEF Begin, GoTo, Slot, TypeOK
    <2>2. Slot(p) \in Slots
        BY <2>1, SlotType DEF TypeOK, PlacesOK, Places
    <2>3. attempted' = [attempted EXCEPT ![Slot(p)] = "fresh"]
        BY <1>9 DEF Begin
    <2>4. \A s \in Slots : attempted'[s] = IF s = Slot(p) THEN "fresh" ELSE attempted[s]
        BY <2>2, <2>3 DEF TypeOK
    <2> QED
        BY <1>0, <2>1, <2>2, <2>4 DEF Marked, Slots
<1>10. CASE JobSucceeds(p)
    <2>1. /\ pc'[p] = "clean" /\ pc[p] = "running" /\ Slot(p)' = Slot(p)
          /\ UNCHANGED <<attempted, orphans>>
        BY <1>10 DEF JobSucceeds, GoTo, Slot, TypeOK
    <2> QED
        BY <1>0, <2>1 DEF Marked
<1>11. CASE RemoveMarks(p)
    <2>1. /\ pc'[p] = "release" /\ pc[p] = "clean" /\ Slot(p)' = Slot(p)
          /\ UNCHANGED <<ok, orphans>>
        BY <1>11 DEF RemoveMarks, GoTo, Slot, TypeOK
    <2>2. \A s \in Slots : s # Slot(p) => attempted'[s] = attempted[s]
        BY <1>11 DEF RemoveMarks, TypeOK
    <2> QED
        BY <1>0, <2>1, <2>2 DEF Marked, Slots
<1>12. CASE JobFails(p)
    <2>1. pc'[p] = "idle" /\ UNCHANGED <<attempted, orphans>>
        BY <1>12 DEF JobFails, Stop, TypeOK, files
    <2> QED
        BY <1>0, <2>1 DEF Marked
<1>13. CASE Crash(p)
    BY <1>13, MarkedKilled DEF Crash
<1> QED
    BY <1>1, <1>4, <1>5, <1>6, <1>7, <1>8, <1>9, <1>10, <1>11, <1>12, <1>13
       DEF Invocation, Proceed

\* Jobs end, marks expire, but not that of an evening slot whose job runs.
LEMMA MarkedNext == Lone /\ TypeOK /\ Marked /\ [Next]_vars => Marked'
<1> SUFFICES ASSUME Lone, TypeOK, Marked, [Next]_vars PROVE Marked'
    OBVIOUS
<1>1. ASSUME NEW p \in Proc, Invocation(p) PROVE Marked'
    BY <1>1, MarkedProceeds
<1>2. ASSUME NEW s \in Slots, OrphanEnds(s) PROVE Marked'
    BY <1>2 DEF OrphanEnds, Marked, Slot, files
<1>3. ASSUME NEW s \in Slots, Expire(s) PROVE Marked'
    <2>1. UNCHANGED <<pc, todo, ok, orphans>>
        BY <1>3 DEF Expire
    <2>2. \A r \in EveningSlots : attempted'[r] # attempted[r] => ~Working(r)
        BY <1>3 DEF Expire, TypeOK, Slots, EveningSlots, SameDay
    <2> QED
        BY <2>1, <2>2 DEF Marked, Slot, Working
<1>4. CASE Evening \/ TickStarts \/ TickEnds \/ UNCHANGED vars
    BY <1>4 DEF Evening, TickStarts, TickEnds, vars, files, Marked, Slot
<1> QED
    BY <1>1, <1>2, <1>3, <1>4 DEF Next

\* What the invariant says where a job starts.
LEMMA BeginsUnmarked ==
    ASSUME Marked, NEW p \in Proc, Begins(p), Slot(p) \in EveningSlots
    PROVE  Slot(p) \notin ok /\ Slot(p) \notin orphans
BY DEF Marked, Begins, Due, Cleared

LEMMA MarkedInvariant == Lone => (Spec => [](TypeOK /\ Marked))
<1> SUFFICES ASSUME Lone PROVE Spec => [](TypeOK /\ Marked)
    OBVIOUS
<1>1. Init => TypeOK /\ Marked
    BY TypeInit, MarkedInit
<1>2. TypeOK /\ Marked /\ [Next]_vars => (TypeOK /\ Marked)'
    BY TypeNext, MarkedNext
<1> QED
    BY <1>1, <1>2, PTL DEF Spec

\* As long as launchd alone starts the script, the .ok guard triggers exactly
\* one refresh of an evening slot a day: through crashes, failed jobs, outages
\* and retries a completed slot is not run again.
THEOREM OncePerDay == Lone => (Spec => OneRefreshPerDay)
<1> SUFFICES ASSUME Lone PROVE Spec => OneRefreshPerDay
    OBVIOUS
<1>1. Marked => \A p \in Proc : Begins(p) /\ Slot(p) \in EveningSlots => Slot(p) \notin ok
    BY BeginsUnmarked
<1> QED
    BY <1>1, MarkedInvariant, PTL DEF OneRefreshPerDay

\* On the same condition no evening slot is started again while the job of a
\* killed attempt still writes.
THEOREM NotStacked == Lone => (Spec => AttemptsNotStacked)
<1> SUFFICES ASSUME Lone PROVE Spec => AttemptsNotStacked
    OBVIOUS
<1>1. Marked => \A p \in Proc : Begins(p) /\ Slot(p) \in EveningSlots => Slot(p) \notin orphans
    BY BeginsUnmarked
<1> QED
    BY <1>1, MarkedInvariant, PTL DEF AttemptsNotStacked
================================================================================
