----------------------- MODULE SchedulerExecution_proofs -----------------------
(***************************************************************************)
(* Theorems about SchedulerExecution, for any number of calls, keys and    *)
(* executions.                                                             *)
(***************************************************************************)
EXTENDS SchedulerExecution, TLAPS

\* The places of a call on an execution before it comes to the cycle's ledger.
ExecutionPlaces == {"scan", "reserve", "fill", "look up", "store", "enter"}
Places == Ended \union Working \union ExecutionPlaces \union
          {"idle", "look", "decide", "read"}

Roles == CycleRole \union Execution \union {Idle}

\* The calls have their shape, and a call stands where its role can take it.
Placed ==
    /\ pc \in [Call -> Places]
    /\ role \in [Call -> Roles]
    /\ \A c \in Call : pc[c] = "idle" <=> role[c] = Idle
    /\ \A c \in Call : pc[c] \in ExecutionPlaces => Recording(c)
    /\ \A c \in Call : pc[c] \in {"look", "decide", "decided"} => ~Recording(c)

\* The files have their shape.
Filed ==
    /\ reservation \in [Key -> Exec \union {"absent", "empty"}]
    /\ ledger \in [Exec -> Key \union {"absent", "torn"}]
    /\ found \in [Call -> Exec \union {None}]

\* A call that has passed both tests for a conflict owns its key.
Owned ==
    \A c \in Call : /\ Recording(c)
                    /\ pc[c] \in {"look up", "store", "enter", "read", "file", "open", "write", "done"}
                    => reservation[role[c].key] = role[c].exec

\* A ledger agrees with the reservation of its key.
Agreed ==
    \A e \in Exec, k \in Key : ledger[e] = k /\ reservation[k] \in Exec => reservation[k] = e

\* The call that fills a reservation is the one that has made it.
Filling ==
    /\ \A c \in Call : pc[c] = "fill" => reservation[role[c].key] = "empty"
    /\ \A c, d \in Call : pc[c] = "fill" /\ pc[d] = "fill" /\ role[c].key = role[d].key
                             => c = d

\* A call that has not scanned the ledgers has found nothing.
Unscanned == \A c \in Call : pc[c] \in {"idle", "scan"} => found[c] = None

\* What a scan has found is still right as long as nobody has reserved the key.
Scanned ==
    \A c \in Call : pc[c] \in {"reserve", "fill"} =>
        /\ reservation[role[c].key] \notin Exec
               => \A e \in Exec : ledger[e] = role[c].key <=> e = found[c]
        /\ reservation[role[c].key] \in Exec
               => found[c] \in {None, reservation[role[c].key]}

\* A ledger about to be written is none of those older than reservations.
Unclaimed ==
    \A c \in Call : pc[c] \in {"store", "enter"} =>
        \A k \in Key : ledger[role[c].exec] = k => reservation[k] \in Exec

\* The inductive invariant.
Registered == /\ Owned /\ Agreed /\ OneExecutionPerKey /\ Filling
              /\ Unscanned /\ Scanned /\ Unclaimed
RegistryInv == Placed /\ Filed /\ Registered

---------------------------------------------------------------------------
(* The shape of the steps *)

\* The kinds of roles do not mix.
LEMMA RoleKinds ==
    /\ \A r \in CycleRole : r \notin Execution /\ r # Idle
    /\ \A r \in Execution : r # Idle /\ r.kind = "execution" /\ r.key \in Key /\ r.exec \in Exec
<1>1. \A r \in CycleRole : r.kind \notin {"execution", "none"}
    BY DEF CycleRole, Producer, Artifact
<1>2. \A r \in Execution : r.kind = "execution" /\ r.key \in Key /\ r.exec \in Exec
    BY DEF Execution
<1>3. Idle.kind = "none"
    BY DEF Idle
<1> QED
    BY <1>1, <1>2, <1>3

\* Where a step on the cycle's ledger takes a call.
CycleMove(from, to) ==
    \/ to = "failed" /\ from \in {"look", "decide", "read", "decided"}
    \/ to \in {"gone", "cut off"} /\ from \notin {"idle"} \union Ended
    \/ from = "look" /\ to \in {"done", "open"}
    \/ from = "decide" /\ to \in {"done", "decided"}
    \/ from \in {"read", "decided"} /\ to \in {"done", "file", "open"}
    \/ from = "file" /\ to = "open"
    \/ from = "open" /\ to = "write"
    \/ from = "write" /\ to = "done"

LEMMA CycleShape ==
    ASSUME NEW c \in Call, CycleStep(c)
    PROVE  \/ /\ pc[c] = "idle"
              /\ \E r \in CycleRole : role' = [role EXCEPT ![c] = r]
              /\ \E w \in {"look", "decide", "read"} : pc' = [pc EXCEPT ![c] = w]
           \/ role' = role /\ \E w : pc' = [pc EXCEPT ![c] = w] /\ CycleMove(pc[c], w)
<1>1. CASE Begins(c)
    BY <1>1 DEF Begins, Become, FirstStep
<1>2. CASE ReadsTorn(c)
    BY <1>2 DEF ReadsTorn, Become, CycleMove
<1>3. CASE FindsStarted(c) \/ FindsNoCycle(c) \/ Decides(c)
    BY <1>3 DEF FindsStarted, FindsNoCycle, Decides, Become, CycleMove
<1>4. CASE MissesCycle(c) \/ Misnames(c)
    BY <1>4 DEF MissesCycle, Misnames, Become, CycleMove
<1>5. CASE Reads(c) \/ FindsEvent(c)
    BY <1>5 DEF Reads, FindsEvent, Become, CycleMove
<1>6. CASE RereadsTorn(c)
    BY <1>6 DEF RereadsTorn, Leaves, Become, CycleMove
<1>7. CASE Files(c) \/ OpensCycle(c) \/ WritesCycle(c)
    BY <1>7 DEF Files, OpensCycle, WritesCycle, Leaves, Become, CycleMove
<1>8. CASE Dies(c)
    BY <1>8 DEF Dies, Leaves, Become, CycleMove
<1> QED
    BY <1>1, <1>2, <1>3, <1>4, <1>5, <1>6, <1>7, <1>8 DEF CycleStep

\* A step on the execution ledger keeps the roles, or gives a call its role.
LEMMA ExecutionShape ==
    ASSUME NEW c \in Call, ExecutionStep(c)
    PROVE  \/ Asks(c)
           \/ /\ pc[c] \in ExecutionPlaces
              /\ role' = role
              /\ \E w \in (ExecutionPlaces \ {"scan"}) \union {"read", "failed", "refused"} :
                     pc' = [pc EXCEPT ![c] = w]
BY DEF ExecutionStep, Finds, FindsNone, FindsTorn, Reserves, Fills, FindsReserved, FindsEmpty,
       LooksUp, OpensLedger, EntersLedger, Moves, Become, Verdict, ExecutionPlaces

\* Calls keep their shape.
LEMMA PlacedNext ==
    ASSUME Placed, [Next]_vars
    PROVE  Placed'
<1>1. CASE UNCHANGED vars
    BY <1>1 DEF Placed, Recording, vars, cycleVars
<1>2. ASSUME NEW c \in Call, ExecutionStep(c)
      PROVE  Placed'
    <2>1. CASE Asks(c)
        BY <2>1, RoleKinds DEF Asks, Become, Placed, Places, Roles, ExecutionPlaces, Recording
    <2>2. ASSUME pc[c] \in ExecutionPlaces, role' = role,
                 NEW w \in (ExecutionPlaces \ {"scan"}) \union {"read", "failed", "refused"},
                 pc' = [pc EXCEPT ![c] = w]
          PROVE  Placed'
        BY <2>2, RoleKinds DEF Placed, Places, ExecutionPlaces, Recording, Ended
    <2> QED
        BY <1>2, <2>1, <2>2, ExecutionShape
<1>3. ASSUME NEW c \in Call, CycleStep(c)
      PROVE  Placed'
    <2>1. ASSUME pc[c] = "idle",
                 NEW r \in CycleRole, role' = [role EXCEPT ![c] = r],
                 NEW w \in {"look", "decide", "read"}, pc' = [pc EXCEPT ![c] = w]
          PROVE  Placed'
        BY <2>1, RoleKinds DEF Placed, Places, Roles, ExecutionPlaces, Recording
    <2>2. ASSUME role' = role, NEW w, pc' = [pc EXCEPT ![c] = w], CycleMove(pc[c], w)
          PROVE  Placed'
        BY <2>2, RoleKinds DEF Placed, Places, ExecutionPlaces, Recording, CycleMove, Ended, Working
    <2> QED
        BY <1>3, <2>1, <2>2, CycleShape
<1> QED
    BY <1>1, <1>2, <1>3 DEF Next

\* Files keep their shape.
LEMMA FiledNext ==
    ASSUME Placed, Filed, [Next]_vars
    PROVE  Filed'
<1>1. CASE UNCHANGED executionVars
    BY <1>1 DEF Filed, executionVars
<1>2. ASSUME NEW c \in Call, ExecutionStep(c), ~Asks(c)
      PROVE  Filed'
    <2>1. role[c].key \in Key /\ role[c].exec \in Exec
        BY <1>2, ExecutionShape, RoleKinds DEF Placed, Recording
    <2>2. Wanted(c) \in Exec
        BY <2>1 DEF Wanted, Filed
    <2>3. CASE Finds(c) \/ FindsNone(c) \/ FindsTorn(c)
        BY <2>3 DEF Finds, FindsNone, FindsTorn, executionVars, Filed
    <2>4. CASE Reserves(c) \/ Fills(c)
        BY <2>1, <2>2, <2>4 DEF Reserves, Fills, Filed
    <2>5. CASE FindsReserved(c) \/ FindsEmpty(c) \/ LooksUp(c)
        BY <2>5 DEF FindsReserved, FindsEmpty, LooksUp, executionVars, Filed
    <2>6. CASE OpensLedger(c) \/ EntersLedger(c)
        BY <2>1, <2>6 DEF OpensLedger, EntersLedger, Filed
    <2> QED
        BY <1>2, <2>3, <2>4, <2>5, <2>6 DEF ExecutionStep
<1> QED
    BY <1>1, <1>2 DEF Next, vars, Asks

---------------------------------------------------------------------------
(* The registry *)

\* A step of a call that changes neither files nor scans, and takes it to no
\* place where it must own its key without owning it already.
LEMMA QuietStep ==
    ASSUME Placed, Filed, Registered, NEW c \in Call,
           UNCHANGED <<reservation, ledger, found>>,
           \A d \in Call \ {c} : pc'[d] = pc[d] /\ role'[d] = role[d],
           pc'[c] = "scan" => pc[c] = "idle",
           \/ pc'[c] \in {"look", "decide", "decided", "scan", "failed", "gone", "cut off", "refused"}
           \/ /\ role'[c] = role[c]
              /\ pc'[c] \in {"read", "file", "open", "write", "done"}
              /\ Recording(c) => pc[c] \in {"enter", "look up", "read", "file", "open", "write"}
    PROVE  Registered'
<1>1. Owned'
    BY DEF Registered, Owned, Recording
<1>2. Agreed' /\ OneExecutionPerKey'
    BY DEF Registered, Agreed, OneExecutionPerKey
<1>3. Filling'
    BY DEF Registered, Filling
<1>4. Scanned'
    <2> SUFFICES ASSUME NEW d \in Call, pc'[d] \in {"reserve", "fill"}
                 PROVE  /\ reservation'[role'[d].key] \notin Exec
                               => \A e \in Exec : ledger'[e] = role'[d].key <=> e = found'[d]
                        /\ reservation'[role'[d].key] \in Exec
                               => found'[d] \in {None, reservation'[role'[d].key]}
        BY DEF Scanned
    <2>1. d # c
        OBVIOUS
    <2>2. pc[d] \in {"reserve", "fill"} /\ role'[d] = role[d]
        BY <2>1
    <2> QED
        BY <2>2 DEF Registered, Scanned
<1>5. Unclaimed'
    BY DEF Registered, Unclaimed
<1>6. Unscanned'
    BY DEF Registered, Unscanned
<1> QED
    BY <1>1, <1>2, <1>3, <1>4, <1>5, <1>6 DEF Registered

LEMMA CycleKeepsRegistered ==
    ASSUME Placed, Filed, Registered, NEW c \in Call, CycleStep(c), UNCHANGED executionVars
    PROVE  Registered'
<1>1. UNCHANGED <<reservation, ledger, found>>
    BY DEF executionVars
<1>2. ASSUME pc[c] = "idle",
             NEW r \in CycleRole, role' = [role EXCEPT ![c] = r],
             NEW w \in {"look", "decide", "read"}, pc' = [pc EXCEPT ![c] = w]
      PROVE  Registered'
    <2>1. ~(role'[c] \in Execution)
        BY <1>2, RoleKinds DEF Placed
    <2>2. pc'[c] = w
        BY <1>2 DEF Placed
    <2>3. \A d \in Call \ {c} : pc'[d] = pc[d] /\ role'[d] = role[d]
        BY <1>2 DEF Placed
    <2>4. Owned'
        BY <1>1, <2>1, <2>3 DEF Registered, Owned, Recording
    <2>5. Agreed' /\ OneExecutionPerKey'
        BY <1>1 DEF Registered, Agreed, OneExecutionPerKey
    <2>6. Filling' /\ Unscanned' /\ Scanned' /\ Unclaimed'
        BY <1>1, <2>2, <2>3 DEF Registered, Filling, Unscanned, Scanned, Unclaimed
    <2> QED
        BY <2>4, <2>5, <2>6 DEF Registered
<1>3. ASSUME role' = role, NEW w, pc' = [pc EXCEPT ![c] = w], CycleMove(pc[c], w)
      PROVE  Registered'
    <2>1. pc'[c] = w /\ role'[c] = role[c]
        BY <1>3 DEF Placed
    <2>2. \A d \in Call \ {c} : pc'[d] = pc[d] /\ role'[d] = role[d]
        BY <1>3 DEF Placed
    <2>3. w \in {"failed", "gone", "cut off", "decided"} \/ w \in {"done", "file", "open", "write"}
        BY <1>3 DEF CycleMove
    <2>4. w \in {"done", "file", "open", "write"} /\ Recording(c) => pc[c] \in {"read", "file", "open", "write"}
        BY <1>3 DEF CycleMove, Placed
    <2> QED
        BY <1>1, <2>1, <2>2, <2>3, <2>4, QuietStep
<1> QED
    BY <1>2, <1>3, CycleShape

\* A call that reads the files.
LEMMA LookKeepsRegistered ==
    ASSUME Placed, Filed, Registered, NEW c \in Call,
           Asks(c) \/ FindsTorn(c) \/ FindsEmpty(c) \/ LooksUp(c)
    PROVE  Registered'
<1>1. CASE Asks(c)
    <2>1. pc'[c] = "scan" /\ \A d \in Call \ {c} : pc'[d] = pc[d] /\ role'[d] = role[d]
        BY <1>1 DEF Asks, Become, Placed
    <2> QED
        BY <1>1, <2>1, QuietStep DEF Asks, executionVars
<1>2. CASE FindsTorn(c) \/ FindsEmpty(c)
    <2>1. pc'[c] = "failed" /\ \A d \in Call \ {c} : pc'[d] = pc[d] /\ role'[d] = role[d]
        BY <1>2 DEF FindsTorn, FindsEmpty, Moves, Become, Placed
    <2> QED
        BY <1>2, <2>1, QuietStep DEF FindsTorn, FindsEmpty, executionVars
<1>3. CASE LooksUp(c)
    <2>1. /\ pc[c] = "look up" /\ role' = role
          /\ \A d \in Call \ {c} : pc'[d] = pc[d]
          /\ UNCHANGED <<reservation, ledger, found>>
        BY <1>3 DEF LooksUp, Moves, Become, Placed
    <2>2. /\ pc'[c] \in {"store", "read", "failed"}
          /\ pc'[c] = "store" => ledger[role[c].exec] = "absent"
        BY <1>3 DEF LooksUp, Moves, Become, Placed
    <2>3. CASE pc'[c] # "store"
        BY <2>1, <2>2, <2>3, QuietStep
    <2>4. CASE pc'[c] = "store"
        <3>1. Owned'
            BY <2>1, <2>4 DEF Registered, Owned, Recording
        <3>2. Agreed' /\ OneExecutionPerKey'
            BY <2>1 DEF Registered, Agreed, OneExecutionPerKey
        <3>3. Filling'
            BY <2>1, <2>4 DEF Registered, Filling
        <3>4. Scanned'
            <4> SUFFICES ASSUME NEW d \in Call, pc'[d] \in {"reserve", "fill"}
                 PROVE  /\ reservation'[role'[d].key] \notin Exec
                               => \A e \in Exec : ledger'[e] = role'[d].key <=> e = found'[d]
                        /\ reservation'[role'[d].key] \in Exec
                               => found'[d] \in {None, reservation'[role'[d].key]}
                BY DEF Scanned
            <4>1. pc[d] \in {"reserve", "fill"} /\ role'[d] = role[d]
                BY <2>1, <2>4
            <4> QED
                BY <2>1, <4>1 DEF Registered, Scanned
        <3>5. Unclaimed'
            BY <2>1, <2>2, <2>4, Distinct DEF Registered, Unclaimed
        <3>6. Unscanned'
            BY <2>1, <2>4 DEF Registered, Unscanned
        <3> QED
            BY <3>1, <3>2, <3>3, <3>4, <3>5, <3>6 DEF Registered
    <2> QED
        BY <2>3, <2>4
<1> QED
    BY <1>1, <1>2, <1>3

\* The call that has scanned the ledgers knows the execution of its key, if any.
LEMMA ScanKeepsRegistered ==
    ASSUME Placed, Filed, Registered, NEW c \in Call, Finds(c) \/ FindsNone(c)
    PROVE  Registered'
<1>1. /\ pc[c] = "scan" /\ pc'[c] = "reserve" /\ role' = role
      /\ \A d \in Call \ {c} : pc'[d] = pc[d] /\ found'[d] = found[d]
      /\ UNCHANGED <<reservation, ledger>>
    BY DEF Finds, FindsNone, Moves, Become, Placed, Filed, executionVars
<1>2. Owned'
    BY <1>1 DEF Registered, Owned, Recording
<1>3. Agreed' /\ OneExecutionPerKey'
    BY <1>1 DEF Registered, Agreed, OneExecutionPerKey
<1>4. Filling'
    BY <1>1 DEF Registered, Filling
<1>5. Unclaimed'
    BY <1>1 DEF Registered, Unclaimed
<1>6. Scanned'
    <2> SUFFICES ASSUME NEW d \in Call, pc'[d] \in {"reserve", "fill"}
                 PROVE  /\ reservation[role[d].key] \notin Exec
                               => \A e \in Exec : ledger[e] = role[d].key <=> e = found'[d]
                        /\ reservation[role[d].key] \in Exec
                               => found'[d] \in {None, reservation[role[d].key]}
        BY <1>1 DEF Scanned
    <2>1. CASE d # c
        BY <1>1, <2>1 DEF Registered, Scanned
    <2>2. CASE d = c
        <3>1. role[c].key \in Key
            BY <1>1, RoleKinds DEF Placed, ExecutionPlaces, Recording
        <3>2. CASE Finds(c)
            <4>1. PICK e \in Exec : ledger[e] = role[c].key /\ found'[c] = e
                BY <3>2 DEF Finds, Filed
            <4>2. \A e2 \in Exec : ledger[e2] = role[c].key <=> e2 = e
                BY <3>1, <4>1 DEF Registered, OneExecutionPerKey
            <4>3. reservation[role[c].key] \in Exec => reservation[role[c].key] = e
                BY <3>1, <4>1 DEF Registered, Agreed
            <4> QED
                BY <2>2, <4>1, <4>2, <4>3
        <3>3. CASE FindsNone(c)
            <4>1. \A e \in Exec : ledger[e] # role[c].key
                BY <3>3 DEF FindsNone
            <4>2. found'[c] = None
                BY <1>1, <3>3 DEF FindsNone, executionVars, Registered, Unscanned
            <4> QED
                BY <2>2, <4>1, <4>2, Distinct
        <3> QED
            BY <3>2, <3>3
    <2> QED
        BY <2>1, <2>2
<1>7. Unscanned'
    BY <1>1 DEF Registered, Unscanned
<1> QED
    BY <1>2, <1>3, <1>4, <1>5, <1>6, <1>7 DEF Registered

\* The call that creates the reservation, still empty.
LEMMA ReserveKeepsRegistered ==
    ASSUME Placed, Filed, Registered, NEW c \in Call, Reserves(c)
    PROVE  Registered'
<1> DEFINE k == role[c].key
<1>1. /\ pc[c] = "reserve" /\ pc'[c] = "fill" /\ role' = role
      /\ \A d \in Call \ {c} : pc'[d] = pc[d]
      /\ UNCHANGED <<ledger, found>>
    BY DEF Reserves, Moves, Become, Placed
<1>2. Recording(c) /\ k \in Key
    BY <1>1, RoleKinds DEF Placed, ExecutionPlaces, Recording
<1>3. \A d \in Call : Recording(d) => role[d].key \in Key /\ role[d].exec \in Exec
    BY RoleKinds DEF Recording
<1>4. /\ reservation[k] \notin Exec /\ reservation'[k] = "empty" /\ reservation'[k] \notin Exec
      /\ reservation[k] = "absent"
      /\ \A j \in Key \ {k} : reservation'[j] = reservation[j]
    BY <1>2, Distinct DEF Reserves, Filed
<1>5. \A d \in Call : pc[d] \in ExecutionPlaces => role[d].key \in Key /\ role[d].exec \in Exec
    BY <1>3 DEF Placed
<1> HIDE DEF k
<1>6. Owned'
    BY <1>1, <1>3, <1>4 DEF Registered, Owned, Recording
<1>7. Agreed' /\ OneExecutionPerKey'
    BY <1>1, <1>4 DEF Registered, Agreed, OneExecutionPerKey
<1>8. Filling'
    <2>1. \A d \in Call \ {c} : pc[d] = "fill" => role[d].key # k
        BY <1>4 DEF Registered, Filling
    <2>2. role[c].key = k
        BY DEF k
    <2>3. \A d \in Call : pc'[d] = "fill"
                             => d = c \/ (pc[d] = "fill" /\ role[d].key \in Key \ {k})
        BY <1>1, <1>5, <2>1 DEF ExecutionPlaces
    <2>4. \A d \in Call : pc'[d] = "fill" => reservation'[role'[d].key] = "empty"
        <3> TAKE d \in Call
        <3>1. CASE d = c
            BY <1>1, <1>4, <2>2, <3>1
        <3>2. CASE d # c
            <4> HAVE pc'[d] = "fill"
            <4>1. pc[d] = "fill" /\ role[d].key \in Key \ {k}
                BY <2>3, <3>2
            <4>2. reservation[role[d].key] = "empty"
                BY <4>1 DEF Registered, Filling
            <4> QED
                BY <1>1, <1>4, <4>1, <4>2
        <3> QED
            BY <3>1, <3>2
    <2>5. \A d, g \in Call : /\ pc'[d] = "fill" /\ pc'[g] = "fill"
                            /\ role'[d].key = role'[g].key
                            => d = g
        BY <1>1, <2>2, <2>3 DEF Registered, Filling
    <2> QED
        BY <2>4, <2>5 DEF Filling
<1>9. Scanned'
    <2> SUFFICES ASSUME NEW d \in Call, pc'[d] \in {"reserve", "fill"}
                 PROVE  /\ reservation'[role[d].key] \notin Exec
                               => \A e \in Exec : ledger[e] = role[d].key <=> e = found[d]
                        /\ reservation'[role[d].key] \in Exec
                               => found[d] \in {None, reservation'[role[d].key]}
        BY <1>1 DEF Scanned
    <2>1. pc[d] \in {"reserve", "fill"}
        BY <1>1
    <2>2. role[d].key \in Key
        BY <1>5, <2>1 DEF ExecutionPlaces
    <2>3. /\ reservation[role[d].key] \notin Exec
                 => \A e \in Exec : ledger[e] = role[d].key <=> e = found[d]
          /\ reservation[role[d].key] \in Exec
                 => found[d] \in {None, reservation[role[d].key]}
        BY <2>1 DEF Registered, Scanned
    <2> QED
        BY <1>4, <2>2, <2>3
<1>10. Unscanned'
    BY <1>1 DEF Registered, Unscanned
<1>11. Unclaimed'
    BY <1>1, <1>4 DEF Registered, Unclaimed
<1> QED
    BY <1>6, <1>7, <1>8, <1>9, <1>10, <1>11 DEF Registered

\* The call that fills it.
LEMMA FillKeepsRegistered ==
    ASSUME Placed, Filed, Registered, NEW c \in Call, Fills(c)
    PROVE  Registered'
<1> DEFINE k == role[c].key
           w == Wanted(c)
<1>1. /\ pc[c] = "fill" /\ pc'[c] \in {"look up", "refused"} /\ role' = role
      /\ \A d \in Call \ {c} : pc'[d] = pc[d]
      /\ UNCHANGED <<ledger, found>>
    BY DEF Fills, Moves, Become, Placed, Verdict
<1>2. Recording(c) /\ k \in Key /\ role[c].exec \in Exec
    BY <1>1, RoleKinds DEF Placed, ExecutionPlaces, Recording
<1>3. \A d \in Call : Recording(d) => role[d].key \in Key /\ role[d].exec \in Exec
    BY RoleKinds DEF Recording
<1>4. w \in Exec
    BY <1>2 DEF Wanted, Filed
<1>5. /\ reservation[k] = "empty" /\ reservation[k] \notin Exec
      /\ reservation'[k] = w
      /\ \A j \in Key \ {k} : reservation'[j] = reservation[j]
    BY <1>1, <1>2, Distinct DEF Fills, Filed, Registered, Filling
<1>6. \A d \in Call : pc[d] \in ExecutionPlaces => role[d].key \in Key /\ role[d].exec \in Exec
    BY <1>3 DEF Placed
<1>7. pc'[c] = "look up" => w = role[c].exec
    BY <1>2 DEF Fills, Moves, Become, Placed, Verdict, Wanted
<1>8. \A e \in Exec : ledger[e] = k <=> e = found[c]
    BY <1>1, <1>5 DEF Registered, Scanned
<1>9. \A e \in Exec : ledger[e] = k => e = w
    BY <1>8, <1>2, Distinct DEF Wanted
<1>10. role[c].key = k
    OBVIOUS
<1> HIDE DEF k, w
<1>11. Owned'
    <2> SUFFICES ASSUME NEW d \in Call, Recording(d),
                        pc'[d] \in {"look up", "store", "enter", "read", "file", "open", "write", "done"}
                 PROVE  reservation'[role[d].key] = role[d].exec
        BY <1>1 DEF Owned, Recording
    <2>1. CASE d = c
        BY <1>1, <1>5, <1>7, <1>10, <2>1
    <2>2. CASE d # c
        <3>1. reservation[role[d].key] = role[d].exec /\ role[d].key \in Key /\ role[d].exec \in Exec
            BY <1>1, <1>3, <2>2 DEF Registered, Owned
        <3> QED
            BY <1>5, <3>1
    <2> QED
        BY <2>1, <2>2
<1>12. Agreed'
    BY <1>1, <1>5, <1>9 DEF Registered, Agreed
<1>13. OneExecutionPerKey'
    BY <1>1 DEF Registered, OneExecutionPerKey
<1>14. Filling'
    <2>1. \A d \in Call : pc'[d] = "fill" => pc[d] = "fill" /\ role[d].key \in Key \ {k}
        BY <1>1, <1>6, <1>10 DEF Registered, Filling, ExecutionPlaces
    <2> QED
        BY <1>1, <1>5, <2>1 DEF Registered, Filling
<1>15. Scanned'
    <2> SUFFICES ASSUME NEW d \in Call, pc'[d] \in {"reserve", "fill"}
                 PROVE  /\ reservation'[role[d].key] \notin Exec
                               => \A e \in Exec : ledger[e] = role[d].key <=> e = found[d]
                        /\ reservation'[role[d].key] \in Exec
                               => found[d] \in {None, reservation'[role[d].key]}
        BY <1>1 DEF Scanned
    <2>1. pc[d] \in {"reserve", "fill"} /\ found[d] \in Exec \union {None}
        BY <1>1 DEF Filed
    <2>2. role[d].key \in Key
        BY <1>6, <2>1 DEF ExecutionPlaces
    <2>3. /\ reservation[role[d].key] \notin Exec
                 => \A e \in Exec : ledger[e] = role[d].key <=> e = found[d]
          /\ reservation[role[d].key] \in Exec
                 => found[d] \in {None, reservation[role[d].key]}
        BY <2>1 DEF Registered, Scanned
    <2>4. CASE role[d].key = k
        BY <1>4, <1>5, <1>9, <2>1, <2>3, <2>4
    <2>5. CASE role[d].key # k
        BY <1>5, <2>2, <2>3, <2>5
    <2> QED
        BY <2>4, <2>5
<1>16. Unscanned'
    BY <1>1 DEF Registered, Unscanned
<1>17. Unclaimed'
    BY <1>1, <1>4, <1>5 DEF Registered, Unclaimed
<1> QED
    BY <1>11, <1>12, <1>13, <1>14, <1>15, <1>16, <1>17 DEF Registered

\* The call that finds the reservation made by another.
LEMMA FoundReservedKeepsRegistered ==
    ASSUME Placed, Filed, Registered, NEW c \in Call, FindsReserved(c)
    PROVE  Registered'
<1>1. /\ pc[c] = "reserve" /\ pc'[c] \in {"look up", "refused"} /\ role' = role
      /\ \A d \in Call \ {c} : pc'[d] = pc[d]
      /\ UNCHANGED <<reservation, ledger, found>>
      /\ reservation[role[c].key] \in Exec
    BY DEF FindsReserved, Moves, Become, Placed, Verdict, executionVars
<1>2. pc'[c] = "look up" => reservation[role[c].key] \in {None, role[c].exec}
    BY DEF FindsReserved, Moves, Become, Placed, Verdict
<1>3. pc'[c] = "look up" => reservation[role[c].key] = role[c].exec
    BY <1>1, <1>2, Distinct
<1>4. Owned'
    BY <1>1, <1>3 DEF Registered, Owned, Recording
<1>5. Agreed' /\ OneExecutionPerKey'
    BY <1>1 DEF Registered, Agreed, OneExecutionPerKey
<1>6. Filling'
    BY <1>1 DEF Registered, Filling
<1>7. Scanned'
    <2> SUFFICES ASSUME NEW d \in Call, pc'[d] \in {"reserve", "fill"}
                 PROVE  /\ reservation[role[d].key] \notin Exec
                               => \A e \in Exec : ledger[e] = role[d].key <=> e = found[d]
                        /\ reservation[role[d].key] \in Exec
                               => found[d] \in {None, reservation[role[d].key]}
        BY <1>1 DEF Scanned
    <2>1. pc[d] \in {"reserve", "fill"}
        BY <1>1
    <2> QED
        BY <2>1 DEF Registered, Scanned
<1>8. Unscanned' /\ Unclaimed'
    BY <1>1 DEF Registered, Unscanned, Unclaimed
<1> QED
    BY <1>4, <1>5, <1>6, <1>7, <1>8 DEF Registered

\* Writing a ledger leaves the keys that are not reserved with the ledgers they have.
LEMMA LedgersOfOthers ==
    ASSUME Placed, Filed, Registered, NEW c \in Call, OpensLedger(c) \/ EntersLedger(c)
    PROVE  \A j \in Key : reservation[j] \notin Exec
               => \A e \in Exec : ledger'[e] = j <=> ledger[e] = j
<1> DEFINE k == role[c].key
           x == role[c].exec
<1>1. pc[c] \in {"store", "enter"}
    BY DEF OpensLedger, EntersLedger, Moves
<1>2. Recording(c) /\ k \in Key /\ x \in Exec
    BY <1>1, RoleKinds DEF Placed, ExecutionPlaces, Recording
<1>3. reservation[k] = x
    BY <1>1, <1>2 DEF Registered, Owned
<1>4. /\ ledger'[x] \in {k, "torn"}
      /\ \A e \in Exec \ {x} : ledger'[e] = ledger[e]
    BY <1>2 DEF OpensLedger, EntersLedger, Filed
<1>5. \A j \in Key : ledger[x] = j => reservation[j] \in Exec
    BY <1>1 DEF Registered, Unclaimed
<1> HIDE DEF k, x
<1> QED
    BY <1>2, <1>3, <1>4, <1>5, Distinct

\* The call that writes its ledger: what it truncates no other key can stand on,
\* and what it enters is its own key.
LEMMA LedgerKeepsRegistered ==
    ASSUME Placed, Filed, Registered, NEW c \in Call, OpensLedger(c) \/ EntersLedger(c)
    PROVE  Registered'
<1> DEFINE k == role[c].key
           x == role[c].exec
<1>1. /\ pc[c] \in {"store", "enter"} /\ pc'[c] \in {"enter", "read"} /\ role' = role
      /\ \A d \in Call \ {c} : pc'[d] = pc[d]
      /\ UNCHANGED <<reservation, found>>
    BY DEF OpensLedger, EntersLedger, Moves, Become, Placed
<1>2. Recording(c) /\ k \in Key /\ x \in Exec
    BY <1>1, RoleKinds DEF Placed, ExecutionPlaces, Recording
<1>3. reservation[k] = x
    BY <1>1, <1>2 DEF Registered, Owned
<1>4. /\ ledger'[x] \in {k, "torn"}
      /\ \A e \in Exec \ {x} : ledger'[e] = ledger[e]
    BY <1>2 DEF OpensLedger, EntersLedger, Filed
<1>5. "torn" \notin Key
    BY Distinct
<1> HIDE DEF k, x
<1>7. \A e \in Exec, j \in Key : ledger'[e] = j => ledger[e] = j \/ (e = x /\ j = k)
    BY <1>4, <1>5
<1>8. Owned'
    BY <1>1, <1>2 DEF Registered, Owned, Recording, k
<1>9. Agreed'
    BY <1>1, <1>3, <1>7 DEF Registered, Agreed
<1>10. OneExecutionPerKey'
    <2> SUFFICES ASSUME NEW e1 \in Exec, NEW e2 \in Exec, NEW j \in Key,
                        ledger'[e1] = j, ledger'[e2] = j
                 PROVE  e1 = e2
        BY DEF OneExecutionPerKey
    <2>1. CASE j = k
        BY <1>1, <1>2, <1>3, <1>9, <2>1 DEF Agreed
    <2>2. CASE j # k
        BY <1>7, <2>2 DEF Registered, OneExecutionPerKey
    <2> QED
        BY <2>1, <2>2
<1>11. Filling'
    BY <1>1 DEF Registered, Filling
<1>12. Scanned'
    <2> SUFFICES ASSUME NEW d \in Call, pc'[d] \in {"reserve", "fill"}
                 PROVE  /\ reservation[role[d].key] \notin Exec
                               => \A e \in Exec : ledger'[e] = role[d].key <=> e = found[d]
                        /\ reservation[role[d].key] \in Exec
                               => found[d] \in {None, reservation[role[d].key]}
        BY <1>1 DEF Scanned
    <2>1. pc[d] \in {"reserve", "fill"}
        BY <1>1
    <2>2. role[d].key \in Key
        BY <2>1, RoleKinds DEF Placed, ExecutionPlaces, Recording
    <2>3. /\ reservation[role[d].key] \notin Exec
                 => \A e \in Exec : ledger[e] = role[d].key <=> e = found[d]
          /\ reservation[role[d].key] \in Exec
                 => found[d] \in {None, reservation[role[d].key]}
        BY <2>1 DEF Registered, Scanned
    <2>4. reservation[role[d].key] \notin Exec
              => \A e \in Exec : ledger'[e] = role[d].key <=> ledger[e] = role[d].key
        BY <2>2, LedgersOfOthers
    <2> QED
        BY <2>3, <2>4
<1>13. Unscanned'
    BY <1>1 DEF Registered, Unscanned
<1>14. Unclaimed'
    <2> SUFFICES ASSUME NEW d \in Call, pc'[d] \in {"store", "enter"}, NEW j \in Key,
                        ledger'[role[d].exec] = j
                 PROVE  reservation[j] \in Exec
        BY <1>1 DEF Unclaimed
    <2>1. pc[d] \in {"store", "enter"}
        BY <1>1
    <2>2. role[d].exec \in Exec
        BY <2>1, RoleKinds DEF Placed, ExecutionPlaces, Recording
    <2>3. ledger[role[d].exec] = j => reservation[j] \in Exec
        BY <2>1 DEF Registered, Unclaimed
    <2> QED
        BY <1>2, <1>3, <1>7, <2>2, <2>3
<1> QED
    BY <1>8, <1>9, <1>10, <1>11, <1>12, <1>13, <1>14 DEF Registered

LEMMA RegisteredNext ==
    ASSUME Placed, Filed, Registered, [Next]_vars
    PROVE  Registered'
<1>1. CASE UNCHANGED vars
    BY <1>1 DEF vars, cycleVars, executionVars, Registered, Owned, Agreed, OneExecutionPerKey,
                Filling, Unscanned, Scanned, Unclaimed, Recording
<1>2. ASSUME NEW c \in Call, ExecutionStep(c)
      PROVE  Registered'
    BY <1>2, LookKeepsRegistered, ScanKeepsRegistered, ReserveKeepsRegistered,
       FillKeepsRegistered, FoundReservedKeepsRegistered, LedgerKeepsRegistered
       DEF ExecutionStep
<1>3. ASSUME NEW c \in Call, CycleStep(c), UNCHANGED executionVars
      PROVE  Registered'
    BY <1>3, CycleKeepsRegistered
<1> QED
    BY <1>1, <1>2, <1>3 DEF Next

LEMMA RegistryInit == Init => RegistryInv
<1> SUFFICES ASSUME Init PROVE RegistryInv
    OBVIOUS
<1>1. Placed
    BY RoleKinds DEF Init, CycleInit, Placed, Places, Roles, ExecutionPlaces, Recording
<1>2. Filed
    BY DEF Init, Filed
<1>3. Registered
    <2>1. \A k \in Key : reservation[k] \notin Exec
        BY Distinct DEF Init
    <2>2. OneExecutionPerKey
        BY Distinct DEF Init, OneExecutionPerKey
    <2> QED
        BY <2>1, <2>2 DEF Init, CycleInit, Registered, Owned, Agreed, Filling, Unscanned,
                          Scanned, Unclaimed
<1> QED
    BY <1>1, <1>2, <1>3 DEF RegistryInv

LEMMA RegistryInvariant == Spec => []RegistryInv
<1>1. RegistryInv /\ [Next]_vars => RegistryInv'
    BY PlacedNext, FiledNext, RegisteredNext DEF RegistryInv
<1> QED
    BY RegistryInit, <1>1, PTL DEF Spec

\* No idempotency key ever has the ledgers of two executions.
THEOREM OneLedgerPerKey == Spec => []OneExecutionPerKey
<1>1. RegistryInv => OneExecutionPerKey
    BY DEF RegistryInv, Registered
<1> QED
    BY RegistryInvariant, <1>1, PTL

---------------------------------------------------------------------------
(* The refinement *)

\* The abstract variables.
RBound == [k \in Key |-> Bound(k)]
RRequest == [c \in Call |-> Requested(c)]
RAnswer == [c \in Call |-> Answered(c)]

\* What a key is bound to.
BoundIs ==
    \A k \in Key :
        /\ reservation[k] \in Exec => Bound(k) = reservation[k]
        /\ reservation[k] \notin Exec => \A e \in Exec : ledger[e] = k => Bound(k) = e
        /\ reservation[k] \notin Exec /\ (\A e \in Exec : ledger[e] # k) => Bound(k) = None

LEMMA BoundValue == RegistryInv => BoundIs
<1> SUFFICES ASSUME RegistryInv, NEW k \in Key
             PROVE  /\ reservation[k] \in Exec => Bound(k) = reservation[k]
                    /\ reservation[k] \notin Exec => \A e \in Exec : ledger[e] = k => Bound(k) = e
                    /\ reservation[k] \notin Exec /\ (\A e \in Exec : ledger[e] # k)
                           => Bound(k) = None
    BY DEF BoundIs
<1>1. ASSUME reservation[k] \notin Exec, NEW e \in Exec, ledger[e] = k
      PROVE  Bound(k) = e
    <2>1. Bound(k) = CHOOSE e2 \in Exec : ledger[e2] = k
        BY <1>1 DEF Bound
    <2>2. Bound(k) \in Exec /\ ledger[Bound(k)] = k
        BY <1>1, <2>1
    <2> QED
        BY <1>1, <2>2 DEF RegistryInv, Registered, OneExecutionPerKey
<1> QED
    BY <1>1 DEF Bound

LEMMA BoundValueNext == RegistryInv' => BoundIs'
BY BoundValue, PTL

\* The key of a call, in the execution's own steps.
LEMMA ExecutionKey ==
    ASSUME Placed, NEW c \in Call, pc[c] \in ExecutionPlaces
    PROVE  Recording(c) /\ role[c].key \in Key /\ role[c].exec \in Exec
BY RoleKinds DEF Placed, Recording

\* Bindings change in Fills only.
LEMMA BindingsKept ==
    ASSUME RegistryInv, RegistryInv', [Next]_vars, \A c \in Call : ~Fills(c)
    PROVE  RBound' = RBound
<1> SUFFICES ASSUME NEW k \in Key PROVE Bound(k)' = Bound(k)
    BY DEF RBound
<1>1. BoundIs /\ BoundIs'
    BY BoundValue, BoundValueNext
<1>2. /\ reservation'[k] \in Exec <=> reservation[k] \in Exec
      /\ reservation[k] \in Exec => reservation'[k] = reservation[k]
    <2>1. CASE UNCHANGED reservation
        BY <2>1
    <2>2. ASSUME NEW c \in Call, Reserves(c)
          PROVE  /\ reservation'[k] \in Exec <=> reservation[k] \in Exec
                 /\ reservation[k] \in Exec => reservation'[k] = reservation[k]
        <3>1. role[c].key \in Key
            BY <2>2, ExecutionKey DEF RegistryInv, Reserves, Moves, ExecutionPlaces
        <3> QED
            BY <2>2, <3>1, Distinct DEF RegistryInv, Filed, Reserves
    <2> QED
        BY <2>1, <2>2 DEF Next, ExecutionStep, Asks, Finds, FindsNone, FindsTorn, FindsReserved,
              FindsEmpty, LooksUp, OpensLedger, EntersLedger, executionVars, vars
<1>3. reservation[k] \notin Exec => \A e \in Exec : ledger'[e] = k <=> ledger[e] = k
    <2>1. CASE UNCHANGED ledger
        BY <2>1
    <2>2. ASSUME NEW c \in Call, OpensLedger(c) \/ EntersLedger(c)
          PROVE  reservation[k] \notin Exec => \A e \in Exec : ledger'[e] = k <=> ledger[e] = k
        BY <2>2, LedgersOfOthers DEF RegistryInv
    <2> QED
        BY <2>1, <2>2 DEF Next, ExecutionStep, Asks, Finds, FindsNone, FindsTorn, FindsReserved,
              FindsEmpty, LooksUp, Reserves, Fills, executionVars, vars
<1>4. CASE reservation[k] \in Exec
    BY <1>1, <1>2, <1>4 DEF BoundIs
<1>5. ASSUME reservation[k] \notin Exec, NEW e \in Exec, ledger[e] = k
      PROVE  Bound(k)' = Bound(k)
    BY <1>1, <1>2, <1>3, <1>5 DEF BoundIs
<1>6. CASE reservation[k] \notin Exec /\ \A e \in Exec : ledger[e] # k
    BY <1>1, <1>2, <1>3, <1>6 DEF BoundIs
<1> QED
    BY <1>4, <1>5, <1>6

\* Filling a reservation binds a key that was not bound, and leaves one that was.
LEMMA FillBinds ==
    ASSUME RegistryInv, RegistryInv', NEW c \in Call, Fills(c)
    PROVE  /\ Bound(role[c].key) = found[c]
           /\ RBound' = [RBound EXCEPT ![role[c].key] = Wanted(c)]
<1>0. PICK k \in Key : k = role[c].key
    BY ExecutionKey DEF RegistryInv, Fills, Moves, ExecutionPlaces
<1>1. /\ pc[c] = "fill" /\ UNCHANGED ledger
      /\ Recording(c) /\ role[c].exec \in Exec
    BY ExecutionKey DEF RegistryInv, Fills, Moves, ExecutionPlaces
<1>2. Wanted(c) \in Exec /\ found[c] \in Exec \union {None}
    BY <1>1 DEF RegistryInv, Filed, Wanted
<1>3. /\ reservation[k] \notin Exec
      /\ reservation' = [reservation EXCEPT ![k] = Wanted(c)]
    BY <1>0, <1>1, Distinct DEF RegistryInv, Registered, Filling, Fills
<1>4. \A e \in Exec : ledger[e] = k <=> e = found[c]
    BY <1>0, <1>1, <1>3 DEF RegistryInv, Registered, Scanned
<1>5. BoundIs /\ BoundIs'
    BY BoundValue, BoundValueNext
<1>6. Bound(k) = found[c]
    <2>1. CASE found[c] \in Exec
        BY <1>1, <1>3, <1>4, <1>5, <2>1 DEF BoundIs
    <2>2. CASE found[c] = None
        BY <1>1, <1>3, <1>4, <1>5, <2>2, Distinct DEF BoundIs
    <2> QED
        BY <1>2, <2>1, <2>2
<1>7. Bound(k)' = Wanted(c)
    <2>1. reservation'[k] = Wanted(c)
        BY <1>1, <1>3 DEF RegistryInv, Filed
    <2> QED
        BY <1>1, <1>2, <1>5, <2>1 DEF BoundIs
<1>8. ASSUME NEW j \in Key, j # k
      PROVE  Bound(j)' = Bound(j)
    <2>1. reservation'[j] = reservation[j]
        BY <1>3, <1>8 DEF RegistryInv, Filed
    <2>2. CASE reservation[j] \in Exec
        BY <1>5, <2>1, <2>2 DEF BoundIs
    <2>3. ASSUME reservation[j] \notin Exec, NEW e \in Exec, ledger[e] = j
          PROVE  Bound(j)' = Bound(j)
        BY <1>1, <1>5, <2>1, <2>3 DEF BoundIs
    <2>4. CASE reservation[j] \notin Exec /\ \A e \in Exec : ledger[e] # j
        BY <1>1, <1>5, <2>1, <2>4 DEF BoundIs
    <2> QED
        BY <2>2, <2>3, <2>4
<1>9. RBound' = [RBound EXCEPT ![k] = Wanted(c)]
    BY <1>7, <1>8 DEF RBound
<1> QED
    BY <1>0, <1>6, <1>9

\* A step that leaves a call's role alone leaves its request alone.
LEMMA RequestsKept ==
    ASSUME UNCHANGED role
    PROVE  RRequest' = RRequest
BY DEF RRequest, Requested, Recording

\* What a step of call c does to its answer.
LEMMA AnswerStep ==
    ASSUME Placed, NEW c \in Call, Recording(c), UNCHANGED role,
           NEW w, pc' = [pc EXCEPT ![c] = w], pc[c] \notin Ended
    PROVE  /\ RAnswer[c] = "none"
           /\ w = "done" => RAnswer' = [RAnswer EXCEPT ![c] = "recorded"]
           /\ w = "refused" => RAnswer' = [RAnswer EXCEPT ![c] = "refused"]
           /\ w \in {"failed", "gone", "cut off"} => RAnswer' = [RAnswer EXCEPT ![c] = "gave up"]
           /\ w \notin Ended => RAnswer' = RAnswer
<1>1. role' = role /\ role[c] \in Execution
    BY DEF Recording
<1>2. pc'[c] = w /\ \A d \in Call \ {c} : pc'[d] = pc[d]
    BY DEF Placed
<1>3. \A d \in Call \ {c} : RAnswer'[d] = RAnswer[d]
    BY <1>1, <1>2 DEF RAnswer, Answered, Recording
<1>4. RAnswer[c] = "none"
    BY DEF RAnswer, Answered, Ended
<1>5. /\ w = "done" => RAnswer'[c] = "recorded"
      /\ w = "refused" => RAnswer'[c] = "refused"
      /\ w \in {"failed", "gone", "cut off"} => RAnswer'[c] = "gave up"
      /\ w \notin Ended => RAnswer'[c] = "none"
    BY <1>1, <1>2 DEF RAnswer, Answered, Ended, Recording
<1>6. RAnswer = [d \in Call |-> RAnswer[d]] /\ RAnswer' = [d \in Call |-> RAnswer'[d]]
    BY DEF RAnswer
<1> HIDE DEF RAnswer
<1>7. ASSUME NEW v, RAnswer'[c] = v
      PROVE  RAnswer' = [RAnswer EXCEPT ![c] = v]
    BY <1>3, <1>6, <1>7
<1>8. RAnswer'[c] = RAnswer[c] => RAnswer' = RAnswer
    BY <1>3, <1>6
<1> QED
    BY <1>4, <1>5, <1>7, <1>8

\* Steps of other calls leave the answers alone.
LEMMA AnswersKept ==
    ASSUME Placed, NEW c \in Call, ~Recording(c), ~Recording(c)',
           \A d \in Call \ {c} : pc'[d] = pc[d] /\ role'[d] = role[d]
    PROVE  RAnswer' = RAnswer /\ RRequest' = RRequest
<1>1. role[c] \notin Execution /\ role'[c] \notin Execution
    BY DEF Recording
<1>2. ASSUME NEW d \in Call
      PROVE  RAnswer'[d] = RAnswer[d] /\ RRequest'[d] = RRequest[d]
    <2>1. /\ d \in Call
          /\ \/ role[d] \notin Execution /\ role'[d] \notin Execution
             \/ role'[d] = role[d] /\ pc'[d] = pc[d]
        BY <1>1
    <2>2. RAnswer'[d] = RAnswer[d]
        <3>1. CASE role[d] \notin Execution /\ role'[d] \notin Execution
            BY <3>1 DEF RAnswer, Answered, Recording
        <3>2. CASE role'[d] = role[d] /\ pc'[d] = pc[d] /\ role[d] \in Execution
            BY <3>2 DEF RAnswer, Answered, Recording
        <3> QED
            BY <2>1, <3>1, <3>2
    <2>3. RRequest'[d] = RRequest[d]
        BY <2>1 DEF RRequest, Requested, Recording
    <2> QED
        BY <2>2, <2>3
<1>3. /\ RAnswer = [d \in Call |-> RAnswer[d]] /\ RAnswer' = [d \in Call |-> RAnswer'[d]]
      /\ RRequest = [d \in Call |-> RRequest[d]] /\ RRequest' = [d \in Call |-> RRequest'[d]]
    BY DEF RAnswer, RRequest
<1> QED
    BY <1>2, <1>3

RegistryVars == <<RBound, RRequest, RAnswer>>

\* The abstract actions, said of the abstract variables.
LEMMA Abstractly ==
    /\ \A c \in Call : RRequest[c] = Requested(c) /\ RAnswer[c] = Answered(c)
    /\ \A k \in Key : RBound[k] = Bound(k)
    /\ \A c \in Call : Recording(c) => Requested(c) \in [key : Key, exec : Exec]
    /\ \A c \in Call : Recording(c) =>
           Requested(c).key = role[c].key /\ Requested(c).exec = role[c].exec
BY RoleKinds DEF RRequest, RAnswer, RBound, Requested, Recording

LEMMA Recorded ==
    ASSUME NEW c \in Call, Recording(c), RAnswer[c] = "none",
           Bound(role[c].key) = role[c].exec,
           UNCHANGED <<RBound, RRequest>>, RAnswer' = [RAnswer EXCEPT ![c] = "recorded"]
    PROVE  Registry!Next
<1>1. role[c].key \in Key
    BY RoleKinds DEF Recording
<1>2. Registry!Record(c)
    BY Abstractly, <1>1 DEF Registry!Record, Registry!Pending, Registry!Request,
                            RBound, RRequest, RAnswer
<1> QED
    BY <1>2 DEF Registry!Next

LEMMA Refused ==
    ASSUME NEW c \in Call, Recording(c), RAnswer[c] = "none",
           Bound(role[c].key) \notin {None, role[c].exec},
           UNCHANGED <<RBound, RRequest>>, RAnswer' = [RAnswer EXCEPT ![c] = "refused"]
    PROVE  Registry!Next
<1>1. role[c].key \in Key
    BY RoleKinds DEF Recording
<1>2. Registry!Refuse(c)
    BY Abstractly, <1>1 DEF Registry!Refuse, Registry!Pending, Registry!Request,
                            RBound, RRequest, RAnswer
<1> QED
    BY <1>2 DEF Registry!Next

LEMMA GivenUp ==
    ASSUME NEW c \in Call, Recording(c), RAnswer[c] = "none",
           UNCHANGED <<RBound, RRequest>>, RAnswer' = [RAnswer EXCEPT ![c] = "gave up"]
    PROVE  Registry!Next
<1>1. Registry!GiveUp(c)
    BY Abstractly DEF Registry!GiveUp, Registry!Pending, Registry!Request,
                      RBound, RRequest, RAnswer
<1> QED
    BY <1>1 DEF Registry!Next

LEMMA Asked ==
    ASSUME RegistryInv, RegistryInv', NEW c \in Call, Asks(c)
    PROVE  Registry!Next
<1>1. PICK r \in Execution : role' = [role EXCEPT ![c] = r]
    BY DEF Asks
<1>2. /\ pc[c] = "idle" /\ role[c] = Idle /\ role'[c] = r
      /\ pc'[c] = "scan"
      /\ \A d \in Call \ {c} : role'[d] = role[d] /\ pc'[d] = pc[d]
    BY <1>1 DEF Asks, Become, RegistryInv, Placed
<1>3. RBound' = RBound
    BY DEF Asks, executionVars, RBound, Bound
<1>4. ~Recording(c) /\ role'[c] \in Execution
    BY <1>2, RoleKinds DEF Recording
<1>5. RAnswer' = RAnswer
    <2>1. ASSUME NEW d \in Call PROVE Answered(d)' = Answered(d)
        <3>1. CASE d = c
            BY <1>2, <1>4, <3>1 DEF Answered, Recording, Ended
        <3>2. CASE d # c
            BY <1>2, <3>2 DEF Answered, Recording
        <3> QED
            BY <3>1, <3>2
    <2> QED
        BY <2>1 DEF RAnswer
<1>6. RRequest' = [RRequest EXCEPT ![c] = [key |-> r.key, exec |-> r.exec]]
    <2>1. ASSUME NEW d \in Call
          PROVE  Requested(d)' = IF d = c THEN [key |-> r.key, exec |-> r.exec]
                                 ELSE Requested(d)
        <3>1. CASE d = c
            BY <1>2, <1>4, <3>1 DEF Requested, Recording
        <3>2. CASE d # c
            BY <1>2, <3>2 DEF Requested, Recording
        <3> QED
            BY <3>1, <3>2
    <2> QED
        BY <2>1 DEF RRequest
<1>7. [key |-> r.key, exec |-> r.exec] \in [key : Key, exec : Exec]
    BY RoleKinds
<1>8. RRequest[c] = None
    BY <1>4 DEF RRequest, Requested
<1>9. Registry!Ask(c)
    BY <1>3, <1>5, <1>6, <1>7, <1>8 DEF Registry!Ask, Registry!Request,
                                        RBound, RRequest, RAnswer
<1> QED
    BY <1>9 DEF Registry!Next

\* Filling a reservation: the key is bound to the execution asked for, or the call
\* is refused because an older ledger has bound it.
LEMMA Filled ==
    ASSUME RegistryInv, RegistryInv', NEW c \in Call, Fills(c)
    PROVE  [Registry!Next]_RegistryVars
<1>1. /\ pc[c] = "fill" /\ UNCHANGED role
      /\ pc' = [pc EXCEPT ![c] = Verdict(c, Wanted(c))]
    BY DEF Fills, Moves, Become
<1>2. /\ Recording(c) /\ role[c].key \in Key /\ role[c].exec \in Exec
      /\ found[c] \in Exec \union {None}
    BY <1>1, ExecutionKey DEF RegistryInv, ExecutionPlaces, Filed
<1>3. /\ Bound(role[c].key) = found[c]
      /\ RBound' = [RBound EXCEPT ![role[c].key] = Wanted(c)]
      /\ RBound[role[c].key] = found[c]
    BY FillBinds, <1>2 DEF RBound
<1>4. RRequest' = RRequest
    BY <1>1, RequestsKept
<1>5. pc[c] \notin Ended /\ RAnswer[c] = "none"
    BY <1>1 DEF Ended, RAnswer, Answered
<1>6. CASE found[c] = None
    <2>1. Wanted(c) = role[c].exec /\ pc' = [pc EXCEPT ![c] = "look up"]
        BY <1>1, <1>6 DEF Wanted, Verdict
    <2>2. RAnswer' = RAnswer
        BY <1>1, <1>2, <1>5, <2>1, AnswerStep DEF RegistryInv, Ended
    <2>3. Registry!Bind(c)
        BY <1>2, <1>3, <1>4, <1>5, <1>6, <2>1, <2>2, Abstractly
           DEF Registry!Bind, Registry!Pending, Registry!Request, RBound, RRequest, RAnswer
    <2> QED
        BY <2>3 DEF Registry!Next
<1>7. CASE found[c] # None
    <2>1. Wanted(c) = found[c] /\ found[c] \in Exec
        BY <1>2, <1>7 DEF Wanted
    <2>2. RBound' = RBound
        BY <1>2, <1>3, <2>1 DEF RBound
    <2>3. CASE found[c] = role[c].exec
        <3>1. pc' = [pc EXCEPT ![c] = "look up"]
            BY <1>1, <2>1, <2>3 DEF Verdict
        <3>2. RAnswer' = RAnswer
            BY <1>1, <1>2, <1>5, <3>1, AnswerStep DEF RegistryInv, Ended
        <3> QED
            BY <1>4, <2>2, <3>2 DEF RegistryVars
    <2>4. CASE found[c] # role[c].exec
        <3>1. pc' = [pc EXCEPT ![c] = "refused"]
            BY <1>1, <1>7, <2>1, <2>4 DEF Verdict
        <3>2. RAnswer' = [RAnswer EXCEPT ![c] = "refused"]
            BY <1>1, <1>2, <1>5, <3>1, AnswerStep DEF RegistryInv
        <3> QED
            BY <1>2, <1>3, <1>4, <1>5, <1>7, <2>2, <2>4, <3>2, Refused
    <2> QED
        BY <2>3, <2>4
<1> QED
    BY <1>6, <1>7

\* Any other step of a call that records an execution: it goes on, is refused by
\* another's reservation, fails, or returns owning its key.
LEMMA Moved ==
    ASSUME RegistryInv, NEW c \in Call, Recording(c), UNCHANGED <<role, RBound>>,
           NEW w, pc' = [pc EXCEPT ![c] = w], pc[c] \notin Ended,
           w = "done" => Bound(role[c].key) = role[c].exec,
           w = "refused" => Bound(role[c].key) \notin {None, role[c].exec}
    PROVE  [Registry!Next]_RegistryVars
<1>1. RRequest' = RRequest
    BY RequestsKept
<1>2. CASE w \notin Ended
    BY <1>1, <1>2, AnswerStep DEF RegistryInv, RegistryVars
<1>3. CASE w = "done"
    BY <1>1, <1>3, AnswerStep, Recorded DEF RegistryInv
<1>4. CASE w = "refused"
    BY <1>1, <1>4, AnswerStep, Refused DEF RegistryInv
<1>5. CASE w \in {"failed", "gone", "cut off"}
    BY <1>1, <1>5, AnswerStep, GivenUp DEF RegistryInv
<1> QED
    BY <1>2, <1>3, <1>4, <1>5 DEF Ended

LEMMA ExecutionRefines ==
    ASSUME RegistryInv, RegistryInv', NEW c \in Call, ExecutionStep(c)
    PROVE  [Registry!Next]_RegistryVars
<1>1. CASE Asks(c)
    BY <1>1, Asked
<1>2. CASE Fills(c)
    BY <1>2, Filled
<1>3. CASE ~Asks(c) /\ ~Fills(c)
    <2>1. PICK w \in (ExecutionPlaces \ {"scan"}) \union {"read", "failed", "refused"} :
              pc' = [pc EXCEPT ![c] = w]
        BY <1>3, ExecutionShape
    <2>2. pc[c] \in ExecutionPlaces /\ role' = role
        BY <1>3, ExecutionShape
    <2>3. Recording(c) /\ role[c].key \in Key /\ role[c].exec \in Exec
        BY <2>2, ExecutionKey DEF RegistryInv
    <2>4. \A d \in Call : ~Fills(d)
        <3>1. pc'[c] = w /\ pc[c] # "fill"
            BY <1>3, <2>1 DEF RegistryInv, Placed, ExecutionStep, Asks, Finds, FindsNone,
                  FindsTorn, Reserves, FindsReserved, FindsEmpty, LooksUp, OpensLedger,
                  EntersLedger, Moves
        <3>2. ASSUME NEW d \in Call, Fills(d) PROVE FALSE
            <4>1. pc[d] = "fill" /\ pc'[d] \in {"look up", "refused"}
                BY <3>2 DEF Fills, Moves, Become, Verdict, RegistryInv, Placed
            <4>2. d # c
                BY <3>1, <4>1
            <4> QED
                BY <2>1, <4>1, <4>2 DEF RegistryInv, Placed
        <3> QED
            BY <3>2
    <2>5. RBound' = RBound
        BY <2>4, BindingsKept DEF Next
    <2>6. pc[c] \notin Ended /\ w # "done"
        BY <2>1, <2>2 DEF ExecutionPlaces, Ended
    <2>7. ASSUME w = "refused"
          PROVE  Bound(role[c].key) \notin {None, role[c].exec}
        <3>1. FindsReserved(c)
            BY <1>3, <2>1, <2>7 DEF RegistryInv, Placed, ExecutionStep, Finds, FindsNone,
                  FindsTorn, Reserves, FindsEmpty, LooksUp, OpensLedger, EntersLedger,
                  Moves, Become
        <3>2. /\ pc[c] = "reserve" /\ reservation[role[c].key] \in Exec
              /\ Verdict(c, reservation[role[c].key]) = "refused"
            BY <2>1, <2>7, <3>1 DEF FindsReserved, Moves, Become, RegistryInv, Placed
        <3>3. found[c] \in {None, reservation[role[c].key]}
            BY <3>2 DEF RegistryInv, Registered, Scanned
        <3>4. reservation[role[c].key] # role[c].exec
            BY <3>2, <3>3 DEF Verdict
        <3>5. Bound(role[c].key) = reservation[role[c].key]
            BY <2>3, <3>2, BoundValue DEF BoundIs
        <3> QED
            BY <3>2, <3>4, <3>5, Distinct
    <2> QED
        BY <2>1, <2>2, <2>3, <2>5, <2>6, <2>7, Moved
<1> QED
    BY <1>1, <1>2, <1>3

LEMMA CycleRefines ==
    ASSUME RegistryInv, RegistryInv', NEW c \in Call, CycleStep(c), UNCHANGED executionVars
    PROVE  [Registry!Next]_RegistryVars
<1>1. RBound' = RBound
    BY DEF executionVars, RBound, Bound
<1>2. ASSUME pc[c] = "idle",
             NEW r \in CycleRole, role' = [role EXCEPT ![c] = r],
             NEW w \in {"look", "decide", "read"}, pc' = [pc EXCEPT ![c] = w]
      PROVE  UNCHANGED RegistryVars
    <2>1. role[c] = Idle /\ role'[c] = r
        BY <1>2 DEF RegistryInv, Placed
    <2>2. \A d \in Call \ {c} : pc'[d] = pc[d] /\ role'[d] = role[d]
        BY <1>2 DEF RegistryInv, Placed
    <2>3. ~Recording(c) /\ ~(role'[c] \in Execution)
        BY <2>1, RoleKinds DEF Recording
    <2>4. RAnswer' = RAnswer /\ RRequest' = RRequest
        BY <2>2, <2>3, AnswersKept DEF RegistryInv, Recording
    <2> QED
        BY <1>1, <2>4 DEF RegistryVars
<1>3. ASSUME role' = role, NEW w, pc' = [pc EXCEPT ![c] = w], CycleMove(pc[c], w)
      PROVE  [Registry!Next]_RegistryVars
    <2>1. CASE ~Recording(c)
        <3>1. \A d \in Call \ {c} : pc'[d] = pc[d] /\ role'[d] = role[d]
            BY <1>3 DEF RegistryInv, Placed
        <3>2. RAnswer' = RAnswer /\ RRequest' = RRequest
            BY <1>3, <2>1, <3>1, AnswersKept DEF RegistryInv, Recording
        <3> QED
            BY <1>1, <3>2 DEF RegistryVars
    <2>2. CASE Recording(c)
        <3>1. w # "refused" /\ pc[c] \notin Ended
            BY <1>3 DEF CycleMove, Ended
        <3>2. ASSUME w = "done" PROVE Bound(role[c].key) = role[c].exec
            <4>1. pc[c] \in {"read", "write"}
                BY <1>3, <2>2, <3>2 DEF CycleMove, RegistryInv, Placed
            <4>2. /\ reservation[role[c].key] = role[c].exec
                  /\ role[c].key \in Key /\ role[c].exec \in Exec
                BY <2>2, <4>1, RoleKinds DEF RegistryInv, Registered, Owned, Recording
            <4> QED
                BY <4>2, BoundValue DEF BoundIs
        <3> QED
            BY <1>1, <1>3, <2>2, <3>1, <3>2, Moved
    <2> QED
        BY <2>1, <2>2
<1> QED
    BY <1>2, <1>3, CycleShape

\* The calls implement the registry of idempotency keys, whatever calls overlap
\* and wherever they are killed.
THEOREM RegistryImplemented == Spec => RegistryRefined
<1>1. ASSUME Init PROVE Registry!Init
    <2>1. RegistryInv /\ BoundIs
        BY <1>1, RegistryInit, BoundValue
    <2>2. \A k \in Key : Bound(k) \in Exec \union {None}
        BY <2>1 DEF BoundIs
    <2>3. \A c \in Call : role[c] = Idle
        BY <1>1 DEF Init, CycleInit
    <2>4. \A c \in Call : Requested(c) = None /\ Answered(c) = "none"
        BY <2>3, RoleKinds DEF Requested, Answered, Recording
    <2> QED
        BY <2>2, <2>4 DEF Registry!Init
<1>2. ASSUME RegistryInv, RegistryInv', [Next]_vars
      PROVE  [Registry!Next]_RegistryVars
    <2>1. CASE UNCHANGED vars
        BY <2>1 DEF vars, cycleVars, executionVars, RegistryVars, RBound, RRequest, RAnswer,
                    Bound, Requested, Answered, Recording
    <2> QED
        BY <1>2, <2>1, ExecutionRefines, CycleRefines DEF Next
<1>3. RegistryVars = Registry!vars
    BY DEF RegistryVars, RBound, RRequest, RAnswer, Registry!vars
<1>4. ASSUME RegistryInv, RegistryInv', [Next]_vars
      PROVE  [Registry!Next]_(Registry!vars)
    BY <1>2, <1>3, <1>4 DEF RegistryVars, RBound, RRequest, RAnswer, Registry!vars
<1> QED
    BY <1>1, <1>4, RegistryInvariant, PTL DEF Spec, RegistryRefined, Registry!Spec

---------------------------------------------------------------------------
(* Ledgers that stay *)

\* An execution whose ledger was never written by two calls at one time: one call
\* at most is writing it, its ledger is as far as that call is, and a call that is
\* past the ledger has found its own key in it.
Settled ==
    \A c \in Call : Recording(c) /\ role[c].exec \notin tangled =>
        /\ pc[c] = "store" => ledger[role[c].exec] = "absent"
        /\ pc[c] = "enter" => ledger[role[c].exec] = "torn"
        /\ pc[c] \in {"store", "enter"} => \A d \in Call :
               /\ pc[d] \in {"store", "enter"} /\ Recording(d) /\ role[d].exec = role[c].exec
               => c = d
        /\ pc[c] \in {"read", "file", "open", "write", "done"} => ledger[role[c].exec] = role[c].key

\* A step that writes no ledger, of a call that does not come to write one.
LEMMA SettledKept ==
    ASSUME Placed, Settled, NEW c \in Call, UNCHANGED <<ledger, tangled>>,
           \A d \in Call \ {c} : pc'[d] = pc[d] /\ role'[d] = role[d],
           pc'[c] \notin {"store", "enter"},
           \/ ~(role'[c] \in Execution)
           \/ pc'[c] \notin {"read", "file", "open", "write", "done"}
           \/ role'[c] = role[c] /\ pc[c] \in {"read", "file", "open", "write"}
    PROVE  Settled'
<1> SUFFICES ASSUME NEW e \in Call, role'[e] \in Execution, role'[e].exec \notin tangled
             PROVE  /\ pc'[e] = "store" => ledger[role'[e].exec] = "absent"
                    /\ pc'[e] = "enter" => ledger[role'[e].exec] = "torn"
                    /\ pc'[e] \in {"store", "enter"} => \A d \in Call :
                           /\ pc'[d] \in {"store", "enter"} /\ role'[d] \in Execution
                           /\ role'[d].exec = role'[e].exec
                           => e = d
                    /\ pc'[e] \in {"read", "file", "open", "write", "done"}
                           => ledger[role'[e].exec] = role'[e].key
    BY DEF Settled, Recording
<1>1. CASE e = c
    BY <1>1 DEF Settled, Recording
<1>2. CASE e # c
    <2>1. pc'[e] = pc[e] /\ role'[e] = role[e]
        BY <1>2
    <2>2. \A d \in Call : pc'[d] \in {"store", "enter"} => pc[d] = pc'[d] /\ role[d] = role'[d]
        OBVIOUS
    <2> QED
        BY <2>1, <2>2 DEF Settled, Recording
<1> QED
    BY <1>1, <1>2

LEMMA SettledNext ==
    ASSUME Placed, Filed, Settled, [Next]_vars
    PROVE  Settled'
<1>1. CASE UNCHANGED vars
    BY <1>1 DEF vars, cycleVars, executionVars, Settled, Recording
<1>2. ASSUME NEW c \in Call, CycleStep(c), UNCHANGED executionVars
      PROVE  Settled'
    <2>1. ASSUME pc[c] = "idle",
                 NEW r \in CycleRole, role' = [role EXCEPT ![c] = r],
                 NEW w \in {"look", "decide", "read"}, pc' = [pc EXCEPT ![c] = w]
          PROVE  Settled'
        <3>1. /\ role'[c] \notin Execution /\ pc'[c] = w
              /\ \A d \in Call \ {c} : pc'[d] = pc[d] /\ role'[d] = role[d]
            BY <2>1, RoleKinds DEF Placed
        <3> QED
            BY <1>2, <3>1, SettledKept DEF executionVars
    <2>2. ASSUME role' = role, NEW w, pc' = [pc EXCEPT ![c] = w], CycleMove(pc[c], w)
          PROVE  Settled'
        <3>1. /\ pc'[c] = w /\ w \notin {"store", "enter"}
              /\ w \in {"read", "file", "open", "write", "done"} /\ Recording(c)
                    => pc[c] \in {"read", "file", "open", "write"}
              /\ \A d \in Call \ {c} : pc'[d] = pc[d] /\ role'[d] = role[d]
            BY <2>2 DEF CycleMove, Placed
        <3> QED
            BY <1>2, <2>2, <3>1, SettledKept DEF executionVars, Recording
    <2> QED
        BY <1>2, <2>1, <2>2, CycleShape
<1>3. ASSUME NEW c \in Call, ExecutionStep(c)
      PROVE  Settled'
    <2>1. CASE Asks(c)
        <3>1. /\ pc'[c] = "scan"
              /\ \A d \in Call \ {c} : pc'[d] = pc[d] /\ role'[d] = role[d]
            BY <2>1 DEF Asks, Become, Placed
        <3> QED
            BY <2>1, <3>1, SettledKept DEF Asks, executionVars
    <2>2. CASE Finds(c) \/ FindsNone(c) \/ FindsTorn(c) \/ Reserves(c) \/ Fills(c)
               \/ FindsReserved(c) \/ FindsEmpty(c)
        <3>1. /\ pc'[c] \in {"reserve", "failed", "fill", "look up", "refused"}
              /\ UNCHANGED <<ledger, tangled>>
              /\ \A d \in Call \ {c} : pc'[d] = pc[d] /\ role'[d] = role[d]
            BY <2>2 DEF Finds, FindsNone, FindsTorn, Reserves, Fills, FindsReserved,
                        FindsEmpty, Moves, Become, Verdict, Placed, executionVars
        <3> QED
            BY <3>1, SettledKept
    <2>3. CASE LooksUp(c)
        <3>1. /\ pc[c] = "look up" /\ role' = role /\ ledger' = ledger /\ Recording(c)
              /\ \A d \in Call \ {c} : pc'[d] = pc[d]
            BY <2>3 DEF LooksUp, Moves, Become, Placed, ExecutionPlaces
        <3>2. \/ pc'[c] = "store" /\ ledger[role[c].exec] = "absent"
              \/ pc'[c] = "read" /\ ledger[role[c].exec] = role[c].key
              \/ pc'[c] = "failed"
            BY <2>3 DEF LooksUp, Moves, Become, Placed
        <3>3. /\ tangled \subseteq tangled'
              /\ /\ pc'[c] = "store"
                 /\ \E d \in Call : pc[d] = "store" /\ role[d].exec = role[c].exec
                 => role[c].exec \in tangled'
            <4>1. pc'[c] = "store" => ledger[role[c].exec] = "absent"
                BY <3>2
            <4>2. tangled' = IF ledger[role[c].exec] = "absent"
                                /\ \E d \in Call : pc[d] = "store"
                                                /\ role[d].exec = role[c].exec
                             THEN tangled \union {role[c].exec} ELSE tangled
                BY <2>3 DEF LooksUp
            <4> QED
                BY <4>1, <4>2
        <3>4. SUFFICES ASSUME NEW e \in Call, role[e] \in Execution, role[e].exec \notin tangled'
              PROVE  /\ pc'[e] = "store" => ledger[role[e].exec] = "absent"
                     /\ pc'[e] = "enter" => ledger[role[e].exec] = "torn"
                     /\ pc'[e] \in {"store", "enter"} => \A d \in Call :
                            /\ pc'[d] \in {"store", "enter"} /\ role[d] \in Execution
                            /\ role[d].exec = role[e].exec
                            => e = d
                     /\ pc'[e] \in {"read", "file", "open", "write", "done"}
                            => ledger[role[e].exec] = role[e].key
            BY <3>1 DEF Settled, Recording
        <3>5. role[e].exec \notin tangled
            BY <3>3, <3>4
        <3>6. ASSUME NEW d \in Call, d # c, role[d] \in Execution, role[c].exec \notin tangled',
                     role[d].exec = role[c].exec, pc'[c] = "store"
              PROVE  pc[d] \notin {"store", "enter"}
            <4>1. pc[d] # "store"
                BY <3>3, <3>6
            <4>2. pc[d] # "enter"
                BY <3>2, <3>3, <3>6 DEF Settled, Recording
            <4> QED
                BY <4>1, <4>2
        <3>7. CASE e = c
            BY <3>1, <3>2, <3>4, <3>6, <3>7
        <3>8. CASE e # c
            <4>1. pc'[e] = pc[e]
                BY <3>1, <3>8
            <4>2. pc[e] \in {"store", "enter"} /\ pc'[c] = "store" => role[e].exec # role[c].exec
                BY <3>4, <3>6, <3>8
            <4>3. pc'[c] # "enter"
                BY <3>2
            <4>4. /\ pc[e] = "store" => ledger[role[e].exec] = "absent"
                  /\ pc[e] = "enter" => ledger[role[e].exec] = "torn"
                  /\ pc[e] \in {"read", "file", "open", "write", "done"}
                         => ledger[role[e].exec] = role[e].key
                BY <3>4, <3>5 DEF Settled, Recording
            <4>5. ASSUME pc[e] \in {"store", "enter"}, NEW d \in Call,
                         pc'[d] \in {"store", "enter"}, role[d] \in Execution,
                         role[d].exec = role[e].exec
                  PROVE  e = d
                <5>1. d # c
                    BY <4>2, <4>3, <4>5
                <5> QED
                    BY <3>1, <3>4, <3>5, <4>5, <5>1 DEF Settled, Recording
            <4> QED
                BY <4>1, <4>4, <4>5
        <3> QED
            BY <3>7, <3>8
    <2>4. CASE OpensLedger(c) \/ EntersLedger(c)
        <3>1. /\ Recording(c) /\ role[c].exec \in Exec /\ role' = role /\ tangled' = tangled
              /\ \A d \in Call \ {c} : pc'[d] = pc[d]
              /\ \/ pc[c] = "store" /\ pc'[c] = "enter" /\ ledger'[role[c].exec] = "torn"
                 \/ /\ pc[c] = "enter" /\ pc'[c] = "read"
                    /\ ledger'[role[c].exec] = role[c].key
              /\ \A x \in Exec \ {role[c].exec} : ledger'[x] = ledger[x]
            BY <2>4, ExecutionKey DEF OpensLedger, EntersLedger, Moves, Become, Placed, Filed,
                                      ExecutionPlaces
        <3>2. SUFFICES ASSUME NEW e \in Call, role[e] \in Execution, role[e].exec \notin tangled
              PROVE  /\ pc'[e] = "store" => ledger'[role[e].exec] = "absent"
                     /\ pc'[e] = "enter" => ledger'[role[e].exec] = "torn"
                     /\ pc'[e] \in {"store", "enter"} => \A d \in Call :
                            /\ pc'[d] \in {"store", "enter"} /\ role[d] \in Execution
                            /\ role[d].exec = role[e].exec
                            => e = d
                     /\ pc'[e] \in {"read", "file", "open", "write", "done"}
                            => ledger'[role[e].exec] = role[e].key
            BY <3>1 DEF Settled, Recording
        <3>3. \A d \in Call : pc'[d] \in {"store", "enter"} => pc[d] \in {"store", "enter"}
            BY <3>1
        <3>4. pc'[e] \in {"store", "enter"} => \A d \in Call :
                  /\ pc'[d] \in {"store", "enter"} /\ role[d] \in Execution
                  /\ role[d].exec = role[e].exec
                  => e = d
            BY <3>2, <3>3 DEF Settled, Recording
        <3>5. CASE e = c
            BY <3>1, <3>4, <3>5
        <3>6. CASE e # c /\ role[e].exec = role[c].exec
            <4>1. pc[e] \notin {"store", "enter"}
                BY <3>1, <3>2, <3>6 DEF Settled, Recording
            <4>2. pc[e] \notin {"read", "file", "open", "write", "done"}
                BY <3>1, <3>2, <3>6, Distinct, RoleKinds DEF Settled, Recording
            <4> QED
                BY <3>1, <3>6, <4>1, <4>2
        <3>7. CASE e # c /\ role[e].exec # role[c].exec
            <4>1. role[e].exec \in Exec
                BY <3>2, RoleKinds
            <4>2. ledger'[role[e].exec] = ledger[role[e].exec] /\ pc'[e] = pc[e]
                BY <3>1, <3>7, <4>1
            <4> QED
                BY <3>2, <3>4, <4>2 DEF Settled, Recording
        <3> QED
            BY <3>5, <3>6, <3>7
    <2> QED
        BY <1>3, <2>1, <2>2, <2>3, <2>4 DEF ExecutionStep
<1> QED
    BY <1>1, <1>2, <1>3 DEF Next

\* An execution that was answered keeps its ledger, unless two calls wrote it at
\* one time.
THEOREM AnswersKeepLedgers == Spec => []AnsweredIsKept
<1>1. Init => Settled
    BY RoleKinds DEF Init, CycleInit, Settled, Recording
<1>2. RegistryInv /\ Settled /\ [Next]_vars => Settled'
    BY SettledNext DEF RegistryInv
<1>3. Settled => AnsweredIsKept
    BY DEF Settled, AnsweredIsKept
<1> QED
    BY RegistryInvariant, <1>1, <1>2, <1>3, PTL DEF Spec
================================================================================
