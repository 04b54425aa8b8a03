--------------------------- MODULE SchedulerExecution ---------------------------
(***************************************************************************)
(* record_phase5_scheduler_execution_ledger (autonomous_flow.py and        *)
(* scheduler_execution_artifact_store.py) beside the other calls on the    *)
(* same cycle.  The call looks through all execution ledgers for its       *)
(* idempotency key, takes the key's reservation file with O_EXCL, writes   *)
(* its execution's ledger and adds an event to the cycle's ledger.  The    *)
(* reservation file is empty from its creation to its write and an         *)
(* execution's ledger is torn from its opening to its write; a reader of   *)
(* either raises, and a crash leaves it so for good.                       *)
(*                                                                         *)
(* The scan of the ledgers is one step: it lists the directory first, so   *)
(* what it reads is what was there then, or later.  A ledger may have been *)
(* written before reservations existed.                                    *)
(***************************************************************************)
EXTENDS CycleLedger

CONSTANTS Key, Exec, None

ASSUME Distinct == /\ None \notin Exec \union Key \union [key : Key, exec : Exec]
                   /\ {"absent", "empty", "torn"} \intersect (Exec \union Key \union {None}) = {}

VARIABLES
    reservation,    \* each key's reservation: "absent", "empty" or an execution
    ledger,         \* each execution's ledger: "absent", "torn" or its key
    found,          \* the execution each call's scan has found for its key
    tangled         \* history: executions whose ledger two calls wrote at one time

executionVars == <<reservation, ledger, found, tangled>>
vars == <<cycleVars, executionVars>>

Execution == [kind : {"execution"}, key : Key, exec : Exec]
Recording(c) == role[c] \in Execution

\* The execution a key stands for: the one reserved, else the one of a ledger
\* that is older than reservations.
Bound(k) ==
    IF reservation[k] \in Exec THEN reservation[k]
    ELSE IF \E e \in Exec : ledger[e] = k THEN CHOOSE e \in Exec : ledger[e] = k
    ELSE None

Init ==
    /\ CycleInit
    /\ reservation = [k \in Key |-> "absent"]
    /\ ledger \in {f \in [Exec -> Key \union {"absent"}] :
                      \A e1, e2 \in Exec : f[e1] = f[e2] => e1 = e2 \/ f[e1] = "absent"}
    /\ found = [c \in Call |-> None]
    /\ tangled = {}

Asks(c) ==
    /\ pc[c] = "idle"
    /\ \E r \in Execution : role' = [role EXCEPT ![c] = r]
    /\ Become(c, "scan")
    /\ UNCHANGED <<cycle, artifacts, seen, decided, raced, executionVars>>

\* A step of the execution ledger that leaves the cycle's alone.
Moves(c, from, to) ==
    /\ pc[c] = from
    /\ Become(c, to)
    /\ UNCHANGED <<cycle, artifacts, role, seen, decided, raced>>

\* find_phase5_scheduler_execution_ledger_by_idempotency_key
Finds(c) ==
    /\ Moves(c, "scan", "reserve")
    /\ \E e \in Exec : ledger[e] = role[c].key /\ found' = [found EXCEPT ![c] = e]
    /\ UNCHANGED <<reservation, ledger, tangled>>

FindsNone(c) ==
    /\ Moves(c, "scan", "reserve")
    /\ \A e \in Exec : ledger[e] \notin {role[c].key, "torn"}
    /\ UNCHANGED executionVars

FindsTorn(c) ==
    /\ Moves(c, "scan", "failed")
    /\ \E e \in Exec : ledger[e] = "torn"
    /\ UNCHANGED executionVars

\* Mutant of Wanted: the ledger that was found is not looked at.
MutantWanted(c) == role[c].exec

\* The execution a call reserves its key for.
Wanted(c) == IF found[c] = None THEN role[c].exec ELSE found[c]

\* create_phase5_scheduler_execution_reservation_artifact: O_CREAT | O_EXCL ...
Reserves(c) ==
    /\ Moves(c, "reserve", "fill")
    /\ reservation[role[c].key] = "absent"
    /\ reservation' = [reservation EXCEPT ![role[c].key] = "empty"]
    /\ UNCHANGED <<ledger, found, tangled>>

\* Mutant of Verdict: the reservation is not compared.
MutantVerdict(c, reserved) ==
    IF found[c] \in {None, role[c].exec} THEN "look up" ELSE "refused"

\* Both tests for a conflict: with the ledger found and with the reservation.
Verdict(c, reserved) ==
    IF {found[c], reserved} \subseteq {None, role[c].exec} THEN "look up" ELSE "refused"

\* ... and write.
Fills(c) ==
    /\ Moves(c, "fill", Verdict(c, Wanted(c)))
    /\ reservation' = [reservation EXCEPT ![role[c].key] = Wanted(c)]
    /\ UNCHANGED <<ledger, found, tangled>>

\* _read_existing_reservation_or_fail_closed
FindsReserved(c) ==
    /\ Moves(c, "reserve", Verdict(c, reservation[role[c].key]))
    /\ reservation[role[c].key] \in Exec
    /\ UNCHANGED executionVars

FindsEmpty(c) ==
    /\ Moves(c, "reserve", "failed")
    /\ reservation[role[c].key] = "empty"
    /\ UNCHANGED executionVars

\* Mutant of LooksUp: the ledger is written again for each retry.
MutantLooksUp(c) ==
    /\ Moves(c, "look up", "store")
    /\ UNCHANGED executionVars

\* read_phase5_scheduler_execution_ledger_artifact_if_exists
LooksUp(c) ==
    LET own == ledger[role[c].exec]
    IN  /\ pc[c] = "look up"
        /\ Moves(c, "look up", IF own = "absent" THEN "store"
                               ELSE IF own = role[c].key THEN "read"
                               ELSE "failed")
        /\ tangled' = IF own = "absent" /\ \E d \in Call : pc[d] = "store"
                                                          /\ role[d].exec = role[c].exec
                      THEN tangled \union {role[c].exec} ELSE tangled
        /\ UNCHANGED <<reservation, ledger, found>>

\* write_phase5_scheduler_execution_ledger_artifact: open with "w" ...
OpensLedger(c) ==
    /\ Moves(c, "store", "enter")
    /\ ledger' = [ledger EXCEPT ![role[c].exec] = "torn"]
    /\ UNCHANGED <<reservation, found, tangled>>

\* Mutant of EntersLedger: the two identifiers are swapped.
MutantEntersLedger(c) ==
    /\ Moves(c, "enter", "read")
    /\ ledger' = [ledger EXCEPT ![role[c].exec] = role[c].exec]
    /\ UNCHANGED <<reservation, found, tangled>>

\* ... and write.
EntersLedger(c) ==
    /\ Moves(c, "enter", "read")
    /\ ledger' = [ledger EXCEPT ![role[c].exec] = role[c].key]
    /\ UNCHANGED <<reservation, found, tangled>>

ExecutionStep(c) ==
    \/ Asks(c) \/ Finds(c) \/ FindsNone(c) \/ FindsTorn(c) \/ Reserves(c) \/ Fills(c)
    \/ FindsReserved(c) \/ FindsEmpty(c) \/ LooksUp(c) \/ OpensLedger(c) \/ EntersLedger(c)

Next == \E c \in Call : ExecutionStep(c) \/ (CycleStep(c) /\ UNCHANGED executionVars)

Spec == Init /\ [][Next]_vars

---------------------------------------------------------------------------
(* Properties *)

\* The state has its shape.
TypeOK ==
    /\ cycle \in Cycle \union {Absent, Torn}
    /\ artifacts \subseteq Artifact
    /\ pc \in [Call -> Ended \union Working \union
                       {"idle", "look", "decide", "read", "scan", "reserve", "fill",
                        "look up", "store", "enter"}]
    /\ role \in [Call -> CycleRole \union Execution \union {Idle}]
    /\ seen \in [Call -> Cycle \union {NoCopy}]
    /\ decided \in [Call -> Decision \union {Undecided}]
    /\ raced \in BOOLEAN
    /\ reservation \in [Key -> Exec \union {"absent", "empty"}]
    /\ ledger \in [Exec -> Key \union {"absent", "torn"}]
    /\ found \in [Call -> Exec \union {None}]
    /\ tangled \subseteq Exec

\* An idempotency key never has the ledgers of two executions, however the calls
\* overlap and wherever they are killed (TRIAL_AF: no duplicate under concurrency
\* and replay after a crash).
OneExecutionPerKey ==
    \A e1, e2 \in Exec : ledger[e1] = ledger[e2] /\ ledger[e1] \in Key => e1 = e2

\* An execution whose call returned keeps the ledger it was answered with: no
\* later call or crash truncates or rewrites it.  Two calls that both found no
\* ledger before either wrote it void this (no lock, write_text).
AnsweredIsKept ==
    \A c \in Call : Recording(c) /\ pc[c] = "done" /\ role[c].exec \notin tangled
                       => ledger[role[c].exec] = role[c].key

\* As long as no two calls overlap on the cycle's ledger, and none was killed in
\* the middle of writing it, every artifact a finished call has recorded is still
\* referenced: by the ledger, or by what the call that is writing it writes.  A kill
\* there loses them all, where TRIAL_C_LEDGER_AND_PUBLISH_DECISION_CN.md:262 has an
\* atomic replacement; a kill anywhere else loses none.
RefsKept ==
    ~raced /\ (\A d \in Call : pc[d] # "cut off")
        => \A c \in Call : role[c] \in Producer /\ pc[c] = "done" =>
               \/ cycle \in Cycle /\ c \in cycle.refs
               \/ \E d \in Call : pc[d] = "write" /\ c \in Updated(d, seen[d]).refs

\* As long as no two calls overlap on a ledger that can be read, no closeout or
\* later ticket takes back a ticket that has blocked the cycle.
BlockedStays ==
    cycle \in Cycle /\ ~raced
    /\ (\E c \in Call : /\ role[c] = [kind |-> "ticket", result |-> "blocked"]
                         /\ pc[c] = "done")
        => cycle.status = "blocked"

\* Call c is a closeout and completes the cycle in this step.
Completes(c) == /\ role[c].kind = "closeout" /\ pc[c] = "write" /\ pc'[c] = "done"
                /\ cycle'.status = "completed"

\* A closeout that completes a cycle has a fresh projection on disk, and a gate
\* read-out of the one kind the planner completes on: its status does not block,
\* its next_action does, for all that the planner calls its inputs unblocked
\* (autonomous_flow_planner.py:146).  That is so whatever its caller names and
\* whatever calls overlap.  As long as none overlap, deciding on one copy of the
\* ledger and changing another, it leaves the publish verification if required and,
\* unless its caller names artifacts, these as the latest and no blocking ticket.
ClosesOnEvidence ==
    [][\A c \in Call : Completes(c) =>
          /\ [kind |-> "gate", result |-> "halt"] \in artifacts
          /\ [kind |-> "projection", result |-> "fresh"] \in artifacts
          /\ ~raced =>
                /\ decided[c].verified => cycle'.published
                /\ ~decided[c].named => /\ cycle'.gate = "halt"
                                     /\ cycle'.projection = "fresh"
                                     /\ cycle'.ticket # "blocked"]_vars

\* What a call asks the registry for, and how it is answered.
Requested(c) == IF Recording(c) THEN [key |-> role[c].key, exec |-> role[c].exec] ELSE None
Answered(c) == IF ~Recording(c) \/ pc[c] \notin Ended THEN "none"
               ELSE IF pc[c] = "done" THEN "recorded"
               ELSE IF pc[c] = "refused" THEN "refused"
               ELSE "gave up"

\* The calls implement the registry of idempotency keys: a key is bound once, a
\* call that returns or is refused has the right answer, and an empty or torn
\* file leads to no answer at all.
Registry == INSTANCE ExecutionRegistry WITH
    bound <- [k \in Key |-> Bound(k)],
    request <- [c \in Call |-> Requested(c)],
    answer <- [c \in Call |-> Answered(c)]

RegistryRefined == Registry!Spec
================================================================================
