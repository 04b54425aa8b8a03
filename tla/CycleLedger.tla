------------------------------ MODULE CycleLedger ------------------------------
(***************************************************************************)
(* The ledger file of one Phase 5 cycle (autonomous_flow.py) and the calls *)
(* that record something in it.  Every recorder reads the whole file,      *)
(* changes its copy and writes the whole file again with write_text, which *)
(* truncates it first; there is no lock.  A closeout reads the file twice: *)
(* the planner decides on the first copy, finish_phase5_cycle changes the  *)
(* second.  A recovery follow-up creates the file if it is not there.      *)
(*                                                                         *)
(* A call is made at most once, by a process of its own that may be killed *)
(* between any two steps, and writes an artifact file of its own between   *)
(* its read and its write of the ledger.  The ledger keeps the results of  *)
(* the latest gate, ticket and projection it names in place of their       *)
(* identifiers.  A closeout takes these, or the artifacts its caller names *)
(* (--gate-id and the like): any that is on disk, latest or not, named by  *)
(* the ledger or not.  The ledger's own next_action is left out: the       *)
(* planner never reads it.                                                 *)
(***************************************************************************)
EXTENDS Naturals

CONSTANTS
    Call,           \* calls that may overlap
    Kinds           \* the kinds of calls on the cycle that are made

VARIABLES
    cycle,          \* the ledger file: Absent, Torn (truncated) or its content
    artifacts,      \* the results of the cycle's artifact files
    pc,             \* where each call stands
    role,           \* what each call does
    seen,           \* the copy of the ledger that each call has read
    decided,        \* what the planner has decided for each closeout
    raced           \* history: two calls worked on the ledger at one time

cycleVars == <<cycle, artifacts, pc, role, seen, decided, raced>>

Cycle == [status : {"running", "degraded", "blocked", "completed"},
          gate : {"missing", "onward", "halt", "blocked"},
          ticket : {"missing", "resolved", "degraded", "blocked"},
          projection : {"missing", "fresh", "stale"},
          published : BOOLEAN,      \* publish_verification_ref
          event : BOOLEAN,          \* the scheduler execution event
          refs : SUBSET Call]       \* the calls whose artifact it names

Absent == [file |-> "absent"]
Torn == [file |-> "torn"]

\* start_phase5_cycle
Fresh == [status |-> "running", gate |-> "missing", ticket |-> "missing",
          projection |-> "missing", published |-> FALSE, event |-> FALSE, refs |-> {}]

\* The artifacts a closeout looks at.  A gate read-out has a gate_status and a
\* next_action, each of which may be "blocked" without the other: "blocked" is a
\* blocked status, "halt" the next_action alone, "onward" neither.
Artifact == [kind : {"gate"}, result : {"onward", "halt", "blocked"}] \union
            [kind : {"ticket"}, result : {"resolved", "degraded", "blocked"}] \union
            [kind : {"projection"}, result : {"fresh", "stale"}]

\* The recorders whose artifact the ledger names; record_phase5_artifact writes none.
Producer == Artifact \union [kind : {"artifact"}]

\* The other calls on a cycle.
CycleRole == Producer \union [kind : {"publish", "diagnostic", "followup", "closeout"}]

Idle == [kind |-> "none"]
NoCopy == [kind |-> "nothing read"]

\* The status a closeout is to give the cycle, with the arguments of its call: a
\* publish verification is required, the caller names artifacts.
Decision == [status : {"completed", "degraded", "blocked"},
             verified : BOOLEAN, named : BOOLEAN]
Undecided == [kind |-> "not decided"]

Ended == {"done", "refused", "failed", "gone", "cut off"}   \* killed: "gone" or "cut off"
Working == {"decided", "file", "open", "write"}     \* between the first read and the write

Become(c, where) == pc' = [pc EXCEPT ![c] = where]

---------------------------------------------------------------------------
(* The planner and the updates *)

\* Mutant of Plan: the status of the ledger is not looked at.
MutantPlan(cy, verified) ==
    IF "blocked" \in {cy.ticket, cy.gate} THEN "blocked"
    ELSE IF /\ cy.gate = "halt"
            /\ cy.projection = "fresh"
            /\ verified => cy.published
         THEN "completed"
    ELSE "degraded"

\* Mutant of Plan: a stale projection is as good as a fresh one.
HastyPlan(cy, verified) ==
    IF "blocked" \in {cy.status, cy.ticket, cy.gate} THEN "blocked"
    ELSE IF /\ cy.gate = "halt"
            /\ cy.projection # "missing"
            /\ verified => cy.published
         THEN "completed"
    ELSE "degraded"

\* plan_phase5_next_step with _closeout_args_for_decision.  The gate's next_action
\* decides last: all but "blocked" degrade the cycle, and "blocked" completes it.
Plan(cy, verified) ==
    IF "blocked" \in {cy.status, cy.ticket, cy.gate} THEN "blocked"
    ELSE IF /\ cy.gate = "halt"
            /\ cy.projection = "fresh"
            /\ verified => cy.published
         THEN "completed"
    ELSE "degraded"

\* _selected_ref_id and the read that follows: the latest of a family that the
\* ledger names or, when the caller names one, any on disk, and none for an
\* identifier that does not exist.
Selectable(kind, latest, named) ==
    {latest} \union IF named THEN {"missing"} \union {a.result : a \in {b \in artifacts : b.kind = kind}}
                    ELSE {}

\* resolve_phase5_runner_inputs: the ledger with the artifacts the planner is given.
Given(gate, ticket, projection) ==
    [cycle EXCEPT !.gate = gate, !.ticket = ticket, !.projection = projection]

\* _cycle_status_after_recovery
AfterRecovery(status, final) ==
    IF final = "blocked" \/ (final = "degraded" /\ status \notin {"blocked", "completed"})
    THEN final ELSE status

\* Mutant of Named: the references are replaced.
MutantNamed(c, cy) == [cy EXCEPT !.refs = {c}]

\* _append_unique of the artifact's id to the ledger's references.
Named(c, cy) == [cy EXCEPT !.refs = @ \union {c}]

\* What call c makes of its copy of the ledger.
Updated(c, cy) ==
    LET r == role[c]
    IN  CASE r.kind = "gate" -> [Named(c, cy) EXCEPT !.gate = r.result]
          [] r.kind = "ticket" -> [Named(c, cy) EXCEPT !.ticket = r.result,
                                                       !.status = AfterRecovery(@, r.result)]
          [] r.kind = "projection" -> [Named(c, cy) EXCEPT !.projection = r.result]
          [] r.kind = "artifact" -> Named(c, cy)
          [] r.kind = "publish" -> [cy EXCEPT !.published = TRUE]
          [] r.kind = "execution" -> [cy EXCEPT !.event = TRUE]
          [] r.kind = "closeout" -> [cy EXCEPT !.status = decided[c].status]
          [] r.kind = "followup" -> Fresh
          [] OTHER -> cy

---------------------------------------------------------------------------
(* Steps *)

\* Before the calls there is no cycle, or one with a gate read-out and a fresh projection.
CycleInit ==
    /\ \/ cycle = Absent /\ artifacts = {}
       \/ \E g \in {"onward", "halt"} :
             /\ cycle = [Fresh EXCEPT !.gate = g, !.projection = "fresh"]
             /\ artifacts = {[kind |-> "gate", result |-> g],
                             [kind |-> "projection", result |-> "fresh"]}
    /\ pc = [c \in Call |-> "idle"]
    /\ role = [c \in Call |-> Idle]
    /\ seen = [c \in Call |-> NoCopy]
    /\ decided = [c \in Call |-> Undecided]
    /\ raced = FALSE

\* Where a call that works on the cycle begins.
FirstStep(r) == CASE r.kind = "followup" -> "look"
                  [] r.kind = "closeout" -> "decide"
                  [] OTHER -> "read"

Begins(c) ==
    /\ pc[c] = "idle"
    /\ \E r \in {x \in CycleRole : x.kind \in Kinds} :
          /\ role' = [role EXCEPT ![c] = r]
          /\ Become(c, FirstStep(r))
    /\ UNCHANGED <<cycle, artifacts, seen, decided, raced>>

\* The call is over, and its local values with it.
Leaves(c, how) ==
    /\ Become(c, how)
    /\ seen' = [seen EXCEPT ![c] = NoCopy]
    /\ decided' = [decided EXCEPT ![c] = Undecided]

NoteRace(c) == raced' = (raced \/ \E d \in Call \ {c} : pc[d] \in Working)

\* A ledger that is not valid JSON raises in every reader.
ReadsTorn(c) ==
    /\ pc[c] \in {"look", "decide", "read"}
    /\ cycle = Torn
    /\ Become(c, "failed")
    /\ UNCHANGED <<cycle, artifacts, role, seen, decided, raced>>

\* apply_phase5_scheduler_recovery_followup_intent: already started.
FindsStarted(c) ==
    /\ pc[c] = "look"
    /\ cycle \in Cycle
    /\ Become(c, "done")
    /\ UNCHANGED <<cycle, artifacts, role, seen, decided, raced>>

\* The same, with no ledger there: start_phase5_cycle follows.
FindsNoCycle(c) ==
    /\ pc[c] = "look"
    /\ cycle = Absent
    /\ NoteRace(c)
    /\ seen' = [seen EXCEPT ![c] = Fresh]
    /\ Become(c, "open")
    /\ UNCHANGED <<cycle, artifacts, role, decided>>

\* run_phase5_local_cycle_service: resolve the inputs and plan.
Decides(c) ==
    /\ pc[c] = "decide"
    /\ cycle \in Cycle
    /\ NoteRace(c)
    /\ \E verified, named \in BOOLEAN :
       \E gate \in Selectable("gate", cycle.gate, named),
          ticket \in Selectable("ticket", cycle.ticket, named),
          projection \in Selectable("projection", cycle.projection, named) :
          decided' = [decided EXCEPT ![c] =
                         [status |-> Plan(Given(gate, ticket, projection), verified),
                          verified |-> verified, named |-> named]]
    /\ Become(c, "decided")
    /\ UNCHANGED <<cycle, artifacts, role, seen>>

\* The caller names an artifact that is torn, or another cycle's (_ensure_cycle_match).
Misnames(c) ==
    /\ pc[c] = "decide"
    /\ cycle \in Cycle
    /\ Become(c, "failed")
    /\ UNCHANGED <<cycle, artifacts, role, seen, decided, raced>>

\* Without a ledger a diagnostic and an execution are content, the rest raise.
MissesCycle(c) ==
    /\ pc[c] \in {"decide", "read"}
    /\ cycle = Absent
    /\ Become(c, IF role[c].kind \in {"diagnostic", "execution"} THEN "done" ELSE "failed")
    /\ UNCHANGED <<cycle, artifacts, role, seen, decided, raced>>

\* _require_cycle and read_phase5_cycle_ledger_artifact_if_exists.
Reads(c) ==
    /\ pc[c] \in {"read", "decided"}
    /\ cycle \in Cycle
    /\ ~(role[c].kind = "execution" /\ cycle.event)
    /\ IF pc[c] = "read" THEN NoteRace(c) ELSE UNCHANGED raced
    /\ seen' = [seen EXCEPT ![c] = cycle]
    /\ Become(c, IF role[c] \in Artifact THEN "file" ELSE "open")
    /\ UNCHANGED <<cycle, artifacts, role, decided>>

\* finish_phase5_cycle reads again and finds a ledger being written.
RereadsTorn(c) ==
    /\ pc[c] = "decided"
    /\ cycle = Torn
    /\ Leaves(c, "failed")
    /\ UNCHANGED <<cycle, artifacts, role, raced>>

\* _append_scheduler_execution_event_if_cycle_exists: the event is there already.
FindsEvent(c) ==
    /\ pc[c] = "read"
    /\ role[c].kind = "execution"
    /\ cycle \in Cycle
    /\ cycle.event
    /\ Become(c, "done")
    /\ UNCHANGED <<cycle, artifacts, role, seen, decided, raced>>

\* write_phase5_gate_readout_artifact and the like: the call's own file, whole
\* before the ledger is touched.  A file left torn reads as Misnames says.
Files(c) ==
    /\ pc[c] = "file"
    /\ artifacts' = artifacts \union {role[c]}
    /\ Become(c, "open")
    /\ UNCHANGED <<cycle, role, seen, decided, raced>>

\* write_text opens the file with "w" ...
OpensCycle(c) ==
    /\ pc[c] = "open"
    /\ cycle' = Torn
    /\ Become(c, "write")
    /\ UNCHANGED <<artifacts, role, seen, decided, raced>>

\* ... and writes it.
WritesCycle(c) ==
    /\ pc[c] = "write"
    /\ cycle' = Updated(c, seen[c])
    /\ Leaves(c, "done")
    /\ UNCHANGED <<artifacts, role, raced>>

\* The process ends between two steps; the files stay as they are.
Dies(c) ==
    /\ pc[c] \notin {"idle"} \union Ended
    /\ Leaves(c, IF pc[c] = "write" THEN "cut off" ELSE "gone")
    /\ UNCHANGED <<cycle, artifacts, role, raced>>

CycleStep(c) ==
    \/ Begins(c) \/ ReadsTorn(c) \/ FindsStarted(c) \/ FindsNoCycle(c) \/ Decides(c)
    \/ Misnames(c) \/ MissesCycle(c) \/ Reads(c) \/ RereadsTorn(c) \/ FindsEvent(c)
    \/ Files(c) \/ OpensCycle(c) \/ WritesCycle(c) \/ Dies(c)
================================================================================
