--------------------------- MODULE CycleLedger_proofs ---------------------------
(***************************************************************************)
(* Theorems about the cycle's ledger in SchedulerExecution, for any number *)
(* of calls: types, and what holds as long as no two calls overlap on it.  *)
(***************************************************************************)
EXTENDS SchedulerExecution_proofs

Verdicts == {"completed", "degraded", "blocked"}

\* The places of a call that has read its copy.
Copied == {"file", "open", "write"}

\* A call that works on the cycle has its copy, and a closeout its decision.
Equipped ==
    /\ cycle \in Cycle \union {Absent, Torn}
    /\ artifacts \subseteq Artifact
    /\ seen \in [Call -> Cycle \union {NoCopy}]
    /\ decided \in [Call -> Decision \union {Undecided}]
    /\ raced \in BOOLEAN
    /\ \A c \in Call : pc[c] \in Copied => seen[c] \in Cycle
    /\ \A c \in Call : pc[c] = "file" => role[c] \in Artifact
    /\ \A c \in Call : pc[c] = "look" => role[c] = [kind |-> "followup"]
    /\ \A c \in Call : pc[c] \in {"decide", "decided"} => role[c] = [kind |-> "closeout"]
    /\ \A c \in Call : pc[c] = "read" => role[c].kind \notin {"closeout", "followup"}
    /\ \A c \in Call : pc[c] \in {"decided", "open", "write"} /\ role[c].kind = "closeout"
                           => decided[c] \in Decision
    /\ \A c \in Call : pc[c] \in {"open", "write"} /\ role[c].kind = "followup"
                           => seen[c] = Fresh

---------------------------------------------------------------------------
(* Types *)

\* An absent and a torn ledger, and the copy of a call that has none, are no ledgers.
LEMMA NoLedgers == Absent \notin Cycle /\ Torn \notin Cycle /\ NoCopy \notin Cycle /\ Absent # Torn
<1>1. \A cy \in Cycle : DOMAIN cy = {"status", "gate", "ticket", "projection", "published",
                                     "event", "refs"}
    BY DEF Cycle
<1>2. DOMAIN Absent = {"file"} /\ DOMAIN Torn = {"file"} /\ DOMAIN NoCopy = {"kind"}
    BY DEF Absent, Torn, NoCopy
<1>3. Absent # Torn
    BY DEF Absent, Torn
<1>4. "status" \notin {"file"} /\ "status" \notin {"kind"}
    OBVIOUS
<1> QED
    BY <1>1, <1>2, <1>3, <1>4

LEMMA FreshType == Fresh \in Cycle
BY DEF Fresh, Cycle

LEMMA PlanType == ASSUME NEW cy, NEW v PROVE Plan(cy, v) \in Verdicts
BY DEF Plan, Verdicts

LEMMA ArtifactKinds == \A r \in Artifact : r.kind \in {"gate", "ticket", "projection"}
BY DEF Artifact

\* What the planner is given differs from the ledger in the artifacts only.
LEMMA GivenFacts ==
    ASSUME cycle \in Cycle, NEW g, NEW t, NEW p
    PROVE  /\ Given(g, t, p).status = cycle.status /\ Given(g, t, p).published = cycle.published
           /\ Given(g, t, p).gate = g /\ Given(g, t, p).ticket = t
           /\ Given(g, t, p).projection = p
BY DEF Given, Cycle

\* What a call writes is a ledger.
LEMMA UpdatedType ==
    ASSUME NEW c \in Call, NEW cy \in Cycle, role[c] \in Roles,
           role[c].kind = "closeout" => decided[c] \in Decision
    PROVE  Updated(c, cy) \in Cycle
<1>1. Named(c, cy) \in Cycle
    BY DEF Named, Cycle
<1>2. CASE role[c].kind = "gate"
    <2>1. role[c].result \in {"onward", "halt", "blocked"}
        BY <1>2 DEF Roles, CycleRole, Producer, Artifact, Execution, Idle
    <2>2. Updated(c, cy) = [Named(c, cy) EXCEPT !.gate = role[c].result]
        BY <1>2 DEF Updated
    <2> QED
        BY <1>1, <2>1, <2>2 DEF Cycle
<1>3. CASE role[c].kind = "ticket"
    <2>1. role[c].result \in {"resolved", "degraded", "blocked"}
        BY <1>3 DEF Roles, CycleRole, Producer, Artifact, Execution, Idle
    <2>2. Updated(c, cy) = [Named(c, cy) EXCEPT !.ticket = role[c].result,
                                !.status = AfterRecovery(Named(c, cy).status, role[c].result)]
        BY <1>3 DEF Updated
    <2>3. AfterRecovery(Named(c, cy).status, role[c].result)
              \in {"running", "degraded", "blocked", "completed"}
        BY <1>1, <2>1 DEF AfterRecovery, Cycle
    <2> QED
        BY <1>1, <2>1, <2>2, <2>3 DEF Cycle
<1>4. CASE role[c].kind = "projection"
    <2>1. role[c].result \in {"fresh", "stale"}
        BY <1>4 DEF Roles, CycleRole, Producer, Artifact, Execution, Idle
    <2>2. Updated(c, cy) = [Named(c, cy) EXCEPT !.projection = role[c].result]
        BY <1>4 DEF Updated
    <2> QED
        BY <1>1, <2>1, <2>2 DEF Cycle
<1>5. CASE role[c].kind \in {"artifact", "publish"}
    BY <1>1, <1>5 DEF Updated, Cycle
<1>6. CASE role[c].kind = "execution"
    BY <1>6 DEF Updated, Cycle
<1>7. CASE role[c].kind = "closeout"
    BY <1>7 DEF Updated, Cycle, Decision
<1>8. CASE role[c].kind = "followup"
    BY <1>8, FreshType DEF Updated
<1>9. CASE role[c].kind \notin {"gate", "ticket", "projection", "artifact", "publish",
                               "execution", "closeout", "followup"}
    BY <1>9 DEF Updated
<1> QED
    BY <1>2, <1>3, <1>4, <1>5, <1>6, <1>7, <1>8, <1>9

LEMMA EquippedInit == Init => Equipped
<1> SUFFICES ASSUME Init PROVE Equipped
    OBVIOUS
<1>1. ASSUME NEW g \in {"onward", "halt"}
      PROVE  /\ [Fresh EXCEPT !.gate = g, !.projection = "fresh"] \in Cycle
             /\ [kind |-> "gate", result |-> g] \in Artifact
             /\ [kind |-> "projection", result |-> "fresh"] \in Artifact
    <2>1. [Fresh EXCEPT !.gate = g, !.projection = "fresh"] \in Cycle
        BY DEF Fresh, Cycle
    <2>2. [kind |-> "gate", result |-> g] \in [kind : {"gate"}, result : {"onward", "halt", "blocked"}]
        OBVIOUS
    <2>3. [kind |-> "projection", result |-> "fresh"]
              \in [kind : {"projection"}, result : {"fresh", "stale"}]
        OBVIOUS
    <2> QED
        BY <2>1, <2>2, <2>3 DEF Artifact
<1>2. cycle \in Cycle \union {Absent} /\ artifacts \subseteq Artifact
    <2>1. CASE cycle = Absent /\ artifacts = {}
        BY <2>1
    <2>2. ASSUME NEW g \in {"onward", "halt"},
                 cycle = [Fresh EXCEPT !.gate = g, !.projection = "fresh"],
                 artifacts = {[kind |-> "gate", result |-> g],
                              [kind |-> "projection", result |-> "fresh"]}
          PROVE  cycle \in Cycle \union {Absent} /\ artifacts \subseteq Artifact
        BY <1>1, <2>2
    <2> QED
        BY <2>1, <2>2 DEF Init, CycleInit
<1> QED
    BY <1>2 DEF Init, CycleInit, Equipped, Copied

LEMMA EquippedNext ==
    ASSUME Placed, Equipped, [Next]_vars
    PROVE  Equipped'
<1>1. CASE UNCHANGED vars
    BY <1>1 DEF vars, cycleVars, Equipped
<1>2. ASSUME NEW c \in Call, ExecutionStep(c)
      PROVE  Equipped'
    <2>1. UNCHANGED <<cycle, artifacts, seen, decided, raced>>
        BY <1>2 DEF ExecutionStep, Asks, Finds, FindsNone, FindsTorn, Reserves, Fills,
              FindsReserved, FindsEmpty, LooksUp, OpensLedger, EntersLedger, Moves
    <2>2. /\ pc'[c] \notin {"look", "decide", "decided", "file", "open", "write"}
          /\ \A d \in Call \ {c} : pc'[d] = pc[d] /\ role'[d] = role[d]
        <3>1. CASE Asks(c)
            BY <3>1 DEF Asks, Become, Placed
        <3>2. CASE ~Asks(c)
            BY <1>2, <3>2, ExecutionShape DEF Placed, ExecutionPlaces
        <3> QED
            BY <3>1, <3>2
    <2>3. \A d \in Call : pc'[d] \in {"look", "decide", "decided", "file", "open", "write"}
                              => pc[d] = pc'[d] /\ role[d] = role'[d]
        BY <2>2
    <2>4. \A d \in Call : pc'[d] = "read" => role'[d].kind \notin {"closeout", "followup"}
        <3>1. pc'[c] = "read" => role'[c].kind \notin {"closeout", "followup"}
            <4>1. CASE Asks(c)
                BY <4>1 DEF Asks, Become, Placed
            <4>2. CASE ~Asks(c)
                <5>1. pc[c] \in ExecutionPlaces /\ role' = role
                    BY <1>2, <4>2, ExecutionShape
                <5> QED
                    BY <5>1, RoleKinds DEF Placed, Recording
            <4> QED
                BY <4>1, <4>2
        <3> QED
            BY <2>2, <3>1 DEF Equipped
    <2> QED
        BY <2>1, <2>3, <2>4 DEF Equipped, Copied
<1>3. ASSUME NEW c \in Call, CycleStep(c)
      PROVE  Equipped'
    <2>1. CASE Begins(c)
        <3>1. PICK r \in CycleRole : role' = [role EXCEPT ![c] = r]
                                     /\ pc' = [pc EXCEPT ![c] = FirstStep(r)]
            BY <2>1 DEF Begins, Become
        <3>2. /\ role'[c] = r /\ pc'[c] = FirstStep(r)
              /\ \A d \in Call \ {c} : pc'[d] = pc[d] /\ role'[d] = role[d]
            BY <3>1 DEF Placed
        <3>3. /\ FirstStep(r) = "look" => r = [kind |-> "followup"]
              /\ FirstStep(r) = "read" => r.kind \notin {"closeout", "followup"}
              /\ FirstStep(r) = "decide" => r = [kind |-> "closeout"]
              /\ FirstStep(r) \in {"look", "decide", "read"}
            BY DEF FirstStep, CycleRole, Producer, Artifact
        <3>4. UNCHANGED <<cycle, artifacts, seen, decided, raced>>
            BY <2>1 DEF Begins
        <3>5. \A d \in Call : pc'[d] \in {"decided", "file", "open", "write"}
                                  => pc[d] = pc'[d] /\ role[d] = role'[d]
            BY <3>2, <3>3
        <3>6. ASSUME NEW d \in Call
              PROVE  /\ pc'[d] = "look" => role'[d] = [kind |-> "followup"]
                     /\ pc'[d] = "read" => role'[d].kind \notin {"closeout", "followup"}
                     /\ pc'[d] \in {"decide", "decided"} => role'[d] = [kind |-> "closeout"]
            BY <3>2, <3>3 DEF Equipped
        <3> QED
            BY <3>4, <3>5, <3>6 DEF Equipped, Copied
    <2>2. CASE ReadsTorn(c) \/ FindsStarted(c) \/ Misnames(c) \/ MissesCycle(c)
               \/ FindsEvent(c) \/ RereadsTorn(c) \/ Dies(c)
        <3>1. /\ pc'[c] \in {"done", "failed", "gone", "cut off"}
              /\ UNCHANGED <<cycle, artifacts, role, raced>>
              /\ \A d \in Call \ {c} : /\ pc'[d] = pc[d]
                                       /\ seen'[d] = seen[d] /\ decided'[d] = decided[d]
              /\ seen' \in [Call -> Cycle \union {NoCopy}]
              /\ decided' \in [Call -> Decision \union {Undecided}]
            BY <2>2 DEF ReadsTorn, FindsStarted, Misnames, MissesCycle, FindsEvent, RereadsTorn, Dies,
                        Leaves, Become, Placed, Equipped
        <3>2. \A d \in Call : pc'[d] \in {"look", "decide", "decided", "read", "file", "open", "write"}
                  => pc[d] = pc'[d] /\ seen'[d] = seen[d] /\ decided'[d] = decided[d]
            BY <3>1
        <3> QED
            BY <3>1, <3>2 DEF Equipped, Copied
    <2>3. CASE FindsNoCycle(c) \/ Reads(c)
        <3>1. /\ pc[c] \in {"look", "read", "decided"} /\ pc'[c] \in {"file", "open"}
              /\ pc'[c] = "file" => role[c] \in Artifact
              /\ UNCHANGED <<cycle, artifacts, role, decided>>
              /\ seen'[c] \in Cycle /\ seen' \in [Call -> Cycle \union {NoCopy}]
              /\ \A d \in Call \ {c} : pc'[d] = pc[d] /\ seen'[d] = seen[d]
              /\ raced' \in BOOLEAN
            BY <2>3, FreshType DEF FindsNoCycle, Reads, NoteRace, Become, Placed, Equipped
        <3>2. pc[c] \in {"look", "read"} => role[c].kind # "closeout"
            <4>1. CASE pc[c] = "look"
                BY <4>1 DEF Equipped
            <4>2. CASE pc[c] = "read"
                BY <4>2 DEF Equipped
            <4> QED
                BY <4>1, <4>2
        <3>3. pc[c] \in {"read", "decided"} => role[c].kind # "followup"
            <4>1. CASE pc[c] = "decided"
                BY <4>1 DEF Equipped
            <4>2. CASE pc[c] = "read"
                BY <4>2 DEF Equipped
            <4> QED
                BY <4>1, <4>2
        <3>4. pc[c] = "look" => seen'[c] = Fresh
            BY <2>3 DEF FindsNoCycle, Reads, Equipped
        <3> QED
            BY <3>1, <3>2, <3>3, <3>4 DEF Equipped, Copied
    <2>4. CASE Decides(c)
        <3>1. /\ pc[c] = "decide" /\ pc'[c] = "decided"
              /\ UNCHANGED <<cycle, artifacts, role, seen>>
              /\ decided'[c] \in Decision /\ decided' \in [Call -> Decision \union {Undecided}]
              /\ \A d \in Call \ {c} : pc'[d] = pc[d] /\ decided'[d] = decided[d]
              /\ raced' \in BOOLEAN
            <4>1. PICK v, n \in BOOLEAN : \E cy :
                      decided' = [decided EXCEPT ![c] = [status |-> Plan(cy, v),
                                                         verified |-> v, named |-> n]]
                BY <2>4 DEF Decides
            <4>2. \A cy : [status |-> Plan(cy, v), verified |-> v, named |-> n] \in Decision
                BY PlanType DEF Decision, Verdicts
            <4> QED
                BY <2>4, <4>1, <4>2 DEF Decides, NoteRace, Become, Placed, Equipped
        <3> QED
            BY <3>1 DEF Equipped, Copied
    <2>5. CASE OpensCycle(c) \/ Files(c)
        <3>1. /\ pc[c] \in {"file", "open"} /\ pc'[c] \in {"open", "write"}
              /\ UNCHANGED <<role, seen, decided, raced>>
              /\ \A d \in Call \ {c} : pc'[d] = pc[d]
            BY <2>5 DEF OpensCycle, Files, Become, Placed
        <3>2. /\ pc[c] = "file" => role[c].kind \notin {"closeout", "followup"}
              /\ cycle' \in {cycle, Torn} /\ artifacts' \subseteq Artifact
            BY <2>5, ArtifactKinds DEF OpensCycle, Files, Equipped
        <3> QED
            BY <3>1, <3>2 DEF Equipped, Copied
    <2>6. CASE WritesCycle(c)
        <3>1. /\ pc[c] = "write" /\ pc'[c] = "done" /\ UNCHANGED <<artifacts, role, raced>>
              /\ cycle' = Updated(c, seen[c])
              /\ \A d \in Call \ {c} : /\ pc'[d] = pc[d]
                                       /\ seen'[d] = seen[d] /\ decided'[d] = decided[d]
              /\ seen' \in [Call -> Cycle \union {NoCopy}]
              /\ decided' \in [Call -> Decision \union {Undecided}]
            BY <2>6 DEF WritesCycle, Leaves, Become, Placed, Equipped
        <3>2. cycle' \in Cycle
            BY <3>1, UpdatedType DEF Equipped, Copied, Placed
        <3>3. \A d \in Call : pc'[d] \in {"look", "decide", "decided", "read", "file", "open", "write"}
                  => pc[d] = pc'[d] /\ seen'[d] = seen[d] /\ decided'[d] = decided[d]
            BY <3>1
        <3> QED
            BY <3>1, <3>2, <3>3 DEF Equipped, Copied
    <2> QED
        BY <1>3, <2>1, <2>2, <2>3, <2>4, <2>5, <2>6 DEF CycleStep
<1> QED
    BY <1>1, <1>2, <1>3 DEF Next

\* The inductive invariant of the types.
TypeInv == RegistryInv /\ Equipped /\ tangled \subseteq Exec

LEMMA TypeInvariant == Spec => []TypeInv
<1>1. Init => TypeInv
    BY RegistryInit, EquippedInit DEF TypeInv, Init
<1>2. TypeInv /\ RegistryInv' /\ [Next]_vars => TypeInv'
    <2> SUFFICES ASSUME TypeInv, RegistryInv', [Next]_vars PROVE TypeInv'
        OBVIOUS
    <2>1. Equipped'
        BY EquippedNext DEF TypeInv, RegistryInv
    <2>2. tangled' \subseteq Exec
        <3>1. CASE tangled' = tangled
            BY <3>1 DEF TypeInv
        <3>2. ASSUME NEW c \in Call, LooksUp(c)
              PROVE  tangled' \subseteq Exec
            <4>1. role[c].exec \in Exec
                BY <3>2, RoleKinds DEF LooksUp, TypeInv, RegistryInv, Placed, ExecutionPlaces,
                                       Recording
            <4> QED
                BY <3>2, <4>1 DEF LooksUp, TypeInv
        <3>3. ASSUME NEW c \in Call, ExecutionStep(c), ~LooksUp(c)
              PROVE  tangled' = tangled
            BY <3>3 DEF ExecutionStep, Asks, Finds, FindsNone, FindsTorn, Reserves, Fills,
                        FindsReserved, FindsEmpty, OpensLedger, EntersLedger, executionVars
        <3> QED
            BY <3>1, <3>2, <3>3 DEF Next, vars, executionVars
    <2> QED
        BY <2>1, <2>2 DEF TypeInv
<1> QED
    BY RegistryInvariant, <1>1, <1>2, PTL DEF Spec

\* Every reachable state has its shape.
THEOREM TypeCorrect == Spec => []TypeOK
<1>1. TypeInv => TypeOK
    BY DEF TypeInv, RegistryInv, Placed, Filed, Equipped, TypeOK, Places, ExecutionPlaces,
           Roles, Verdicts
<1> QED
    BY <1>1, TypeInvariant, PTL

---------------------------------------------------------------------------
(* One call at a time *)

\* The ledger cy has kept what the finished calls have recorded.
Holds(cy) ==
    \A c \in Call : role[c] \in Producer /\ pc[c] = "done" =>
        /\ c \in cy.refs
        /\ role[c] = [kind |-> "ticket", result |-> "blocked"] => cy.status = "blocked"

\* A decision of a closeout fits the ledger or the copy cy of it.
Fits(d, cy) ==
    /\ cy.status = "blocked" => d.status = "blocked"
    /\ d.status = "completed" =>
           /\ d.verified => cy.published
           /\ ~d.named => cy.gate = "halt" /\ cy.projection = "fresh" /\ cy.ticket # "blocked"

\* As long as no two calls overlap, the ledger and the copy a call is about to
\* write have kept every record, and a closeout's decision fits the copy it changes.
Serial ==
    /\ \A c, d \in Call : pc[c] \in Working /\ pc[d] \in Working => c = d
    /\ cycle = Absent => Holds(Fresh)
    /\ cycle \in Cycle => Holds(cycle)
    /\ \A c \in Call : pc[c] \in Copied => Holds(seen[c])
    /\ \A c \in Call : pc[c] = "decided" /\ cycle \in Cycle => Fits(decided[c], cycle)
    /\ \A c \in Call : pc[c] \in Copied /\ role[c].kind = "closeout"
                           => Fits(decided[c], seen[c])
SerialInv == ~raced => Serial

\* No recorder finishes in the step.
NothingRecorded ==
    \A d \in Call : role'[d] \in Producer /\ pc'[d] = "done"
                        => role'[d] = role[d] /\ pc[d] = "done"

LEMMA HoldsKept ==
    ASSUME NEW cy, NothingRecorded, Holds(cy)
    PROVE  Holds(cy)'
BY DEF NothingRecorded, Holds

LEMMA ProducerKinds ==
    \A r \in Producer : r.kind \in {"gate", "ticket", "projection", "artifact"} /\ r \notin Execution
<1>1. \A r \in Producer : r.kind \in {"gate", "ticket", "projection", "artifact"}
    BY DEF Producer, Artifact
<1>2. \A r \in Execution : r.kind = "execution"
    BY DEF Execution
<1> QED
    BY <1>1, <1>2

\* A step that takes no call to where it works on the ledger and leaves the ledger alone.
LEMMA QuietKeepsSerial ==
    ASSUME Serial, NothingRecorded, UNCHANGED <<cycle>>,
           \A d \in Call : pc'[d] \in Working =>
               /\ pc[d] = pc'[d] /\ role'[d] = role[d]
               /\ seen'[d] = seen[d] /\ decided'[d] = decided[d]
    PROVE  Serial'
<1>1. \A c, d \in Call : pc'[c] \in Working /\ pc'[d] \in Working => c = d
    BY DEF Serial
<1>2. \A cy : Holds(cy) => Holds(cy)'
    BY HoldsKept
<1>3. cycle' = Absent => Holds(Fresh)'
    BY <1>2 DEF Serial
<1>4. cycle' \in Cycle => Holds(cycle)'
    BY DEF Serial, Holds, NothingRecorded
<1>5. ASSUME NEW c \in Call, pc'[c] \in Copied
      PROVE  Holds(seen[c])' /\ (role'[c].kind = "closeout" => Fits(decided'[c], seen'[c]))
    <2>1. /\ pc[c] = pc'[c] /\ role'[c] = role[c]
          /\ seen'[c] = seen[c] /\ decided'[c] = decided[c]
        BY <1>5 DEF Working, Copied
    <2>2. PICK cy : cy = seen[c]
        OBVIOUS
    <2>3. Holds(cy)
        BY <1>5, <2>1, <2>2 DEF Serial
    <2>4. Holds(cy)'
        BY <2>3, HoldsKept
    <2> QED
        BY <1>5, <2>1, <2>2, <2>4 DEF Serial, Holds
<1>6. ASSUME NEW c \in Call, pc'[c] = "decided", cycle' \in Cycle
      PROVE  Fits(decided'[c], cycle')
    BY <1>6 DEF Serial, Working
<1> QED
    BY <1>1, <1>3, <1>4, <1>5, <1>6 DEF Serial, Fits

\* A call that comes to work on the ledger, with a copy or a decision.
LEMMA EntryKeepsSerial ==
    ASSUME Serial, NEW c \in Call, UNCHANGED <<cycle, role>>,
           \A d \in Call \ {c} : pc[d] \notin Working,
           \A d \in Call \ {c} : pc'[d] = pc[d],
           pc'[c] \in {"decided", "file", "open"},
           pc'[c] = "decided" /\ cycle \in Cycle => Fits(decided'[c], cycle),
           pc'[c] \in Copied => \/ cycle \in Cycle /\ seen'[c] = cycle
                                \/ cycle = Absent /\ seen'[c] = Fresh,
           pc'[c] \in Copied /\ role[c].kind = "closeout" => Fits(decided'[c], seen'[c])
    PROVE  Serial'
<1>1. NothingRecorded
    BY DEF NothingRecorded
<1>2. \A d \in Call : pc'[d] \in Working => d = c
    OBVIOUS
<1>3. \A cy : Holds(cy) => Holds(cy)'
    BY <1>1, HoldsKept
<1>4. cycle' = Absent => Holds(Fresh)'
    BY <1>3 DEF Serial
<1>5. cycle' \in Cycle => Holds(cycle)'
    BY <1>1 DEF Serial, Holds, NothingRecorded
<1>6. pc'[c] \in Copied => Holds(seen[c])'
    <2>1. CASE cycle \in Cycle /\ seen'[c] = cycle
        BY <1>5, <2>1 DEF Holds
    <2>2. CASE cycle = Absent /\ seen'[c] = Fresh
        BY <1>4, <2>2 DEF Holds
    <2> QED
        BY <2>1, <2>2
<1> QED
    BY <1>2, <1>4, <1>5, <1>6 DEF Serial, Working, Copied, Fits

\* What a call writes keeps what its copy has kept, and what it records itself.
LEMMA UpdateHolds ==
    ASSUME NEW c \in Call, NEW cy \in Cycle, role[c] \in Roles, Holds(cy),
           role[c].kind = "closeout" => Fits(decided[c], cy),
           role[c].kind = "followup" => cy = Fresh
    PROVE  /\ \A d \in Call : role[d] \in Producer /\ (pc[d] = "done" \/ d = c)
                                  => d \in Updated(c, cy).refs
           /\ \A d \in Call : role[d] = [kind |-> "ticket", result |-> "blocked"]
                              /\ (pc[d] = "done" \/ d = c)
                                  => Updated(c, cy).status = "blocked"
<1>1. /\ Named(c, cy) \in Cycle /\ c \in Named(c, cy).refs /\ cy.refs \subseteq Named(c, cy).refs
      /\ Named(c, cy).status = cy.status
    BY DEF Named, Cycle
<1>4. /\ \A d \in Call : role[d] \in Producer /\ pc[d] = "done" => d \in cy.refs
      /\ \A d \in Call : role[d] = [kind |-> "ticket", result |-> "blocked"] /\ pc[d] = "done"
                              => cy.status = "blocked" /\ role[d] \in Producer
    <2>1. [kind |-> "ticket", result |-> "blocked"] \in Producer
        BY DEF Producer, Artifact
    <2> QED
        BY <2>1 DEF Holds
<1>2. CASE role[c] \in Producer
    <2>1. Updated(c, cy).refs = Named(c, cy).refs
        BY <1>1, <1>2, ProducerKinds DEF Updated, Cycle
    <2>2. cy.status = "blocked" => Updated(c, cy).status = "blocked"
        <3>1. CASE role[c].kind = "ticket"
            <4>1. role[c].result \in {"resolved", "degraded", "blocked"}
                BY <3>1 DEF Roles, CycleRole, Producer, Artifact, Execution, Idle
            <4>2. Updated(c, cy) = [Named(c, cy) EXCEPT !.ticket = role[c].result,
                                    !.status = AfterRecovery(Named(c, cy).status, role[c].result)]
                BY <3>1 DEF Updated
            <4> QED
                BY <1>1, <4>1, <4>2 DEF Cycle, AfterRecovery
        <3>2. CASE role[c].kind \in {"gate", "projection", "artifact"}
            BY <1>1, <3>2 DEF Updated, Cycle
        <3> QED
            BY <1>2, <3>1, <3>2, ProducerKinds
    <2>3. role[c] = [kind |-> "ticket", result |-> "blocked"] => Updated(c, cy).status = "blocked"
        <3>1. ASSUME role[c].kind = "ticket", role[c].result = "blocked"
              PROVE  Updated(c, cy).status = "blocked"
            <4>1. Updated(c, cy) = [Named(c, cy) EXCEPT !.ticket = role[c].result,
                                    !.status = AfterRecovery(Named(c, cy).status, role[c].result)]
                BY <3>1 DEF Updated
            <4> QED
                BY <1>1, <3>1, <4>1 DEF Cycle, AfterRecovery
        <3> QED
            BY <3>1
    <2>4. ASSUME NEW d \in Call, role[d] \in Producer, pc[d] = "done" \/ d = c
          PROVE  d \in Updated(c, cy).refs
        BY <1>1, <1>4, <2>1, <2>4
    <2>5. ASSUME NEW d \in Call, role[d] = [kind |-> "ticket", result |-> "blocked"],
                 pc[d] = "done" \/ d = c
          PROVE  Updated(c, cy).status = "blocked"
        <3>1. CASE pc[d] = "done"
            BY <1>4, <2>2, <2>5, <3>1
        <3>2. CASE d = c
            BY <2>3, <2>5, <3>2
        <3> QED
            BY <2>5, <3>1, <3>2
    <2> QED
        BY <2>4, <2>5
<1>3. CASE role[c] \notin Producer
    <2>1. role[c].kind \notin {"gate", "ticket", "projection", "artifact"}
        BY <1>3 DEF Roles, CycleRole, Execution, Idle
    <2>2. Updated(c, cy).refs = cy.refs
        <3>1. CASE role[c].kind = "followup"
            BY <3>1 DEF Updated
        <3>2. CASE role[c].kind # "followup"
            BY <2>1, <3>2 DEF Updated, Cycle
        <3> QED
            BY <3>1, <3>2
    <2>3. cy.status = "blocked" => Updated(c, cy).status = "blocked"
        <3>1. CASE role[c].kind = "closeout"
            BY <3>1 DEF Updated, Cycle, Fits
        <3>2. CASE role[c].kind = "followup"
            BY <3>2 DEF Updated
        <3>3. CASE role[c].kind \notin {"closeout", "followup"}
            BY <2>1, <3>3 DEF Updated, Cycle
        <3> QED
            BY <3>1, <3>2, <3>3
    <2>4. role[c] # [kind |-> "ticket", result |-> "blocked"]
        BY <2>1
    <2>5. ASSUME NEW d \in Call, role[d] \in Producer, pc[d] = "done" \/ d = c
          PROVE  d \in Updated(c, cy).refs
        BY <1>3, <1>4, <2>2, <2>5
    <2>6. ASSUME NEW d \in Call, role[d] = [kind |-> "ticket", result |-> "blocked"],
                 pc[d] = "done" \/ d = c
          PROVE  Updated(c, cy).status = "blocked"
        BY <1>4, <2>3, <2>4, <2>6
    <2> QED
        BY <2>5, <2>6
<1> QED
    BY <1>2, <1>3

LEMMA SerialNext ==
    ASSUME Placed, Equipped, SerialInv, [Next]_vars
    PROVE  SerialInv'
<1> SUFFICES ASSUME ~raced' PROVE Serial'
    BY DEF SerialInv
<1>1. CASE UNCHANGED vars
    BY <1>1 DEF vars, cycleVars, SerialInv, Serial, Holds, Fits
<1>2. ASSUME NEW c \in Call, ExecutionStep(c)
      PROVE  Serial'
    <2>1. UNCHANGED <<cycle, artifacts, seen, decided, raced>>
        BY <1>2 DEF ExecutionStep, Asks, Finds, FindsNone, FindsTorn, Reserves, Fills,
              FindsReserved, FindsEmpty, LooksUp, OpensLedger, EntersLedger, Moves
    <2>2. /\ pc'[c] \notin Working \union {"done"}
          /\ \A d \in Call \ {c} : pc'[d] = pc[d] /\ role'[d] = role[d]
        <3>1. CASE Asks(c)
            BY <3>1 DEF Asks, Become, Placed, Working
        <3>2. CASE ~Asks(c)
            BY <1>2, <3>2, ExecutionShape DEF Placed, ExecutionPlaces, Working
        <3> QED
            BY <3>1, <3>2
    <2>3. NothingRecorded
        BY <2>2 DEF NothingRecorded
    <2>4. Serial
        BY <2>1 DEF SerialInv
    <2> QED
        BY <2>1, <2>2, <2>3, <2>4, QuietKeepsSerial
<1>3. ASSUME NEW c \in Call, CycleStep(c)
      PROVE  Serial'
    <2>1. raced' = raced \/ (NoteRace(c) /\ pc[c] \in {"look", "decide", "read"})
        BY <1>3 DEF CycleStep, Begins, ReadsTorn, FindsStarted, FindsNoCycle, Decides, Misnames,
              MissesCycle, Reads, RereadsTorn, FindsEvent, Files, OpensCycle, WritesCycle, Dies
    <2>2. ~raced
        BY <2>1 DEF NoteRace
    <2>3. Serial
        BY <2>2 DEF SerialInv
    <2>4. CASE Begins(c)
        <3>1. /\ pc'[c] \notin Working \union {"done"} /\ cycle' = cycle
              /\ UNCHANGED <<seen, decided>>
              /\ \A d \in Call \ {c} : pc'[d] = pc[d] /\ role'[d] = role[d]
            BY <2>4 DEF Begins, FirstStep, Become, Placed, Working
        <3>2. NothingRecorded
            BY <3>1 DEF NothingRecorded
        <3> QED
            BY <2>3, <3>1, <3>2, QuietKeepsSerial
    <2>5. CASE ReadsTorn(c) \/ FindsStarted(c) \/ Misnames(c) \/ MissesCycle(c)
               \/ FindsEvent(c) \/ RereadsTorn(c) \/ Dies(c)
        <3>1. /\ pc'[c] \in {"done", "failed", "gone", "cut off"} /\ UNCHANGED <<cycle, role>>
              /\ \A d \in Call \ {c} : /\ pc'[d] = pc[d]
                                       /\ seen'[d] = seen[d] /\ decided'[d] = decided[d]
            BY <2>5 DEF ReadsTorn, FindsStarted, Misnames, MissesCycle, FindsEvent, RereadsTorn, Dies,
                        Leaves, Become, Placed, Equipped
        <3>2. pc'[c] = "done" => role[c].kind \in {"followup", "diagnostic", "execution"}
            <4>1. CASE FindsStarted(c)
                BY <4>1 DEF FindsStarted, Equipped
            <4>2. CASE MissesCycle(c) \/ FindsEvent(c)
                BY <4>2 DEF MissesCycle, FindsEvent, Become, Placed
            <4>3. CASE ReadsTorn(c) \/ Misnames(c) \/ RereadsTorn(c) \/ Dies(c)
                BY <4>3 DEF ReadsTorn, Misnames, RereadsTorn, Dies, Leaves, Become, Placed
            <4> QED
                BY <2>5, <4>1, <4>2, <4>3
        <3>3. NothingRecorded
            BY <3>1, <3>2, ProducerKinds DEF NothingRecorded
        <3>4. \A d \in Call : pc'[d] \in Working =>
                  /\ pc[d] = pc'[d] /\ role'[d] = role[d]
                  /\ seen'[d] = seen[d] /\ decided'[d] = decided[d]
            BY <3>1 DEF Working
        <3> QED
            BY <2>3, <3>1, <3>3, <3>4, QuietKeepsSerial
    <2>6. CASE FindsNoCycle(c) \/ Decides(c) \/ Reads(c)
        <3>1. /\ UNCHANGED <<cycle, role>> /\ pc'[c] \in {"decided", "file", "open"}
              /\ \A d \in Call \ {c} : pc'[d] = pc[d]
            BY <2>6 DEF FindsNoCycle, Decides, Reads, Become, Placed
        <3>2. \A d \in Call \ {c} : pc[d] \notin Working
            <4>1. CASE pc[c] = "decided"
                BY <2>3, <4>1 DEF Serial, Working
            <4>2. CASE pc[c] # "decided"
                BY <2>6, <4>2 DEF FindsNoCycle, Decides, Reads, NoteRace
            <4> QED
                BY <4>1, <4>2
        <3>3. ASSUME pc'[c] = "decided", cycle \in Cycle
              PROVE  Fits(decided'[c], cycle)
            <4>1. Decides(c)
                BY <2>6, <3>3 DEF FindsNoCycle, Reads, Become, Placed
            <4>2. PICK v, n \in BOOLEAN :
                      \E g \in Selectable("gate", cycle.gate, n),
                         t \in Selectable("ticket", cycle.ticket, n),
                         p \in Selectable("projection", cycle.projection, n) :
                          decided' = [decided EXCEPT ![c] = [status |-> Plan(Given(g, t, p), v),
                                                             verified |-> v, named |-> n]]
                BY <4>1 DEF Decides
            <4>3. PICK g \in Selectable("gate", cycle.gate, n),
                       t \in Selectable("ticket", cycle.ticket, n),
                       p \in Selectable("projection", cycle.projection, n) :
                          decided' = [decided EXCEPT ![c] = [status |-> Plan(Given(g, t, p), v),
                                                             verified |-> v, named |-> n]]
                BY <4>2
            <4>4. decided'[c] = [status |-> Plan(Given(g, t, p), v), verified |-> v, named |-> n]
                BY <4>3 DEF Equipped
            <4>5. ~n => g = cycle.gate /\ t = cycle.ticket /\ p = cycle.projection
                BY <4>3 DEF Selectable
            <4>6. /\ cycle.status = "blocked" => Plan(Given(g, t, p), v) = "blocked"
                  /\ Plan(Given(g, t, p), v) = "completed" =>
                         /\ g = "halt" /\ p = "fresh" /\ t # "blocked"
                         /\ v => cycle.published
                BY <3>3, GivenFacts DEF Plan
            <4> QED
                BY <4>4, <4>5, <4>6 DEF Fits
        <3>4. pc'[c] \in Copied => \/ cycle \in Cycle /\ seen'[c] = cycle
                                   \/ cycle = Absent /\ seen'[c] = Fresh
            BY <2>6 DEF FindsNoCycle, Decides, Reads, Become, Placed, Equipped, Copied
        <3>5. ASSUME pc'[c] \in Copied, role[c].kind = "closeout"
              PROVE  Fits(decided'[c], seen'[c])
            <4>1. pc[c] = "decided" /\ Reads(c)
                BY <2>6, <3>5 DEF FindsNoCycle, Decides, Reads, Become, Placed, Equipped, Copied
            <4> QED
                BY <2>3, <4>1 DEF Reads, Serial, Equipped
        <3> QED
            BY <2>3, <3>1, <3>2, <3>3, <3>4, <3>5, EntryKeepsSerial
    <2>7. CASE OpensCycle(c)
        <3>1. /\ pc[c] = "open" /\ pc'[c] = "write" /\ UNCHANGED <<role, seen, decided>>
              /\ cycle' = Torn
              /\ \A d \in Call \ {c} : pc'[d] = pc[d]
            BY <2>7 DEF OpensCycle, Become, Placed
        <3>2. NothingRecorded
            BY <3>1 DEF NothingRecorded
        <3>3. \A d \in Call : pc'[d] \in Working => d = c
            BY <2>3, <3>1 DEF Serial, Working
        <3>4. Holds(seen[c])'
            BY <2>3, <3>1, <3>2 DEF Serial, Holds, NothingRecorded, Copied
        <3> QED
            BY <2>3, <3>1, <3>3, <3>4, NoLedgers DEF Serial, Working, Copied, Fits
    <2>9. CASE Files(c)
        <3>1. /\ pc[c] = "file" /\ pc'[c] = "open" /\ UNCHANGED <<cycle, role, seen, decided>>
              /\ \A d \in Call \ {c} : pc'[d] = pc[d]
            BY <2>9 DEF Files, Become, Placed
        <3>2. NothingRecorded
            BY <3>1 DEF NothingRecorded
        <3>3. \A d \in Call : pc'[d] \in Working => d = c
            BY <2>3, <3>1 DEF Serial, Working
        <3>4. Holds(seen[c])'
            BY <2>3, <3>1, <3>2 DEF Serial, Holds, NothingRecorded, Copied
        <3>5. (cycle = Absent => Holds(Fresh))' /\ (cycle \in Cycle => Holds(cycle))'
            BY <2>3, <3>1, <3>2 DEF Serial, Holds, NothingRecorded
        <3>6. role[c].kind # "closeout"
            BY <3>1, ArtifactKinds DEF Equipped
        <3> QED
            BY <2>3, <3>1, <3>3, <3>4, <3>5, <3>6 DEF Serial, Working, Copied
    <2>8. CASE WritesCycle(c)
        <3>1. /\ pc[c] = "write" /\ pc'[c] = "done" /\ role' = role
              /\ cycle' = Updated(c, seen[c])
              /\ \A d \in Call \ {c} : pc'[d] = pc[d]
            BY <2>8 DEF WritesCycle, Leaves, Become, Placed
        <3>2. \A d \in Call : pc'[d] \notin Working
            BY <2>3, <3>1 DEF Serial, Working
        <3>3. PICK cy \in Cycle : cy = seen[c]
            BY <3>1 DEF Equipped, Copied
        <3>4. Updated(c, cy) \in Cycle
            BY <3>1, <3>3, UpdatedType DEF Equipped, Placed
        <3>5. /\ role[c] \in Roles /\ Holds(cy)
              /\ role[c].kind = "closeout" => Fits(decided[c], cy)
              /\ role[c].kind = "followup" => cy = Fresh
            BY <2>3, <3>1, <3>3 DEF Serial, Equipped, Placed, Copied
        <3>6. /\ \A d \in Call : role[d] \in Producer /\ (pc[d] = "done" \/ d = c)
                                     => d \in Updated(c, cy).refs
              /\ \A d \in Call : role[d] = [kind |-> "ticket", result |-> "blocked"]
                                 /\ (pc[d] = "done" \/ d = c)
                                     => Updated(c, cy).status = "blocked"
            BY <3>5, UpdateHolds
        <3>7. Holds(cycle)'
            BY <3>1, <3>3, <3>6 DEF Holds
        <3> QED
            BY <3>1, <3>2, <3>3, <3>4, <3>7, NoLedgers DEF Serial, Working, Copied
    <2> QED
        BY <1>3, <2>4, <2>5, <2>6, <2>7, <2>8, <2>9 DEF CycleStep
<1> QED
    BY <1>1, <1>2, <1>3 DEF Next

LEMMA SerialInvariant == Spec => [](TypeInv /\ SerialInv)
<1>1. Init => SerialInv
    BY DEF Init, CycleInit, SerialInv, Serial, Holds, Working, Copied
<1>2. TypeInv /\ SerialInv /\ [Next]_vars => SerialInv'
    BY SerialNext DEF TypeInv, RegistryInv
<1> QED
    BY <1>1, <1>2, TypeInvariant, PTL DEF Spec

\* A truncated ledger is being written, or its writer has been killed.
Interrupted == cycle = Torn => \E d \in Call : pc[d] \in {"write", "cut off"}

LEMMA InterruptedNext ==
    ASSUME Placed, Equipped, Interrupted, [Next]_vars
    PROVE  Interrupted'
<1>1. CASE UNCHANGED vars
    BY <1>1 DEF vars, cycleVars, Interrupted
<1>2. ASSUME NEW c \in Call, ExecutionStep(c)
      PROVE  Interrupted'
    <2>1. cycle' = cycle
        BY <1>2 DEF ExecutionStep, Asks, Finds, FindsNone, FindsTorn, Reserves, Fills,
              FindsReserved, FindsEmpty, LooksUp, OpensLedger, EntersLedger, Moves
    <2>2. pc[c] \notin {"write", "cut off"} /\ \A d \in Call \ {c} : pc'[d] = pc[d]
        BY <1>2, ExecutionShape DEF Placed, ExecutionPlaces, Asks, Become
    <2> QED
        BY <2>1, <2>2 DEF Interrupted
<1>3. ASSUME NEW c \in Call, CycleStep(c)
      PROVE  Interrupted'
    <2>1. \A d \in Call \ {c} : pc'[d] = pc[d]
        BY <1>3, CycleShape DEF Placed
    <2>2. CASE OpensCycle(c)
        BY <2>2 DEF OpensCycle, Become, Placed, Interrupted
    <2>3. CASE WritesCycle(c)
        <3>1. cycle' \in Cycle
            BY <2>3, UpdatedType DEF WritesCycle, Equipped, Copied, Placed
        <3> QED
            BY <3>1, NoLedgers DEF Interrupted
    <2>4. CASE Dies(c)
        <3>1. cycle' = cycle /\ pc[c] # "cut off" /\ (pc[c] = "write" => pc'[c] = "cut off")
            BY <2>4 DEF Dies, Leaves, Become, Placed, Ended
        <3> QED
            BY <2>1, <3>1 DEF Interrupted
    <2>5. CASE ~(OpensCycle(c) \/ WritesCycle(c) \/ Dies(c))
        <3>1. cycle' = cycle /\ pc[c] \notin {"write", "cut off"}
            BY <1>3, <2>5 DEF CycleStep, Begins, ReadsTorn, FindsStarted, FindsNoCycle, Decides,
               Misnames, MissesCycle, Reads, RereadsTorn, FindsEvent, Files
        <3> QED
            BY <2>1, <3>1 DEF Interrupted
    <2> QED
        BY <2>2, <2>3, <2>4, <2>5
<1> QED
    BY <1>1, <1>2, <1>3 DEF Next

LEMMA InterruptedInvariant == Spec => [](TypeInv /\ Interrupted)
<1>1. Init => Interrupted
    <2> SUFFICES ASSUME Init PROVE cycle # Torn
        BY DEF Interrupted
    <2>1. CASE cycle = Absent
        BY <2>1, NoLedgers
    <2>2. ASSUME NEW g \in {"onward", "halt"},
                 cycle = [Fresh EXCEPT !.gate = g, !.projection = "fresh"]
          PROVE  cycle # Torn
        <3>1. cycle \in Cycle
            BY <2>2 DEF Fresh, Cycle
        <3> QED
            BY <3>1, NoLedgers
    <2> QED
        BY <2>1, <2>2 DEF Init, CycleInit
<1>2. TypeInv /\ Interrupted /\ [Next]_vars => Interrupted'
    BY InterruptedNext DEF TypeInv, RegistryInv
<1> QED
    BY <1>1, <1>2, TypeInvariant, PTL DEF Spec

\* As long as no two calls overlap on it and none was killed in the middle of
\* writing it, the cycle's ledger, or what is being written to it, names every
\* artifact that a finished call has recorded, wherever else calls were killed.
THEOREM RecordsStay == Spec => []RefsKept
<1>1. TypeInv /\ SerialInv /\ Interrupted => RefsKept
    <2> SUFFICES ASSUME TypeInv, SerialInv, Interrupted, ~raced,
                        \A d \in Call : pc[d] # "cut off",
                        NEW c \in Call, role[c] \in Producer, pc[c] = "done"
                 PROVE  \/ cycle \in Cycle /\ c \in cycle.refs
                        \/ \E d \in Call : pc[d] = "write" /\ c \in Updated(d, seen[d]).refs
        BY DEF RefsKept
    <2>1. cycle \in Cycle \union {Absent, Torn} /\ Serial
        BY DEF TypeInv, Equipped, SerialInv
    <2>2. CASE cycle \in Cycle
        BY <2>1, <2>2 DEF Serial, Holds
    <2>3. CASE cycle = Absent
        BY <2>1, <2>3 DEF Serial, Holds, Fresh
    <2>4. CASE cycle = Torn
        <3>1. PICK d \in Call : pc[d] = "write"
            BY <2>4 DEF Interrupted
        <3>2. PICK cy \in Cycle : cy = seen[d]
            BY <3>1 DEF TypeInv, Equipped, Copied
        <3>3. /\ role[d] \in Roles /\ Holds(cy)
              /\ role[d].kind = "closeout" => Fits(decided[d], cy)
              /\ role[d].kind = "followup" => cy = Fresh
            BY <2>1, <3>1, <3>2 DEF Serial, Copied, TypeInv, RegistryInv, Placed, Equipped
        <3>4. c \in Updated(d, cy).refs
            BY <3>3, UpdateHolds
        <3> QED
            BY <3>1, <3>2, <3>4
    <2> QED
        BY <2>1, <2>2, <2>3, <2>4
<1> QED
    BY <1>1, SerialInvariant, InterruptedInvariant, PTL

\* Under the same condition a blocked ticket blocks the cycle for good.
THEOREM BlockedForGood == Spec => []BlockedStays
<1>1. SerialInv => BlockedStays
    <2> SUFFICES ASSUME SerialInv, cycle \in Cycle, ~raced, NEW c \in Call,
                        role[c] = [kind |-> "ticket", result |-> "blocked"], pc[c] = "done"
                 PROVE  cycle.status = "blocked"
        BY DEF BlockedStays
    <2>1. role[c] \in Producer
        BY DEF Producer, Artifact
    <2> QED
        BY <2>1 DEF SerialInv, Serial, Holds
<1> QED
    BY <1>1, SerialInvariant, PTL

---------------------------------------------------------------------------
(* Evidence on disk *)

\* The gate and the projection that the ledger cy names are on disk.
Stored(cy) ==
    /\ cy.gate # "missing" => [kind |-> "gate", result |-> cy.gate] \in artifacts
    /\ cy.projection # "missing" => [kind |-> "projection", result |-> cy.projection] \in artifacts

\* What completes a cycle is on disk.
Evidence == /\ [kind |-> "gate", result |-> "halt"] \in artifacts
            /\ [kind |-> "projection", result |-> "fresh"] \in artifacts

\* The ledger and its copies name nothing that is not on disk, and nothing else
\* completes a cycle.
Backed ==
    /\ cycle \in Cycle => Stored(cycle)
    /\ \A c \in Call : pc[c] \in Copied => Stored(seen[c])
    /\ \A c \in Call : pc[c] \in {"open", "write"} /\ role[c] \in Artifact => role[c] \in artifacts
    /\ \A c \in Call : pc[c] \in {"decided", "open", "write"} /\ role[c].kind = "closeout"
                           /\ decided[c].status = "completed" => Evidence

LEMMA FreshStored == Stored(Fresh) /\ Stored(Fresh)'
BY DEF Stored, Fresh

\* What a call writes names nothing new but its own artifact.
LEMMA UpdateStored ==
    ASSUME NEW c \in Call, NEW cy \in Cycle, role[c] \in Roles, Stored(cy),
           role[c] \in Artifact => role[c] \in artifacts
    PROVE  Stored(Updated(c, cy))
<1>1. Named(c, cy) \in Cycle /\ Stored(Named(c, cy))
    BY DEF Named, Cycle, Stored
<1>2. CASE role[c].kind = "gate"
    <2>1. role[c] \in artifacts /\ role[c] = [kind |-> "gate", result |-> role[c].result]
        BY <1>2 DEF Roles, CycleRole, Producer, Artifact, Execution, Idle
    <2>2. Updated(c, cy) = [Named(c, cy) EXCEPT !.gate = role[c].result]
        BY <1>2 DEF Updated
    <2>3. /\ Updated(c, cy).gate = role[c].result
          /\ Updated(c, cy).projection = Named(c, cy).projection
        BY <1>1, <2>2 DEF Cycle
    <2> QED
        BY <1>1, <2>1, <2>3 DEF Stored
<1>3. CASE role[c].kind = "projection"
    <2>1. role[c] \in artifacts /\ role[c] = [kind |-> "projection", result |-> role[c].result]
        BY <1>3 DEF Roles, CycleRole, Producer, Artifact, Execution, Idle
    <2>2. Updated(c, cy) = [Named(c, cy) EXCEPT !.projection = role[c].result]
        BY <1>3 DEF Updated
    <2>3. /\ Updated(c, cy).projection = role[c].result
          /\ Updated(c, cy).gate = Named(c, cy).gate
        BY <1>1, <2>2 DEF Cycle
    <2> QED
        BY <1>1, <2>1, <2>3 DEF Stored
<1>4. CASE role[c].kind \notin {"gate", "projection", "followup"}
    <2>1. Updated(c, cy).gate = cy.gate /\ Updated(c, cy).projection = cy.projection
        <3>1. CASE role[c].kind \in {"ticket", "artifact"}
            BY <1>4, <3>1 DEF Updated, Named, Cycle
        <3>2. CASE role[c].kind \notin {"ticket", "artifact"}
            BY <1>4, <3>2 DEF Updated, Cycle
        <3> QED
            BY <3>1, <3>2
    <2> QED
        BY <2>1 DEF Stored
<1>5. CASE role[c].kind = "followup"
    BY <1>5, FreshStored DEF Updated
<1> QED
    BY <1>2, <1>3, <1>4, <1>5

\* Evidence stays, whatever is written.
LEMMA StoredKept ==
    ASSUME artifacts \subseteq artifacts'
    PROVE  (\A cy : Stored(cy) => Stored(cy)') /\ (Evidence => Evidence')
BY DEF Stored, Evidence

\* A step that gives no call a copy or a decision and leaves the files alone.
LEMMA QuietKeepsBacked ==
    ASSUME Backed, UNCHANGED <<cycle, artifacts>>,
           \A d \in Call : pc'[d] \in Working =>
               /\ pc[d] = pc'[d] /\ role'[d] = role[d]
               /\ seen'[d] = seen[d] /\ decided'[d] = decided[d]
    PROVE  Backed'
BY DEF Backed, Working, Copied, Stored, Evidence

LEMMA BackedNext ==
    ASSUME Placed, Equipped, Backed, [Next]_vars
    PROVE  Backed'
<1>1. CASE UNCHANGED vars
    BY <1>1, QuietKeepsBacked DEF vars, cycleVars
<1>2. ASSUME NEW c \in Call, ExecutionStep(c)
      PROVE  Backed'
    <2>1. UNCHANGED <<cycle, artifacts, seen, decided>>
        BY <1>2 DEF ExecutionStep, Asks, Finds, FindsNone, FindsTorn, Reserves, Fills,
              FindsReserved, FindsEmpty, LooksUp, OpensLedger, EntersLedger, Moves
    <2>2. /\ pc'[c] \notin Working
          /\ \A d \in Call \ {c} : pc'[d] = pc[d] /\ role'[d] = role[d]
        <3>1. CASE Asks(c)
            BY <3>1 DEF Asks, Become, Placed, Working
        <3>2. CASE ~Asks(c)
            BY <1>2, <3>2, ExecutionShape DEF Placed, ExecutionPlaces, Working
        <3> QED
            BY <3>1, <3>2
    <2> QED
        BY <2>1, <2>2, QuietKeepsBacked
<1>3. ASSUME NEW c \in Call, CycleStep(c)
      PROVE  Backed'
    <2>1. CASE Begins(c)
        <3>1. /\ pc'[c] \notin Working /\ UNCHANGED <<cycle, artifacts, seen, decided>>
              /\ \A d \in Call \ {c} : pc'[d] = pc[d] /\ role'[d] = role[d]
            BY <2>1 DEF Begins, FirstStep, Become, Placed, Working
        <3> QED
            BY <3>1, QuietKeepsBacked
    <2>2. CASE ReadsTorn(c) \/ FindsStarted(c) \/ Misnames(c) \/ MissesCycle(c)
               \/ FindsEvent(c) \/ RereadsTorn(c) \/ Dies(c)
        <3>1. /\ pc'[c] \in {"done", "failed", "gone", "cut off"}
              /\ UNCHANGED <<cycle, artifacts, role>>
              /\ \A d \in Call \ {c} : /\ pc'[d] = pc[d]
                                       /\ seen'[d] = seen[d] /\ decided'[d] = decided[d]
            BY <2>2 DEF ReadsTorn, FindsStarted, Misnames, MissesCycle, FindsEvent, RereadsTorn,
                        Dies, Leaves, Become, Placed, Equipped
        <3> QED
            BY <3>1, QuietKeepsBacked DEF Working
    <2>3. CASE FindsNoCycle(c) \/ Reads(c)
        <3>1. /\ UNCHANGED <<cycle, artifacts, role, decided>>
              /\ \A d \in Call \ {c} : pc'[d] = pc[d] /\ seen'[d] = seen[d]
              /\ pc'[c] \in {"file", "open"}
            BY <2>3 DEF FindsNoCycle, Reads, Become, Placed, Equipped
        <3>2. Stored(seen[c])'
            <4>1. CASE cycle \in Cycle /\ seen'[c] = cycle
                BY <3>1, <4>1 DEF Backed, Stored
            <4>2. CASE seen'[c] = Fresh
                BY <4>2 DEF Stored, Fresh
            <4> QED
                BY <2>3, <4>1, <4>2 DEF FindsNoCycle, Reads, Equipped
        <3>3. pc'[c] = "open" => role[c] \notin Artifact
            <4>1. CASE FindsNoCycle(c)
                BY <4>1, ArtifactKinds DEF FindsNoCycle, Equipped
            <4>2. CASE Reads(c)
                BY <4>2 DEF Reads, Become, Placed
            <4> QED
                BY <2>3, <4>1, <4>2
        <3>4. pc'[c] = "open" /\ role[c].kind = "closeout" /\ decided[c].status = "completed"
                  => Evidence
            <4>1. role[c].kind = "closeout" => pc[c] = "decided"
                BY <2>3 DEF FindsNoCycle, Reads, Equipped
            <4> QED
                BY <4>1 DEF Backed
        <3> QED
            BY <3>1, <3>2, <3>3, <3>4 DEF Backed, Stored, Evidence, Copied
    <2>4. CASE Decides(c)
        <3>1. /\ UNCHANGED <<cycle, artifacts, role, seen>> /\ pc'[c] = "decided" /\ cycle \in Cycle
              /\ \A d \in Call \ {c} : pc'[d] = pc[d] /\ decided'[d] = decided[d]
            BY <2>4 DEF Decides, Become, Placed, Equipped
        <3>2. PICK v, n \in BOOLEAN :
                  \E g \in Selectable("gate", cycle.gate, n),
                     t \in Selectable("ticket", cycle.ticket, n),
                     p \in Selectable("projection", cycle.projection, n) :
                      decided' = [decided EXCEPT ![c] = [status |-> Plan(Given(g, t, p), v),
                                                         verified |-> v, named |-> n]]
            BY <2>4 DEF Decides
        <3>3. PICK g \in Selectable("gate", cycle.gate, n),
                   t \in Selectable("ticket", cycle.ticket, n),
                   p \in Selectable("projection", cycle.projection, n) :
                      decided' = [decided EXCEPT ![c] = [status |-> Plan(Given(g, t, p), v),
                                                         verified |-> v, named |-> n]]
            BY <3>2
        <3>4. decided'[c].status = Plan(Given(g, t, p), v)
            BY <3>3 DEF Equipped
        <3>5. Plan(Given(g, t, p), v) = "completed" => g = "halt" /\ p = "fresh"
            BY <3>1, GivenFacts DEF Plan
        <3>6. g = "halt" => [kind |-> "gate", result |-> "halt"] \in artifacts
            <4>1. CASE g = cycle.gate
                BY <3>1, <4>1 DEF Backed, Stored
            <4>2. ASSUME NEW a \in artifacts, a.kind = "gate", g = a.result
                  PROVE  a = [kind |-> "gate", result |-> g]
                BY <4>2 DEF Equipped, Artifact
            <4> QED
                BY <3>3, <4>1, <4>2 DEF Selectable
        <3>7. p = "fresh" => [kind |-> "projection", result |-> "fresh"] \in artifacts
            <4>1. CASE p = cycle.projection
                BY <3>1, <4>1 DEF Backed, Stored
            <4>2. ASSUME NEW a \in artifacts, a.kind = "projection", p = a.result
                  PROVE  a = [kind |-> "projection", result |-> p]
                BY <4>2 DEF Equipped, Artifact
            <4> QED
                BY <3>3, <4>1, <4>2 DEF Selectable
        <3>8. decided'[c].status = "completed" => Evidence
            BY <3>4, <3>5, <3>6, <3>7 DEF Evidence
        <3> QED
            BY <3>1, <3>8 DEF Backed, Stored, Evidence, Copied
    <2>5. CASE Files(c)
        <3>1. /\ pc[c] = "file" /\ pc'[c] = "open" /\ UNCHANGED <<cycle, role, seen, decided>>
              /\ artifacts' = artifacts \union {role[c]}
              /\ \A d \in Call \ {c} : pc'[d] = pc[d]
            BY <2>5 DEF Files, Become, Placed
        <3>2. (\A cy : Stored(cy) => Stored(cy)') /\ (Evidence => Evidence')
            BY <3>1, StoredKept
        <3>3. role[c].kind # "closeout"
            BY <3>1, ArtifactKinds DEF Equipped
        <3>4. cycle' \in Cycle => Stored(cycle)'
            BY <3>1 DEF Backed, Stored
        <3>5. ASSUME NEW d \in Call, pc'[d] \in Copied
              PROVE  Stored(seen[d])'
            <4>1. pc[d] \in Copied
                BY <3>1, <3>5 DEF Copied
            <4> QED
                BY <3>1, <4>1 DEF Backed, Stored
        <3> QED
            BY <3>1, <3>2, <3>3, <3>4, <3>5 DEF Backed, Copied
    <2>6. CASE OpensCycle(c)
        <3>1. /\ pc[c] = "open" /\ pc'[c] = "write" /\ UNCHANGED <<artifacts, role, seen, decided>>
              /\ cycle' = Torn
              /\ \A d \in Call \ {c} : pc'[d] = pc[d]
            BY <2>6 DEF OpensCycle, Become, Placed
        <3> QED
            BY <3>1, NoLedgers DEF Backed, Stored, Evidence, Copied
    <2>7. CASE WritesCycle(c)
        <3>1. /\ pc[c] = "write" /\ pc'[c] = "done" /\ UNCHANGED <<artifacts, role>>
              /\ cycle' = Updated(c, seen[c])
              /\ \A d \in Call \ {c} : /\ pc'[d] = pc[d]
                                       /\ seen'[d] = seen[d] /\ decided'[d] = decided[d]
            BY <2>7 DEF WritesCycle, Leaves, Become, Placed, Equipped
        <3>2. PICK cy \in Cycle : cy = seen[c]
            BY <3>1 DEF Equipped, Copied
        <3>3. role[c] \in Roles /\ Stored(cy) /\ (role[c] \in Artifact => role[c] \in artifacts)
            BY <3>1, <3>2 DEF Backed, Copied, Placed
        <3>4. Stored(Updated(c, cy))
            BY <3>3, UpdateStored
        <3>5. Stored(cycle)'
            BY <3>1, <3>2, <3>4 DEF Stored
        <3> QED
            BY <3>1, <3>5 DEF Backed, Stored, Evidence, Copied
    <2> QED
        BY <1>3, <2>1, <2>2, <2>3, <2>4, <2>5, <2>6, <2>7 DEF CycleStep
<1> QED
    BY <1>1, <1>2, <1>3 DEF Next

LEMMA BackedInvariant == Spec => [](TypeInv /\ Backed)
<1>1. Init => Backed
    <2> SUFFICES ASSUME Init PROVE Backed
        OBVIOUS
    <2>1. cycle \in Cycle => Stored(cycle)
        <3>1. CASE cycle = Absent
            BY <3>1, NoLedgers
        <3>2. ASSUME NEW g \in {"onward", "halt"},
                     cycle = [Fresh EXCEPT !.gate = g, !.projection = "fresh"],
                     artifacts = {[kind |-> "gate", result |-> g],
                                  [kind |-> "projection", result |-> "fresh"]}
              PROVE  Stored(cycle)
            <4>1. cycle.gate = g /\ cycle.projection = "fresh"
                BY <3>2 DEF Fresh
            <4> QED
                BY <3>2, <4>1 DEF Stored
        <3> QED
            BY <3>1, <3>2 DEF Init, CycleInit
    <2>2. \A c \in Call : pc[c] = "idle"
        BY DEF Init, CycleInit
    <2> QED
        BY <2>1, <2>2 DEF Backed, Copied
<1>2. TypeInv /\ Backed /\ [Next]_vars => Backed'
    BY BackedNext DEF TypeInv, RegistryInv
<1> QED
    BY <1>1, <1>2, TypeInvariant, PTL DEF Spec

\* A closeout that completes a cycle has a fresh projection on disk and a gate
\* read-out whose next_action blocks and whose status does not; while no two calls
\* overlap it leaves the verification it requires and, unless artifacts were named,
\* this evidence in the ledger.
THEOREM CompletedOnEvidence == Spec => ClosesOnEvidence
<1>1. ASSUME TypeInv, SerialInv, Backed, [Next]_vars, NEW c \in Call, Completes(c)
      PROVE  /\ [kind |-> "gate", result |-> "halt"] \in artifacts
             /\ [kind |-> "projection", result |-> "fresh"] \in artifacts
             /\ ~raced =>
                   /\ decided[c].verified => cycle'.published
                   /\ ~decided[c].named => /\ cycle'.gate = "halt"
                                          /\ cycle'.projection = "fresh"
                                          /\ cycle'.ticket # "blocked"
    <2>1. WritesCycle(c)
        <3>1. PICK d \in Call : ExecutionStep(d) \/ CycleStep(d)
            BY <1>1 DEF Next, vars, cycleVars, Completes
        <3>2. ~ExecutionStep(d)
            BY <1>1, ExecutionShape DEF TypeInv, RegistryInv, Placed, ExecutionPlaces, Asks, Become,
                                        Completes
        <3>3. d = c
            BY <1>1, <3>1, <3>2, CycleShape DEF TypeInv, RegistryInv, Placed, Completes
        <3>4. ~Dies(c)
            BY <1>1 DEF Dies, Leaves, Become, TypeInv, RegistryInv, Placed, Completes
        <3> QED
            BY <1>1, <3>1, <3>2, <3>3, <3>4 DEF CycleStep, Begins, ReadsTorn, FindsStarted,
               FindsNoCycle, Decides, Misnames, MissesCycle, Reads, RereadsTorn, FindsEvent, Files,
               OpensCycle, Completes
    <2>2. seen[c] \in Cycle /\ (~raced => Fits(decided[c], seen[c]))
        BY <1>1 DEF TypeInv, Equipped, SerialInv, Serial, Completes, Copied
    <2>3. cycle' = [seen[c] EXCEPT !.status = decided[c].status]
        BY <1>1, <2>1 DEF WritesCycle, Updated, Completes
    <2>4. decided[c].status = "completed"
        BY <1>1, <2>2, <2>3 DEF Cycle, Completes
    <2>5. Evidence
        BY <1>1, <2>4 DEF Backed, Completes
    <2>6. /\ cycle'.gate = seen[c].gate /\ cycle'.projection = seen[c].projection
          /\ cycle'.ticket = seen[c].ticket /\ cycle'.published = seen[c].published
        BY <2>2, <2>3 DEF Cycle
    <2> QED
        BY <2>2, <2>4, <2>5, <2>6 DEF Evidence, Fits
<1>2. TypeInv /\ SerialInv /\ Backed /\ [Next]_vars
        => [\A c \in Call : Completes(c) =>
               /\ [kind |-> "gate", result |-> "halt"] \in artifacts
               /\ [kind |-> "projection", result |-> "fresh"] \in artifacts
               /\ ~raced =>
                     /\ decided[c].verified => cycle'.published
                     /\ ~decided[c].named => /\ cycle'.gate = "halt"
                                            /\ cycle'.projection = "fresh"
                                            /\ cycle'.ticket # "blocked"]_vars
    BY <1>1
<1> QED
    BY <1>2, SerialInvariant, BackedInvariant, PTL DEF Spec, ClosesOnEvidence
================================================================================
