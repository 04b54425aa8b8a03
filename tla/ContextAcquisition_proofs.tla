----------------------- MODULE ContextAcquisition_proofs -----------------------
(***************************************************************************)
(* Theorems about ContextAcquisition, for any number of processes, tasks,  *)
(* contents, kills and failures, any batch size and any cap.                *)
(***************************************************************************)
EXTENDS ContextAcquisition, FiniteSetTheorems, TLAPS

\* The threshold on cycles without progress is only reached while the holder
\* decides: everywhere else another cycle may be counted.
ZeroBelow ==
    /\ step \in {"idle", "budget", "task", "file", "writing", "count"} => zero < MaxZero
    /\ step = "idle" => zero = 0

\* What the holder has in memory is on the disk: the files before the one it is
\* at are whole, and the one it is writing is torn.
Derived ==
    /\ step \in {"file", "writing"} =>
          /\ kind # "input" => files["input"][task] = content
          /\ kind \in {"object", "manifest"} => content # NoRecords
          /\ kind = "manifest" => files["object"][task] = content
          /\ kind = "result" /\ content # NoRecords =>
                /\ files["object"][task] = content
                /\ files["manifest"][task] = content
    /\ step = "writing" => files[kind][task] = "torn"

\* What the audit has seen still holds when the status is written.
AuditHolds ==
    step \in {"readiness", "final"} => \A t \in Task : Whole(files["result"][t])

\* The batch's own account of the bytes covers the files, and has room for the
\* one it is writing.
Accounted ==
    /\ step \in {"task", "file", "writing"} => Cardinality(WholeFiles) <= used
    /\ step = "writing" => used + 1 <= cap

TypeInv == TypeOK /\ ZeroBelow

---------------------------------------------------------------------------
(* Types *)

LEMMA Kinds == Kind = {"input", "object", "manifest", "result"}
BY DEF Kind

LEMMA FilesFinite ==
    /\ IsFiniteSet(WholeFiles) /\ Cardinality(WholeFiles) \in Nat
<1>1. IsFiniteSet(Task)
    BY AcquisitionAssumption, FS_Interval DEF Task
<1>2. IsFiniteSet({"input"}) /\ IsFiniteSet({"object"}) /\ IsFiniteSet({"manifest"})
          /\ IsFiniteSet({"result"})
    BY FS_Singleton
<1>3. IsFiniteSet({"input"} \cup {"object"} \cup {"manifest"} \cup {"result"})
    <2>1. IsFiniteSet({"input"} \cup {"object"})
        BY <1>2, FS_Union
    <2>2. IsFiniteSet({"input"} \cup {"object"} \cup {"manifest"})
        BY <1>2, <2>1, FS_Union
    <2> QED BY <1>2, <2>2, FS_Union
<1>4. IsFiniteSet(Kind)
    <2>1. Kind = {"input"} \cup {"object"} \cup {"manifest"} \cup {"result"}
        BY DEF Kind
    <2> QED BY <1>3, <2>1
<1>5. IsFiniteSet(Kind \X Task)
    BY <1>1, <1>4, FS_Product
<1>6. WholeFiles \in SUBSET (Kind \X Task)
    BY DEF WholeFiles
<1>7. IsFiniteSet(WholeFiles)
    BY <1>5, <1>6, FS_Subset
<1> QED BY <1>7, FS_CardinalityType

LEMMA BytesType ==
    ASSUME TypeOK
    PROVE  Bytes \in Nat /\ Cardinality(WholeFiles) <= Bytes
<1>1. IsFiniteSet({"curation"}) /\ IsFiniteSet({"readiness"})
    BY FS_Singleton
<1>2. IsFiniteSet({"curation"} \cup {"readiness"})
    BY <1>1, FS_Union
<1>3. reports \in SUBSET ({"curation"} \cup {"readiness"})
    BY DEF TypeOK
<1>4. IsFiniteSet(reports)
    BY <1>2, <1>3, FS_Subset
<1>5. Cardinality(reports) \in Nat
    BY <1>4, FS_CardinalityType
<1> QED BY <1>5, FilesFinite DEF Bytes

LEMMA TypeInit == Init => TypeInv
<1> SUFFICES ASSUME Init PROVE TypeInv
    OBVIOUS
<1>1. files \in [Kind -> [Task -> Content \union {"none", "torn"}]]
    BY DEF Init
<1>2. task \in 1..NumTasks + 1 /\ zero \in 0..MaxZero
    BY AcquisitionAssumption DEF Init
<1>3. ZeroBelow
    BY AcquisitionAssumption DEF Init, ZeroBelow
<1>4. troubled \in BOOLEAN
    BY DEF Init
<1> QED BY <1>1, <1>2, <1>3, <1>4 DEF Init, TypeInv, TypeOK, Kind

\* The end of the holder leaves its memory empty.
LEMMA EndsType ==
    ASSUME TypeInv, NEW success \in BOOLEAN, Ends(success), holder # "nobody",
           files' \in [Kind -> [Task -> Content \union {"none", "torn"}]],
           status' \in {"none", "acquiring", "finalizing", "waiting", "complete"},
           reports' \subseteq {"curation", "readiness"},
           cap' = cap, troubled' \in BOOLEAN
    PROVE  TypeInv'
BY AcquisitionAssumption DEF TypeInv, TypeOK, ZeroBelow, Ends, Task, Kind

\* A step of the holder within its batch: the next task, or the next file.
LEMMA NextTaskType ==
    ASSUME TypeOK, task \in Task, NextTask
    PROVE  /\ step' = "task" /\ task' \in 1..NumTasks + 1 /\ kind' \in Kind
           /\ content' \in Content \union {"none"}
BY AcquisitionAssumption DEF TypeOK, NextTask, Task, Kind

LEMMA AfterType == ASSUME NEW k PROVE After(k) \in Kind
BY DEF After, Kind

LEMMA TypeNext == TypeInv /\ [Next]_vars => TypeInv'
<1> SUFFICES ASSUME TypeInv, [Next]_vars PROVE TypeInv'
    OBVIOUS
<1> USE DEF TypeInv
<1>0. troubled' \in BOOLEAN
    BY DEF Next, vars, TypeOK
<1> USE <1>0
<1>1. CASE UNCHANGED vars
    BY <1>1 DEF vars, work, disk, launch, batch, TypeOK, ZeroBelow
<1>2. ASSUME NEW r \in Runner, Starts(r) \/ Locks(r) \/ TurnsAway(r) PROVE TypeInv'
    <2>1. CASE Starts(r)
        BY <2>1 DEF Starts, disk, batch, TypeOK, ZeroBelow
    <2>2. CASE Locks(r)
        BY <2>2, AcquisitionAssumption DEF Locks, disk, batch, TypeOK, ZeroBelow
    <2>3. CASE TurnsAway(r)
        BY <2>3 DEF TurnsAway, disk, batch, TypeOK, ZeroBelow
    <2> QED BY <1>2, <2>1, <2>2, <2>3
<1>3. ASSUME NEW r \in Runner, Dies(r) PROVE TypeInv'
    <2>2. CASE r \in guarded /\ UNCHANGED <<holder, turnedAway, step, batch>>
                   /\ guarded' = guarded \ {r} /\ due' = (due \/ r = Agent)
        BY <1>3, <2>2 DEF Dies, disk, batch, TypeOK, ZeroBelow
    <2>3. CASE r = holder /\ Ends(FALSE)
        BY <1>3, <2>3, EndsType, AcquisitionAssumption DEF Dies, disk, TypeOK
    <2> QED BY <1>3, <2>2, <2>3 DEF Dies
<1>4. CASE OpensBudget
    <2>1. CASE Ends(FALSE)
        BY <1>4, <2>1, EndsType DEF OpensBudget, disk, TypeOK
    <2>2. CASE ~Ends(FALSE)
        <3>1. /\ step = "budget" /\ step' = "task" /\ task' = 1 /\ used' = Bytes
              /\ done' = 0 /\ failed' = 0
              /\ UNCHANGED <<disk, launch, kind, content, zero>>
            BY <1>4, <2>2 DEF OpensBudget
        <3>2. used' \in Nat /\ task' \in 1..NumTasks + 1
            BY <3>1, BytesType, AcquisitionAssumption
        <3> QED BY <3>1, <3>2 DEF disk, launch, TypeOK, ZeroBelow
    <2> QED BY <2>1, <2>2
<1>5. CASE Skips \/ ResumeFails \/ Rejects \/ Collides \/ Refused
    <2>1. task \in Task
        BY <1>5 DEF Skips, ResumeFails, Rejects, Collides, Refused, Ready, AtTask, Open, TypeOK
    <2>2. NextTask
        BY <1>5 DEF Skips, ResumeFails, Rejects, Collides, Refused, TaskFails
    <2>3. /\ UNCHANGED <<disk, launch, zero, used>>
          /\ done' \in Nat /\ failed' \in Nat
        BY <1>5 DEF Skips, ResumeFails, Rejects, Collides, Refused, TaskFails, TypeOK
    <2>4. holder # "nobody" /\ zero < MaxZero
        BY <1>5 DEF Skips, ResumeFails, Rejects, Collides, Refused, Ready, AtTask, Open, TypeOK, ZeroBelow
    <2> QED BY <2>1, <2>2, <2>3, <2>4, NextTaskType DEF disk, launch, TypeOK, ZeroBelow
<1>6. CASE FetchFails \/ WriteFails
    <2>1. task \in Task
        BY <1>6 DEF FetchFails, WriteFails, AtTask, Open, TypeOK
    <2>2. NextTask
        BY <1>6 DEF FetchFails, WriteFails, TaskFails
    <2>3. files' \in [Kind -> [Task -> Content \union {"none", "torn"}]]
        BY <1>6 DEF FetchFails, WriteFails, disk, TypeOK
    <2>4. /\ UNCHANGED <<status, reports, cap, launch, zero, used, done>>
          /\ failed' \in Nat
        BY <1>6 DEF FetchFails, WriteFails, TaskFails, disk, TypeOK
    <2>6. holder # "nobody" /\ zero < MaxZero
        BY <1>6 DEF FetchFails, WriteFails, AtTask, Open, TypeOK, ZeroBelow
    <2> QED BY <2>1, <2>2, <2>3, <2>4, <2>6, NextTaskType DEF launch, TypeOK, ZeroBelow
<1>7. CASE BatchEnds \/ GoesOn
    <2>1. CASE BatchEnds
        BY <2>1 DEF BatchEnds, disk, launch, batch, TypeOK, ZeroBelow
    <2>2. CASE GoesOn
        BY <2>2 DEF GoesOn, disk, launch, batch, TypeOK, ZeroBelow
    <2> QED BY <1>7, <2>1, <2>2
<1>8. CASE Resumes \/ \E c \in Content : Fetches(c)
    <2>1. /\ step' = "file" /\ kind' \in Kind /\ content' \in Content
          /\ UNCHANGED <<disk, launch, task, done, failed, zero, used>>
          /\ task \in Task /\ step = "task"
        BY <1>8 DEF Resumes, Fetches, Open, AtTask, Whole, Kind
    <2> QED BY <2>1 DEF disk, launch, TypeOK, ZeroBelow
<1>9. CASE Keeps
    <2>1. kind' \in Kind
        BY <1>9, AfterType DEF Keeps
    <2> QED BY <1>9, <2>1 DEF Keeps, Ready, disk, launch, TypeOK, ZeroBelow
<1>10. CASE Creates
    <2>1. files' \in [Kind -> [Task -> Content \union {"none", "torn"}]]
        BY <1>10 DEF Creates, Ready, TypeOK
    <2> QED BY <1>10, <2>1 DEF Creates, Ready, launch, batch, TypeOK, ZeroBelow
<1>11. CASE Writes
    <2>1. files' \in [Kind -> [Task -> Content \union {"none", "torn"}]]
        BY <1>11 DEF Writes, TypeOK
    <2>2. /\ UNCHANGED <<status, reports, cap, launch, failed, zero>>
          /\ used' \in Nat /\ task \in Task /\ holder # "nobody" /\ zero < MaxZero
        BY <1>11 DEF Writes, Recorded, TypeOK, ZeroBelow
    <2>3. CASE kind = "result"
        <3>1. NextTask /\ done' \in Nat
            BY <1>11, <2>3 DEF Writes, TypeOK
        <3> QED BY <2>1, <2>2, <3>1, NextTaskType DEF launch, TypeOK, ZeroBelow
    <2>4. CASE kind # "result"
        <3>1. kind' \in Kind /\ step' = "file" /\ UNCHANGED <<task, content, done>>
            BY <1>11, <2>4, AfterType DEF Writes
        <3>2. step = "writing"
            BY <1>11 DEF Writes
        <3> QED BY <2>1, <2>2, <3>1, <3>2 DEF launch, TypeOK, ZeroBelow
    <2> QED BY <2>3, <2>4
<1>12. CASE Counts
    BY <1>12, AcquisitionAssumption DEF Counts, launch, TypeOK, ZeroBelow
<1>13. CASE GivesUp
    BY <1>13, EndsType DEF GivesUp, TypeOK
<1>14. CASE Audits
    <2>1. CASE Audited
        BY <1>14, <2>1 DEF Audits, launch, batch, TypeOK, ZeroBelow
    <2>2. CASE ~Audited
        BY <1>14, <2>2, EndsType DEF Audits, TypeOK
    <2> QED BY <2>1, <2>2
<1>15. CASE ChecksReadiness
    <2>1. CASE Replayable
        BY <1>15, <2>1 DEF ChecksReadiness, launch, batch, TypeOK, ZeroBelow
    <2>2. CASE ~Replayable
        BY <1>15, <2>2, EndsType DEF ChecksReadiness, TypeOK
    <2> QED BY <2>1, <2>2
<1>16. CASE Completes
    BY <1>16, EndsType DEF Completes, TypeOK
<1> QED BY <1>1, <1>2, <1>3, <1>4, <1>5, <1>6, <1>7, <1>8, <1>9, <1>10, <1>11, <1>12, <1>13,
           <1>14, <1>15, <1>16 DEF Next, Goes, Trouble, Proceeds

\* The state keeps its shape: the lock has a holder just when the pipeline is
\* somewhere in its loop, and a cycle without progress is counted at most to
\* the threshold.
THEOREM TypeCorrect == Spec => []TypeOK
<1>1. TypeInv => TypeOK
    BY DEF TypeInv
<1> QED BY <1>1, TypeInit, TypeNext, PTL DEF Spec

---------------------------------------------------------------------------
(* The memory of the holder *)

\* Steps of others while the holder stays where it is.
Bystander == UNCHANGED <<files, step, task, kind, content, used, cap>>

\* Steps of the holder that touch no file and leave the files behind.
Leaves == files' = files /\ cap' = cap /\ step' \notin {"file", "writing"}

LEMMA StepCases ==
    ASSUME [Next]_vars
    PROVE  \/ Bystander
           \/ Leaves
           \/ Resumes \/ (\E c \in Content : Fetches(c)) \/ Keeps
           \/ Creates \/ Writes \/ WriteFails
<1>1. CASE UNCHANGED vars
    BY <1>1 DEF vars, work, disk, batch, Bystander
<1>2. ASSUME NEW r \in Runner, Starts(r) \/ TurnsAway(r) PROVE Bystander
    BY <1>2 DEF Starts, TurnsAway, disk, batch, Bystander
<1>3. ASSUME NEW r \in Runner, Locks(r) PROVE Leaves
    BY <1>3 DEF Locks, disk, Leaves
<1>4. ASSUME NEW r \in Runner, Dies(r) PROVE Bystander \/ Leaves
    BY <1>4 DEF Dies, Ends, disk, batch, Bystander, Leaves
<1>5. CASE OpensBudget
    BY <1>5 DEF OpensBudget, Ends, disk, Leaves
<1>6. CASE Skips \/ BatchEnds \/ ResumeFails \/ FetchFails \/ Rejects \/ Collides \/ Refused
    BY <1>6 DEF Skips, BatchEnds, ResumeFails, FetchFails, Rejects, Collides, Refused, TaskFails,
                NextTask, disk, Leaves
<1>7. CASE Counts \/ GoesOn \/ GivesUp
    BY <1>7 DEF Counts, GoesOn, GivesUp, Ends, disk, Leaves
<1>8. CASE Audits \/ ChecksReadiness \/ Completes
    BY <1>8 DEF Audits, ChecksReadiness, Completes, Ends, disk, Leaves
<1> QED BY <1>1, <1>2, <1>3, <1>4, <1>5, <1>6, <1>7, <1>8 DEF Next, Goes, Trouble, Proceeds

\* The three steps that touch a file change the one that is being written, and
\* that one was not whole.
LEMMA FileTouched ==
    ASSUME TypeInv, Derived, Creates \/ Writes \/ WriteFails
    PROVE  /\ kind \in Kind /\ task \in Task /\ content \in Content
           /\ ~Whole(files[kind][task])
           /\ \A k \in Kind, t \in Task :
                 k # kind \/ t # task => files'[k][t] = files[k][t]
           /\ Creates => files'[kind][task] = "torn"
           /\ Writes => files'[kind][task] = content
           /\ WriteFails => files'[kind][task] \in {"none", "torn"}
<1> USE DEF TypeInv, TypeOK
<1>1. /\ kind \in Kind /\ task \in Task /\ content \in Content
      /\ ~Whole(files[kind][task])
    BY AcquisitionAssumption DEF Derived, Creates, Ready, Writes, WriteFails, Whole
<1>2. CASE Creates
    <2>1. files' = [files EXCEPT ![kind][task] = "torn"]
        BY <1>2 DEF Creates
    <2>2. ~Writes /\ ~WriteFails
        BY <1>2 DEF Creates, Ready, Writes, WriteFails
    <2> QED BY <1>1, <2>1, <2>2
<1>3. CASE Writes
    <2>1. files' = [files EXCEPT ![kind][task] = content]
        BY <1>3 DEF Writes
    <2>2. ~Creates
        BY <1>3 DEF Creates, Ready, Writes
    <2>3. WriteFails => NextTask /\ used' = used
        BY DEF WriteFails, TaskFails
    <2>4. used' = used + 1
        BY <1>3 DEF Writes, Recorded
    <2>5. ~WriteFails
        BY <2>3, <2>4
    <2> QED BY <1>1, <2>1, <2>2, <2>5
<1>4. CASE WriteFails
    <2>1. files' \in {files, [files EXCEPT ![kind][task] = "none"]}
        BY <1>4 DEF WriteFails
    <2>2. files[kind][task] = "torn"
        BY <1>4 DEF WriteFails, Derived
    <2>3. ~Creates
        BY <1>4 DEF Creates, Ready, WriteFails
    <2>4. ~Writes
        <3>1. used' = used
            BY <1>4 DEF WriteFails, TaskFails
        <3> QED BY <3>1 DEF Writes, Recorded
    <2> QED BY <1>1, <2>1, <2>2, <2>3, <2>4
<1> QED BY <1>2, <1>3, <1>4

LEMMA DerivedInit == Init => Derived
BY DEF Init, Derived

LEMMA DerivedNext == TypeInv /\ Derived /\ [Next]_vars => Derived'
<1> SUFFICES ASSUME TypeInv, Derived, [Next]_vars PROVE Derived'
    OBVIOUS
<1>1. CASE Bystander
    BY <1>1 DEF Bystander, Derived
<1>2. CASE Leaves
    BY <1>2 DEF Leaves, Derived
<1>3. CASE Resumes
    BY <1>3 DEF Resumes, disk, Derived
<1>4. ASSUME NEW c \in Content, Fetches(c) PROVE Derived'
    BY <1>4 DEF Fetches, disk, Derived
<1>5. CASE Keeps
    <2>1. /\ files[kind][task] = content /\ kind' = After(kind) /\ step = "file" /\ step' = "file"
          /\ UNCHANGED <<files, task, content>>
        BY <1>5 DEF Keeps, Ready, disk
    <2> QED BY <2>1 DEF Derived, After, TypeInv, TypeOK, Kind
<1>6. CASE Creates
    <2>1. /\ step = "file" /\ step' = "writing" /\ UNCHANGED <<task, kind, content>>
        BY <1>6 DEF Creates, Ready, batch
    <2>2. /\ kind \in Kind /\ task \in Task /\ files'[kind][task] = "torn"
          /\ \A k \in Kind : k # kind => files'[k][task] = files[k][task]
        BY <1>6, FileTouched
    <2> QED BY <2>1, <2>2 DEF Derived, Kind
<1>7. CASE Writes
    <2>1. step = "writing"
        BY <1>7 DEF Writes
    <2>2. /\ kind \in Kind /\ task \in Task /\ files'[kind][task] = content
          /\ \A k \in Kind : k # kind => files'[k][task] = files[k][task]
        BY <1>7, FileTouched
    <2>3. CASE kind = "result"
        BY <1>7, <2>3 DEF Writes, NextTask, Derived
    <2>4. CASE kind # "result"
        <3>1. kind' = After(kind) /\ step' = "file" /\ UNCHANGED <<task, content>>
            BY <1>7, <2>4 DEF Writes
        <3> QED BY <2>1, <2>2, <2>4, <3>1 DEF Derived, After, Kind
    <2> QED BY <2>3, <2>4
<1>8. CASE WriteFails
    BY <1>8 DEF WriteFails, TaskFails, NextTask, Derived
<1> QED BY <1>1, <1>2, <1>3, <1>4, <1>5, <1>6, <1>7, <1>8, StepCases

---------------------------------------------------------------------------
(* The files *)

LEMMA WholeStays ==
    ASSUME TypeInv, Derived, [Next]_vars,
           NEW k \in Kind, NEW t \in Task, Whole(files[k][t])
    PROVE  files'[k][t] = files[k][t]
<1>1. CASE Creates \/ Writes \/ WriteFails
    BY <1>1, FileTouched
<1>2. CASE ~(Creates \/ Writes \/ WriteFails)
    <2>1. files' = files
        BY <1>2, StepCases DEF Bystander, Leaves, Resumes, Fetches, Keeps, disk
    <2> QED BY <2>1
<1> QED BY <1>1, <1>2

\* Only a finished write makes a file whole, the one being written.
LEMMA WholeComes ==
    ASSUME TypeInv, Derived, [Next]_vars,
           NEW k \in Kind, NEW t \in Task, Whole(files'[k][t]), ~Whole(files[k][t])
    PROVE  Writes /\ k = kind /\ t = task
<1>1. ~Whole("none") /\ ~Whole("torn")
    BY AcquisitionAssumption DEF Whole
<1>2. files' # files
    OBVIOUS
<1>3. Creates \/ Writes \/ WriteFails
    BY <1>2, StepCases DEF Bystander, Leaves, Resumes, Fetches, Keeps, disk
<1>4. k = kind /\ t = task
    BY <1>3, FileTouched
<1> QED BY <1>1, <1>3, <1>4, FileTouched

\* What a process that dies leaves behind: the results that can be read are
\* made of what is on the disk.
LEMMA BackedNext ==
    TypeInv /\ Derived /\ ResultsBacked /\ [Next]_vars => ResultsBacked'
<1> SUFFICES ASSUME TypeInv, Derived, ResultsBacked, [Next]_vars,
                    NEW t \in Task, Whole(files'["result"][t])
             PROVE  /\ files'["input"][t] = files'["result"][t]
                    /\ files'["result"][t] # NoRecords =>
                          /\ files'["object"][t] = files'["result"][t]
                          /\ files'["manifest"][t] = files'["result"][t]
    BY DEF ResultsBacked, Whole
<1> USE DEF Kind
<1>1. CASE Whole(files["result"][t])
    <2>1. files'["result"][t] = files["result"][t]
        BY <1>1, WholeStays
    <2>2. files["input"][t] = files["result"][t]
        BY <1>1 DEF ResultsBacked
    <2>3. files'["input"][t] = files["input"][t]
        BY <1>1, <2>2, WholeStays
    <2>4. CASE files["result"][t] # NoRecords
        <3>1. files["object"][t] = files["result"][t] /\ files["manifest"][t] = files["result"][t]
            BY <1>1, <2>4 DEF ResultsBacked
        <3>2. files'["object"][t] = files["object"][t]
            BY <1>1, <3>1, WholeStays
        <3>3. files'["manifest"][t] = files["manifest"][t]
            BY <1>1, <3>1, WholeStays
        <3> QED BY <2>1, <2>2, <2>3, <3>1, <3>2, <3>3
    <2> QED BY <2>1, <2>2, <2>3, <2>4
<1>2. CASE ~Whole(files["result"][t])
    <2>1. Writes /\ kind = "result" /\ t = task
        BY <1>2, WholeComes
    <2>2. step = "writing"
        BY <2>1 DEF Writes
    <2>3. files'["result"][t] = content /\ \A k \in Kind : k # "result" => files'[k][t] = files[k][t]
        BY <2>1, FileTouched
    <2> QED BY <2>1, <2>2, <2>3 DEF Derived
<1> QED BY <1>1, <1>2

LEMMA AuditNext == TypeInv /\ Derived /\ AuditHolds /\ [Next]_vars => AuditHolds'
<1> SUFFICES ASSUME TypeInv, Derived, AuditHolds, [Next]_vars,
                    step' \in {"readiness", "final"}, NEW t \in Task
             PROVE  Whole(files'["result"][t])
    BY DEF AuditHolds, Whole
<1>1. Whole(files["result"][t])
    <2>1. CASE step \in {"readiness", "final"}
        BY <2>1 DEF AuditHolds
    <2>2. CASE step \notin {"readiness", "final"}
        <3>1. step' # step
            BY <2>2
        <3>2. ~UNCHANGED vars
            BY <3>1 DEF vars, work
        <3>3. \A r \in Runner : ~Starts(r) /\ ~Locks(r) /\ ~TurnsAway(r) /\ ~Dies(r)
            BY <3>1 DEF Starts, Locks, TurnsAway, Dies, Ends
        <3>4. ~OpensBudget /\ ~Skips /\ ~BatchEnds /\ ~Resumes /\ ~ResumeFails
                /\ \A c \in Content : ~Fetches(c)
            BY DEF OpensBudget, Ends, Skips, BatchEnds, Resumes, ResumeFails, Fetches,
                   TaskFails, NextTask
        <3>5. ~Rejects /\ ~Keeps /\ ~Collides /\ ~Refused /\ ~Creates /\ ~FetchFails /\ ~WriteFails
            BY DEF Rejects, Ready, Keeps, Collides, Refused, Creates, FetchFails, WriteFails,
                   TaskFails, NextTask
        <3>6. ~Writes
            BY DEF Writes, NextTask
        <3>7. ~Counts /\ ~GoesOn /\ ~GivesUp /\ ~Completes
            BY DEF Counts, GoesOn, GivesUp, Completes, Ends
        <3>8. ~ChecksReadiness
            BY <2>2 DEF ChecksReadiness
        <3>9. Audits
            BY <3>2, <3>3, <3>4, <3>5, <3>6, <3>7, <3>8 DEF Next, Goes, Trouble, Proceeds
        <3>10. Audited
            BY <3>9 DEF Audits, Ends
        <3> QED BY <3>10 DEF Audited
    <2> QED BY <2>1, <2>2
<1> QED BY <1>1, WholeStays DEF Kind

LEMMA TerminalNext ==
    TypeInv /\ Derived /\ AuditHolds /\ TerminalOnEvidence /\ [Next]_vars => TerminalOnEvidence'
<1> SUFFICES ASSUME TypeInv, Derived, AuditHolds, TerminalOnEvidence, [Next]_vars,
                    status' = "complete", NEW t \in Task
             PROVE  Whole(files'["result"][t])
    BY DEF TerminalOnEvidence, Whole
<1>1. Whole(files["result"][t])
    <2>1. CASE status = "complete"
        BY <2>1 DEF TerminalOnEvidence
    <2>2. CASE status # "complete"
        <3>1. status' # status
            BY <2>2
        <3>2. ~UNCHANGED vars /\ ~OpensBudget /\ ~GoesOn /\ ~Audits /\ ~ChecksReadiness
            BY <3>1 DEF vars, work, disk, OpensBudget, GoesOn, Audits, ChecksReadiness
        <3>3. \A r \in Runner : ~Starts(r) /\ ~Locks(r) /\ ~TurnsAway(r) /\ ~Dies(r)
            BY <3>1 DEF Starts, Locks, TurnsAway, Dies, disk
        <3>4. ~Skips /\ ~BatchEnds /\ ~Resumes /\ ~ResumeFails /\ ~FetchFails
                /\ \A c \in Content : ~Fetches(c)
            BY <3>1 DEF Skips, BatchEnds, Resumes, ResumeFails, FetchFails, Fetches, disk
        <3>5. ~Rejects /\ ~Keeps /\ ~Collides /\ ~Refused /\ ~Creates /\ ~Writes /\ ~WriteFails
            BY <3>1 DEF Rejects, Ready, Keeps, Collides, Refused, Creates, Writes, WriteFails, disk
        <3>6. ~Counts /\ ~GivesUp
            BY DEF Counts, GivesUp
        <3>7. Completes
            BY <3>2, <3>3, <3>4, <3>5, <3>6 DEF Next, Goes, Trouble, Proceeds
        <3> QED BY <3>7 DEF Completes, AuditHolds
    <2> QED BY <2>1, <2>2
<1> QED BY <1>1, WholeStays DEF Kind

---------------------------------------------------------------------------
(* The hard cap *)

LEMMA CapInit == Init => Accounted /\ CapRespected
<1> SUFFICES ASSUME Init PROVE Accounted /\ CapRespected
    OBVIOUS
<1>1. ~Whole("none")
    BY AcquisitionAssumption DEF Whole
<1>2. WholeFiles = {}
    <2>1. ASSUME NEW f \in WholeFiles PROVE FALSE
        <3>1. f[1] \in Kind /\ f[2] \in Task /\ Whole(files[f[1]][f[2]])
            BY DEF WholeFiles
        <3>2. files[f[1]][f[2]] = "none"
            BY <3>1 DEF Init
        <3> QED BY <1>1, <3>1, <3>2
    <2> QED BY <2>1
<1>3. Cardinality(WholeFiles) = 0
    BY <1>2, FS_EmptySet
<1> QED BY <1>3, AcquisitionAssumption DEF Init, Accounted, CapRespected

\* One more file at most is whole after a step, and only after a write.
LEMMA OneMoreFile ==
    ASSUME TypeInv, Derived, [Next]_vars
    PROVE  /\ Cardinality(WholeFiles') <= Cardinality(WholeFiles) + 1
           /\ ~Writes => Cardinality(WholeFiles') <= Cardinality(WholeFiles)
           /\ Cardinality(WholeFiles') \in Nat
<1>1. CASE Writes
    <2>1. WholeFiles' \in SUBSET (WholeFiles \cup {<<kind, task>>})
        <3>1. ASSUME NEW f \in WholeFiles', f \notin WholeFiles PROVE f = <<kind, task>>
            <4>1. f \in Kind \X Task /\ Whole(files'[f[1]][f[2]])
                BY DEF WholeFiles, Whole
            <4>2. ~Whole(files[f[1]][f[2]])
                BY <3>1, <4>1 DEF WholeFiles
            <4>3. f[1] = kind /\ f[2] = task
                BY <4>1, <4>2, WholeComes
            <4> QED BY <4>1, <4>3
        <3> QED BY <3>1
    <2>2. /\ IsFiniteSet(WholeFiles \cup {<<kind, task>>})
          /\ Cardinality(WholeFiles \cup {<<kind, task>>}) <= Cardinality(WholeFiles) + 1
          /\ Cardinality(WholeFiles \cup {<<kind, task>>}) \in Nat
        BY FilesFinite, FS_AddElement
    <2>3. /\ Cardinality(WholeFiles') <= Cardinality(WholeFiles \cup {<<kind, task>>})
          /\ IsFiniteSet(WholeFiles')
        BY <2>1, <2>2, FS_Subset
    <2> QED BY <1>1, <2>2, <2>3, FilesFinite, FS_CardinalityType
<1>2. CASE ~Writes
    <2>1. WholeFiles' \in SUBSET WholeFiles
        <3>1. ASSUME NEW f \in WholeFiles', f \notin WholeFiles PROVE FALSE
            <4>1. f \in Kind \X Task /\ Whole(files'[f[1]][f[2]])
                BY DEF WholeFiles, Whole
            <4>2. ~Whole(files[f[1]][f[2]])
                BY <3>1, <4>1 DEF WholeFiles
            <4> QED BY <1>2, <4>1, <4>2, WholeComes
        <3> QED BY <3>1
    <2>2. Cardinality(WholeFiles') <= Cardinality(WholeFiles) /\ IsFiniteSet(WholeFiles')
        BY <2>1, FilesFinite, FS_Subset
    <2> QED BY <1>2, <2>2, FilesFinite, FS_CardinalityType
<1> QED BY <1>1, <1>2

LEMMA CapNext ==
    TypeInv /\ Derived /\ Accounted /\ CapRespected /\ [Next]_vars => Accounted' /\ CapRespected'
<1> SUFFICES ASSUME TypeInv, Derived, Accounted, CapRespected, [Next]_vars
             PROVE  Accounted' /\ CapRespected'
    OBVIOUS
<1>1. used \in Nat /\ cap \in Nat /\ Cardinality(WholeFiles) \in Nat
    BY FilesFinite, AcquisitionAssumption DEF TypeInv, TypeOK
<1>2. CASE Writes
    <2>1. /\ used' = used + 1 /\ cap' = cap /\ step' # "writing"
          /\ Cardinality(WholeFiles) <= used /\ used + 1 <= cap
        BY <1>2 DEF Writes, Recorded, NextTask, Accounted
    <2>2. Cardinality(WholeFiles') <= Cardinality(WholeFiles) + 1 /\ Cardinality(WholeFiles') \in Nat
        BY OneMoreFile
    <2> QED BY <1>1, <2>1, <2>2 DEF Accounted, CapRespected
<1>3. CASE ~Writes
    <2>1. Cardinality(WholeFiles') <= Cardinality(WholeFiles) /\ Cardinality(WholeFiles') \in Nat
        BY <1>3, OneMoreFile
    <2>2. cap' = cap
        BY StepCases DEF Bystander, Leaves, Resumes, Fetches, Keeps, Creates, Writes, WriteFails, disk
    <2>3. CapRespected'
        BY <1>1, <2>1, <2>2 DEF CapRespected
    <2>4. CASE used' = used /\ step \in {"task", "file", "writing"}
                   /\ (step' = "writing" => step = "writing" \/ used + 1 <= cap)
        BY <1>1, <2>1, <2>2, <2>3, <2>4 DEF Accounted
    <2>5. CASE step' \notin {"task", "file", "writing"}
        BY <2>3, <2>5 DEF Accounted
    <2>6. CASE OpensBudget
        <3>1. CASE step' = "idle"
            BY <2>5, <3>1
        <3>2. CASE step' # "idle"
            <4>1. step' = "task" /\ used' = Bytes
                BY <2>6, <3>2 DEF OpensBudget, Ends
            <4>2. Cardinality(WholeFiles) <= Bytes /\ Bytes \in Nat
                BY BytesType DEF TypeInv
            <4> QED BY <1>1, <2>1, <2>3, <4>1, <4>2 DEF Accounted
        <3> QED BY <3>1, <3>2
    <2>7. CASE UNCHANGED <<step, used>>
        BY <2>4, <2>5, <2>7
    <2>8. UNCHANGED <<step, used>> \/ OpensBudget \/ step' \notin {"task", "file", "writing"}
             \/ (/\ used' = used /\ step \in {"task", "file", "writing"}
                 /\ step' = "writing" => step = "writing" \/ used + 1 <= cap)
        <3>1. CASE UNCHANGED vars
            BY <3>1 DEF vars, work, batch
        <3>2. ASSUME NEW r \in Runner, Starts(r) \/ Locks(r) \/ TurnsAway(r) \/ Dies(r)
              PROVE  UNCHANGED <<step, used>> \/ step' \notin {"task", "file", "writing"}
            BY <3>2 DEF Starts, Locks, TurnsAway, Dies, Ends, batch
        <3>3. CASE Skips \/ ResumeFails \/ FetchFails \/ Rejects \/ Collides \/ Refused \/ WriteFails
            BY <3>3 DEF Skips, ResumeFails, FetchFails, Rejects, Ready, Collides, Refused, WriteFails, TaskFails,
                        NextTask, AtTask, Open
        <3>4. CASE Resumes \/ (\E c \in Content : Fetches(c)) \/ Keeps \/ Creates
            BY <3>4 DEF Resumes, Fetches, Keeps, Creates, Ready, AtTask, Open, batch
        <3>5. CASE BatchEnds \/ Counts \/ GoesOn \/ GivesUp \/ Audits \/ ChecksReadiness \/ Completes
            BY <3>5 DEF BatchEnds, Counts, GoesOn, GivesUp, Audits, ChecksReadiness, Completes,
                        Ends, batch
        <3> QED BY <1>3, <3>1, <3>2, <3>3, <3>4, <3>5 DEF Next, Goes, Trouble, Proceeds
    <2> QED BY <2>4, <2>5, <2>6, <2>7, <2>8
<1> QED BY <1>2, <1>3

---------------------------------------------------------------------------
(* Theorems *)

\* Wherever a process is killed, a result that can be read has its frozen
\* input, its objects and its manifest, all made of what was fetched once.
THEOREM ResultsAreBacked == Spec => []ResultsBacked
<1>1. Init => ResultsBacked
    BY AcquisitionAssumption DEF Init, ResultsBacked, Whole, Kind
<1> QED BY <1>1, TypeInit, TypeNext, DerivedInit, DerivedNext, BackedNext, PTL DEF Spec

\* A terminal status stands on results that can all be read, whatever torn
\* ones the batches have counted as completed.
THEOREM TerminalStandsOnEvidence == Spec => []TerminalOnEvidence
<1>1. Init => AuditHolds /\ TerminalOnEvidence
    BY DEF Init, AuditHolds, TerminalOnEvidence
<1> QED BY <1>1, TypeInit, TypeNext, DerivedInit, DerivedNext, AuditNext, TerminalNext, PTL
       DEF Spec

\* A checkpoint that is whole is never rewritten.
THEOREM CheckpointsImmutable == Spec => CheckpointsKept
<1>1. TypeInv /\ Derived /\ [Next]_vars
          => [\A k \in Kind, t \in Task :
                 Whole(files[k][t]) => files'[k][t] = files[k][t]]_vars
    BY WholeStays
<1> QED BY <1>1, TypeInit, TypeNext, DerivedInit, DerivedNext, PTL DEF Spec, CheckpointsKept

\* The immutable files stay within the hard cap, through every restart.
THEOREM CapHolds == Spec => []CapRespected
<1> QED BY TypeInit, TypeNext, DerivedInit, DerivedNext, CapInit, CapNext, PTL DEF Spec
====
