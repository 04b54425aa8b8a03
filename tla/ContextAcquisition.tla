--------------------------- MODULE ContextAcquisition ---------------------------
(***************************************************************************)
(* The background acquisition of external context: the loop of             *)
(* external_context_background.py under its file lock, the batches of      *)
(* execute_cninfo_personal_acquisition with their immutable checkpoints,   *)
(* and the audits that follow (run-external-context-research.sh).          *)
(*                                                                         *)
(* A task leaves four kinds of file: the frozen input, the objects (raw,   *)
(* silver and pit records) and the manifest made of it, and the result.    *)
(* Each is created exclusively and written after that, so a kill in        *)
(* between leaves it empty: torn.  Every file counts one byte, a torn one  *)
(* none.  What is fetched is a member of Content; the later files of a     *)
(* task carry the content they are derived from.                           *)
(*                                                                         *)
(* launchd starts the script at login and after every exit that is not 0;  *)
(* a user may start it too.  Everything after flock has one process only,  *)
(* whose variables are the ones from "step" to "used".                     *)
(***************************************************************************)
EXTENDS Integers, FiniteSets

CONSTANTS
    Runner,         \* processes of the script that may overlap
    Agent,          \* the one that launchd starts
    NumTasks,       \* tasks of the plan
    Content,        \* what a fetch may return
    NoRecords,      \* the content without records
    Invalid,        \* a content that the materialisation refuses
    Late,           \* contents with records available after the decision cutoff
    Batch,          \* max_tasks_this_run
    MaxZero,        \* max_zero_progress_cycles
    Caps            \* values of the hard cap on the artifact root

ASSUME AcquisitionAssumption ==
    /\ Agent \in Runner
    /\ "nobody" \notin Runner
    /\ NumTasks \in Nat \ {0} /\ Batch \in Nat \ {0} /\ MaxZero \in Nat \ {0}
    /\ NoRecords \in Content /\ Invalid # NoRecords
    /\ Late \subseteq Content \ {NoRecords}
    /\ Content \cap {"none", "torn"} = {}
    /\ Caps \subseteq Nat

Task == 1..NumTasks
Kind == {"input", "object", "manifest", "result"}

VARIABLES
    files,          \* the immutable files: "none", "torn" or their content
    status,         \* status of the state file; "none" without one
    reports,        \* curation and readiness report, once written
    cap,            \* NEWS_STORAGE_HARD_CAP_BYTES
    guarded,        \* processes between the script's look at the state file and flock
    holder,         \* process that has the lock, or "nobody"
    due,            \* launchd is to start its process
    turnedAway,     \* history: launchd's process found the lock taken
    step,           \* where the holder stands
    task,           \* the task it is at
    kind,           \* the file of that task it is at
    content,        \* the task's input in memory
    done,           \* tasks completed in this batch
    failed,         \* tasks failed in this batch
    zero,           \* zero_progress_cycles
    used,           \* used_bytes of the storage budget
    troubled        \* history: the last step was a kill, a failed fetch or write

disk == <<files, status, reports, cap>>
launch == <<guarded, holder, due, turnedAway>>
batch == <<task, kind, content, done, failed, zero, used>>
work == <<disk, launch, step, batch>>
vars == <<work, troubled>>

Whole(f) == f \in Content

WholeFiles == {f \in Kind \X Task : Whole(files[f[1]][f[2]])}

\* The bytes under the artifact root.
Bytes ==
    Cardinality(WholeFiles) + Cardinality(reports) + IF status = "none" THEN 0 ELSE 1

Remaining == Cardinality({t \in Task : files["result"][t] = "none"})

Init ==
    /\ files = [k \in Kind |-> [t \in Task |-> "none"]]
    /\ status = "none"
    /\ reports = {}
    /\ cap \in Caps
    /\ guarded = {}
    /\ holder = "nobody"
    /\ due = TRUE
    /\ turnedAway = FALSE
    /\ step = "idle"
    /\ task = 1 /\ kind = "input" /\ content = "none"
    /\ done = 0 /\ failed = 0 /\ zero = 0 /\ used = 0
    /\ troubled = FALSE

---------------------------------------------------------------------------
(* Start and end of a process *)

\* The script goes on unless the state file is terminal.
Starts(r) ==
    /\ r \notin guarded /\ holder # r
    /\ status # "complete"
    /\ r = Agent => due
    /\ guarded' = guarded \union {r}
    /\ due' = (due /\ r # Agent)
    /\ UNCHANGED <<disk, holder, turnedAway, step, batch>>

\* flock
Locks(r) ==
    /\ r \in guarded
    /\ holder = "nobody"
    /\ guarded' = guarded \ {r}
    /\ holder' = r
    /\ step' = "budget"
    /\ UNCHANGED <<disk, due, turnedAway, batch>>

\* "already_running" ends the process with exit code 0: launchd lets it be.
TurnsAway(r) ==
    /\ r \in guarded
    /\ holder # "nobody"
    /\ guarded' = guarded \ {r}
    /\ turnedAway' = (turnedAway \/ r = Agent)
    /\ UNCHANGED <<disk, holder, due, step, batch>>

\* The end of the holder: its memory and its lock are gone.
Ends(success) ==
    /\ holder' = "nobody"
    /\ due' = (due \/ (holder = Agent /\ ~success))
    /\ step' = "idle"
    /\ task' = 1 /\ kind' = "input" /\ content' = "none"
    /\ done' = 0 /\ failed' = 0 /\ zero' = 0 /\ used' = 0
    /\ UNCHANGED <<guarded, turnedAway>>

Dies(r) ==
    /\ \/ r \in guarded
          /\ guarded' = guarded \ {r}
          /\ due' = (due \/ r = Agent)
          /\ UNCHANGED <<holder, turnedAway, step, batch>>
       \/ r = holder /\ Ends(FALSE)
    /\ UNCHANGED disk

---------------------------------------------------------------------------
(* execute_cninfo_personal_acquisition *)

\* ExternalContextStorageBudget.from_root, which raises above the cap.
OpensBudget ==
    /\ step = "budget"
    /\ IF Bytes > cap THEN Ends(FALSE)
       ELSE /\ step' = "task"
            /\ task' = 1 /\ done' = 0 /\ failed' = 0 /\ used' = Bytes
            /\ UNCHANGED <<launch, kind, content, zero>>
    /\ UNCHANGED disk

AtTask == step = "task" /\ task \in Task

NextTask == step' = "task" /\ task' = task + 1 /\ kind' = "input" /\ content' = "none"

\* The except clause of a task.
TaskFails ==
    /\ NextTask
    /\ failed' = failed + 1
    /\ UNCHANGED <<launch, done, zero, used>>

\* A result that exists, whatever is in it, counts as completed.
Skips ==
    /\ AtTask
    /\ files["result"][task] # "none"
    /\ NextTask
    /\ UNCHANGED <<disk, launch, done, failed, zero, used>>

BatchFull == done + failed >= Batch

BatchEnds ==
    /\ step = "task"
    /\ task \in Task => (files["result"][task] = "none" /\ BatchFull)
    /\ step' = "count"
    /\ UNCHANGED <<disk, launch, batch>>

Open == AtTask /\ files["result"][task] = "none" /\ ~BatchFull

\* Which file comes after one of kind k.
After(k) ==
    CASE k = "input" -> IF content = NoRecords THEN "result" ELSE "object"
      [] k = "object" -> "manifest"
      [] OTHER -> "result"

\* Mutant of Resumes: the objects and the manifest are taken as made.
MutantResumes ==
    /\ Open
    /\ Whole(files["input"][task])
    /\ content' = files["input"][task]
    /\ kind' = "result"
    /\ step' = "file"
    /\ UNCHANGED <<disk, launch, task, done, failed, zero, used>>

\* checkpoint_resume
Resumes ==
    /\ Open
    /\ Whole(files["input"][task])
    /\ content' = files["input"][task]
    /\ kind' = IF content' = NoRecords THEN "result" ELSE "object"
    /\ step' = "file"
    /\ UNCHANGED <<disk, launch, task, done, failed, zero, used>>

\* A torn input cannot be decompressed.
ResumeFails ==
    /\ Open
    /\ files["input"][task] = "torn"
    /\ TaskFails
    /\ UNCHANGED disk

\* network_fetch
Fetches(c) ==
    /\ Open
    /\ files["input"][task] = "none"
    /\ content' = c
    /\ kind' = "input"
    /\ step' = "file"
    /\ UNCHANGED <<disk, launch, task, done, failed, zero, used>>

\* The last attempt fails.  It may do so whenever it is made: with the network,
\* or for good when the symbol is not in the stock map or has too many pages.
FetchFails ==
    /\ Open
    /\ files["input"][task] = "none"
    /\ TaskFails
    /\ UNCHANGED disk

\* materialize_external_context_pilot validates the records before it writes one.
\* The input stays: every later attempt resumes from it and fails too.
Rejects ==
    /\ step = "file" /\ kind = "object"
    /\ content = Invalid
    /\ TaskFails
    /\ UNCHANGED disk

\* What may be written.
Ready == step = "file" /\ ~(kind = "object" /\ content = Invalid)

\* _write_immutable, _write_immutable_gzip, _write_immutable_json: a file that
\* is there must be the same.
Keeps ==
    /\ Ready
    /\ files[kind][task] = content
    /\ kind' = After(kind)
    /\ UNCHANGED <<disk, launch, step, task, content, done, failed, zero, used>>

Collides ==
    /\ Ready
    /\ files[kind][task] \notin {"none", content}
    /\ TaskFails
    /\ UNCHANGED disk

\* ensure_can_add
Refused ==
    /\ Ready
    /\ files[kind][task] = "none"
    /\ used + 1 > cap
    /\ TaskFails
    /\ UNCHANGED disk

\* Mutant of Creates: the file is opened without O_EXCL, and truncated.
MutantCreates ==
    /\ Ready
    /\ used + 1 <= cap
    /\ files' = [files EXCEPT ![kind][task] = "torn"]
    /\ step' = "writing"
    /\ UNCHANGED <<status, reports, cap, launch, batch>>

\* os.open with O_CREAT and O_EXCL
Creates ==
    /\ Ready
    /\ files[kind][task] = "none"
    /\ used + 1 <= cap
    /\ files' = [files EXCEPT ![kind][task] = "torn"]
    /\ step' = "writing"
    /\ UNCHANGED <<status, reports, cap, launch, batch>>

\* Mutant of Recorded: record_addition is left out.
MutantRecorded == used

\* record_addition
Recorded == used + 1

\* The content is written; the result ends the task.
Writes ==
    /\ step = "writing"
    /\ files' = [files EXCEPT ![kind][task] = content]
    /\ used' = Recorded
    /\ IF kind = "result"
       THEN NextTask /\ done' = done + 1
       ELSE kind' = After(kind) /\ step' = "file" /\ UNCHANGED <<task, content, done>>
    /\ UNCHANGED <<status, reports, cap, launch, failed, zero>>

\* An error of the operating system, for once or for good: the objects and the
\* manifest are unlinked, an input or a result stays as it is.
WriteFails ==
    /\ step = "writing"
    /\ files' = IF kind \in {"object", "manifest"}
                THEN [files EXCEPT ![kind][task] = "none"] ELSE files
    /\ TaskFails
    /\ UNCHANGED <<status, reports, cap>>

---------------------------------------------------------------------------
(* run_external_context_background_pipeline *)

\* Mutant of Counts: progress is not looked at, and the state file gets a status
\* that no reader knows.
MutantCounts ==
    /\ step = "count"
    /\ zero' = zero + 1
    /\ status' = IF Remaining > 0 THEN "acquiring" ELSE "finalising"
    /\ step' = "decide"
    /\ UNCHANGED <<files, reports, cap, launch, task, kind, content, done, failed, used>>

\* The state file after each batch.
Counts ==
    /\ step = "count"
    /\ zero' = IF done = 0 /\ Remaining > 0 THEN zero + 1 ELSE 0
    /\ status' = IF Remaining > 0 THEN "acquiring" ELSE "finalizing"
    /\ step' = "decide"
    /\ UNCHANGED <<files, reports, cap, launch, task, kind, content, done, failed, used>>

Finished == Remaining = 0 /\ failed = 0

GoesOn ==
    /\ step = "decide"
    /\ Finished \/ zero < MaxZero
    /\ step' = IF Finished THEN "audit" ELSE "budget"
    /\ UNCHANGED <<disk, launch, batch>>

\* Mutant of GivesUp: the process ends as if it had succeeded.
MutantGivesUp ==
    /\ step = "decide"
    /\ ~Finished /\ zero >= MaxZero
    /\ status' = "waiting"
    /\ Ends(TRUE)
    /\ UNCHANGED <<files, reports, cap>>

\* The zero-progress threshold raises, for launchd to start the process again.
GivesUp ==
    /\ step = "decide"
    /\ ~Finished /\ zero >= MaxZero
    /\ status' = "waiting"
    /\ Ends(FALSE)
    /\ UNCHANGED <<files, reports, cap>>

\* Mutant of Audited: the results are counted and not read.
MutantAudited == \A t \in Task : files["result"][t] # "none"

\* audit_cninfo_personal_curation parses every result, its frozen input and the
\* manifest it names.
Audited ==
    \A t \in Task :
        /\ Whole(files["result"][t])
        /\ Whole(files["input"][t])
        /\ files["result"][t] # NoRecords => Whole(files["manifest"][t])

Audits ==
    /\ step = "audit"
    /\ IF Audited
       THEN /\ reports' = reports \union {"curation"}
            /\ step' = "readiness"
            /\ UNCHANGED <<launch, batch>>
       ELSE Ends(FALSE) /\ UNCHANGED reports
    /\ UNCHANGED <<files, status, cap>>

\* replay_external_context_offline selects the records available by the cutoff,
\* the audit of the curation counts them all.
CountsAgree == \A t \in Task : Whole(files["result"][t]) => files["result"][t] \notin Late

\* audit_external_context_ablation_readiness wants a manifest at least, parses
\* them all, verifies the files they list and compares the counts.
Replayable ==
    /\ \E t \in Task : Whole(files["manifest"][t])
    /\ \A t \in Task : /\ files["manifest"][t] # "torn"
                       /\ Whole(files["manifest"][t])
                              => files["object"][t] = files["manifest"][t]
    /\ CountsAgree

ChecksReadiness ==
    /\ step = "readiness"
    /\ IF Replayable
       THEN /\ reports' = reports \union {"readiness"}
            /\ step' = "final"
            /\ UNCHANGED <<launch, batch>>
       ELSE Ends(FALSE) /\ UNCHANGED reports
    /\ UNCHANGED <<files, status, cap>>

\* Either terminal status.
Completes ==
    /\ step = "final"
    /\ status' = "complete"
    /\ Ends(TRUE)
    /\ UNCHANGED <<files, reports, cap>>

\* What the holder does by itself.
Proceeds ==
    \/ OpensBudget
    \/ Skips \/ BatchEnds \/ Resumes \/ ResumeFails
    \/ \E c \in Content : Fetches(c)
    \/ Rejects \/ Keeps \/ Collides \/ Refused \/ Creates \/ Writes
    \/ Counts \/ GoesOn \/ GivesUp \/ Audits \/ ChecksReadiness \/ Completes

Goes == Proceeds \/ \E r \in Runner : Starts(r) \/ Locks(r) \/ TurnsAway(r)

\* What may happen at any time, and as often as it likes.
Trouble == FetchFails \/ WriteFails \/ \E r \in Runner : Dies(r)

Next ==
    \/ Goes /\ troubled' = FALSE
    \/ Trouble /\ troubled' = TRUE

Spec == Init /\ [][Next]_vars

\* launchd starts its process when it is due, and processes go on.
FairSpec ==
    /\ Spec
    /\ WF_work(Starts(Agent))
    /\ \A r \in Runner : WF_work(Locks(r) \/ TurnsAway(r))
    /\ WF_work(Proceeds)

---------------------------------------------------------------------------
(* Properties *)

TypeOK ==
    /\ files \in [Kind -> [Task -> Content \union {"none", "torn"}]]
    /\ status \in {"none", "acquiring", "finalizing", "waiting", "complete"}
    /\ reports \subseteq {"curation", "readiness"}
    /\ cap \in Caps
    /\ guarded \subseteq Runner
    /\ holder \in Runner \union {"nobody"}
    /\ due \in BOOLEAN /\ turnedAway \in BOOLEAN
    /\ step \in {"idle", "budget", "task", "file", "writing", "count", "decide",
                 "audit", "readiness", "final"}
    /\ task \in 1..NumTasks + 1
    /\ kind \in Kind
    /\ content \in Content \union {"none"}
    /\ done \in Nat /\ failed \in Nat /\ zero \in 0..MaxZero /\ used \in Nat
    /\ troubled \in BOOLEAN
    /\ holder = "nobody" <=> step = "idle"
    /\ step \in {"file", "writing"} => task \in Task /\ content \in Content

\* external_context_acquisition.py:451 calls it an error that a completed task
\* lacks its frozen input: wherever a process is killed, a result that can be
\* read has its input, and its objects and manifest are made from that input.
ResultsBacked ==
    \A t \in Task : Whole(files["result"][t]) =>
        /\ files["input"][t] = files["result"][t]
        /\ files["result"][t] # NoRecords =>
               /\ files["object"][t] = files["result"][t]
               /\ files["manifest"][t] = files["result"][t]

\* The state file is terminal only when every task has a result that can be
\* read, whatever torn files the batches have counted as completed.
TerminalOnEvidence ==
    status = "complete" => \A t \in Task : Whole(files["result"][t])

\* A checkpoint is immutable: once written it stays, through every retry,
\* restart and overlap.
CheckpointsKept ==
    [][\A k \in Kind, t \in Task :
           Whole(files[k][t]) => files'[k][t] = files[k][t]]_vars

\* The immutable files never exceed the hard cap, although each batch adds up
\* its own budget and a killed one loses it.
CapRespected == Cardinality(WholeFiles) <= cap

\* A file that nobody is writing and nobody can read.
Damaged ==
    \E k \in Kind, t \in Task :
        files[k][t] = "torn" /\ ~(step = "writing" /\ kind = k /\ task = t)

\* No provider had a record, so there is no manifest to replay.
Nothing == \A t \in Task : files["input"][t] = NoRecords

\* If kills, failed fetches and failed writes come to an end, the acquisition
\* comes to its terminal state through all of them and through restarts, unless a
\* file was damaged, an invalid input or one with records after the cutoff was
\* frozen, launchd's process was turned away, the cap leaves no room for the
\* reports, or there is no record.
Terminates ==
    <>[]~troubled =>
        \/ <>(status = "complete")
        \/ <>Damaged
        \/ <>(\E t \in Task : files["input"][t] \in Late \union {Invalid})
        \/ <>turnedAway
        \/ <>Nothing
        \/ cap < Cardinality(Kind) * NumTasks + 3
=================================================================================
