----------------------------- MODULE ManualResearch -----------------------------
(***************************************************************************)
(* Manual research requests (manual_research_workflow.py) under concurrent *)
(* API calls: each has a row in the database and, once it is answered, an  *)
(* artifact file under its own key.                                        *)
(*                                                                         *)
(* A handler reads the row, decides on what it has read, and commits at    *)
(* its end (api.py:2058-2201).  SQLite lets one transaction write at a     *)
(* time, from its first flush to its end, and reads take no lock, so a row *)
(* can be committed by another call between the read and the flush.        *)
(* SQLAlchemy does not read it again, and writes the columns that differ   *)
(* from the values it has loaded.  The artifact file is under no           *)
(* transaction: what is written stays, whatever becomes of the row.        *)
(*                                                                         *)
(* A call stands also for what it leaves behind: the request it creates,   *)
(* the answer in an artifact, the timestamps it sets.                      *)
(***************************************************************************)
EXTENDS Naturals

CONSTANT Call       \* calls of the API, each issued at most once

ASSUME CallAssumption == Call \cap {"none", "torn"} = {}

VARIABLES
    call,           \* of each call: where it is, its request, the row as it knows it
    row,            \* committed rows, by the call that created the request
    file,           \* artifact files: "none", "torn" or the call that wrote it
    writer,         \* the call whose transaction holds the write lock, or "none"
    overlapped      \* history: requests that two calls have worked on at a time

vars == <<call, row, file, writer, overlapped>>

---------------------------------------------------------------------------
(* Rows *)

Statuses == {"absent", "queued", "in_progress", "completed", "failed"}

Rows == [status : Statuses,
         artifact : BOOLEAN,                \* artifact_id is set
         completedAt : Call \union {"none"},
         failedAt : Call \union {"none"},
         supersededBy : Call \union {"none"}]

Absent == [status |-> "absent", artifact |-> FALSE, completedAt |-> "none",
           failedAt |-> "none", supersededBy |-> "none"]

New == [Absent EXCEPT !.status = "queued"]

\* Mutant of Completed: the traces of an earlier failure stay.
MutantCompleted(view, c) ==
    [view EXCEPT !.status = "completed", !.artifact = TRUE, !.completedAt = c]

\* complete_manual_research_request
Completed(view, c) ==
    [view EXCEPT !.status = "completed", !.artifact = TRUE,
                 !.completedAt = c, !.failedAt = "none"]

\* fail_manual_research_request
Failed(view, c) ==
    [view EXCEPT !.status = "failed", !.completedAt = "none", !.failedAt = c]

\* execute_manual_research_request without the built-in executor.
Requeued(view) == [view EXCEPT !.status = "queued"]

\* The flush of execute_manual_research_request before the model is asked.
Started(view) == [view EXCEPT !.status = "in_progress"]

\* Mutant of Written: the row is saved as a whole.
MutantWritten(old, view, new) == new

\* An UPDATE writes the columns that differ from what the session has loaded.
Written(old, view, new) ==
    [column \in DOMAIN old |->
        IF new[column] = view[column] THEN old[column] ELSE new[column]]

---------------------------------------------------------------------------
(* Calls *)

Init ==
    /\ call = [c \in Call |-> [at |-> "ready", on |-> c, view |-> Absent]]
    /\ row = [c \in Call |-> Absent]
    /\ file = [c \in Call |-> "none"]
    /\ writer = "none"
    /\ overlapped = {}

Idle == {"ready", "done"}

Goes(c, place) == call' = [call EXCEPT ![c].at = place]

\* The session is closed: committed or rolled back, its lock is free.
Ends(c) ==
    /\ Goes(c, "done")
    /\ writer' = IF writer = c THEN "none" ELSE writer

\* The lock is free or the call has it.
MayWrite(c) == writer \in {"none", c}

\* create_manual_research_request
Create(c) ==
    /\ call[c].at = "ready"
    /\ writer = "none"
    /\ row' = [row EXCEPT ![c] = New]
    /\ Goes(c, "done")
    /\ UNCHANGED <<file, writer, overlapped>>

\* retry_manual_research_request: a new request takes over, whatever the state
\* of the original, which another retry may have superseded before.
Retry(c, r) ==
    /\ call[c].at = "ready"
    /\ row[r].status # "absent"
    /\ writer = "none"
    /\ row' = [row EXCEPT ![c] = New, ![r].supersededBy = c]
    /\ Goes(c, "done")
    /\ UNCHANGED <<file, writer, overlapped>>

\* Mutant of Opens: the handler does not look for an artifact.
MutantOpens(c, r, place) ==
    /\ call[c].at = "ready"
    /\ row[r].status # "absent"
    /\ call' = [call EXCEPT ![c] = [at |-> place, on |-> r, view |-> row[r]]]
    /\ overlapped' = IF \E d \in Call : call[d].on = r /\ call[d].at \notin Idle
                     THEN overlapped \union {r} ELSE overlapped
    /\ UNCHANGED <<row, file, writer>>

\* A handler has read its request, and found it without an artifact: with one,
\* complete and execute return it as it is and fail is refused.
Opens(c, r, place) ==
    /\ call[c].at = "ready"
    /\ row[r].status # "absent"
    /\ ~row[r].artifact
    /\ call' = [call EXCEPT ![c] = [at |-> place, on |-> r, view |-> row[r]]]
    /\ overlapped' = IF \E d \in Call : call[d].on = r /\ call[d].at \notin Idle
                     THEN overlapped \union {r} ELSE overlapped
    /\ UNCHANGED <<row, file, writer>>

\* The end of a handler: what it has changed is flushed and committed.
Commits(c, new) ==
    LET r == call[c].on IN
    /\ MayWrite(c)
    /\ row' = [row EXCEPT ![r] = Written(@, call[c].view, new)]
    /\ Ends(c)
    /\ UNCHANGED <<file, overlapped>>

\* fail_manual_research_request by the root user.
Fail(c) ==
    /\ call[c].at = "fail"
    /\ Commits(c, Failed(call[c].view, c))

\* execute_manual_research_request while the built-in executor is not enabled.
Requeue(c) ==
    /\ call[c].at = "requeue"
    /\ Commits(c, Requeued(call[c].view))

\* Mutant of Start: the status is committed for others to see.
MutantStart(c) ==
    /\ call[c].at = "execute"
    /\ writer = "none"
    /\ writer' = c
    /\ call' = [call EXCEPT ![c] =
                   [at |-> "asking", on |-> @.on, view |-> Started(@.view)]]
    /\ row' = [row EXCEPT ![call[c].on].status = "in_progress"]
    /\ UNCHANGED <<file, overlapped>>

\* execute_manual_research_request: the flush of in_progress takes the lock,
\* which is kept while the model is asked; nobody else sees the status.
Start(c) ==
    /\ call[c].at = "execute"
    /\ writer = "none"
    /\ writer' = c
    /\ call' = [call EXCEPT ![c] =
                   [at |-> "asking", on |-> @.on, view |-> Started(@.view)]]
    /\ UNCHANGED <<row, file, overlapped>>

\* run_follow_up_analysis_compat: creates a request and executes it in one
\* transaction.
FollowUp(c) ==
    /\ call[c].at = "ready"
    /\ writer = "none"
    /\ writer' = c
    /\ call' = [call EXCEPT ![c] =
                   [at |-> "asking", on |-> c, view |-> Started(New)]]
    /\ UNCHANGED <<row, file, overlapped>>

\* Every candidate has failed; the loop over them also takes a failure to
\* write the file for that of a candidate.
AskFails(c) ==
    /\ call[c].at \in {"asking", "writing"}
    /\ writer = c
    /\ call[c].on # c
    /\ Commits(c, Failed(call[c].view, c))

\* An answer has arrived, from a model or from the root user: write_text
\* truncates the file ...
OpensFile(c) ==
    /\ call[c].at \in {"asking", "complete"}
    /\ file' = [file EXCEPT ![call[c].on] = "torn"]
    /\ Goes(c, "writing")
    /\ UNCHANGED <<row, writer, overlapped>>

\* ... and writes it.  A writer that overtook this one may have left more text
\* than is now overwritten.
WritesFile(c) ==
    /\ call[c].at = "writing"
    /\ \E text \in {c, "torn"} :
           /\ file[call[c].on] = "torn" => text = c
           /\ file' = [file EXCEPT ![call[c].on] = text]
    /\ Goes(c, "written")
    /\ UNCHANGED <<row, writer, overlapped>>

\* Mutant of Complete: the row is committed ahead of the file.
MutantComplete(c) ==
    /\ call[c].at \in {"asking", "complete"}
    /\ call[c].on # c
    /\ Commits(c, Completed(call[c].view, c))

\* The end of complete_manual_research_request, by itself or within execute.
Complete(c) ==
    /\ call[c].at = "written"
    /\ call[c].on # c
    /\ Commits(c, Completed(call[c].view, c))

\* A session closed without a commit: the end of the follow-up handler
\* (api.py:2035-2056), or a wait for the lock of more than 30 s, an error or
\* the end of the process at any point of any handler.
Leaves(c) ==
    /\ call[c].at \notin Idle
    /\ Ends(c)
    /\ UNCHANGED <<row, file, overlapped>>

Next ==
    \E c \in Call :
        \/ Create(c) \/ FollowUp(c)
        \/ \E r \in Call :
               \/ Retry(c, r)
               \/ \E place \in {"complete", "fail", "execute", "requeue"} :
                      Opens(c, r, place)
        \/ Fail(c) \/ Requeue(c) \/ Start(c) \/ AskFails(c)
        \/ OpensFile(c) \/ WritesFile(c) \/ Complete(c)
        \/ Leaves(c)

Spec == Init /\ [][Next]_vars

---------------------------------------------------------------------------
(* Properties *)

Places == {"ready", "complete", "fail", "execute", "requeue", "asking",
           "writing", "written", "done"}

\* Besides the types: a committed row is never in progress, for the status is
\* overwritten before the transaction that set it ends.
TypeOK ==
    /\ call \in [Call -> [at : Places, on : Call, view : Rows]]
    /\ row \in [Call -> Rows]
    /\ \A r \in Call : row[r].status # "in_progress"
    /\ file \in [Call -> Call \union {"none", "torn"}]
    /\ writer \in Call \union {"none"}
    /\ overlapped \in SUBSET Call

\* A row never refers to an artifact that was not written, whatever races,
\* times out or is killed between the file and the commit.
ArtifactHasFile ==
    \A r \in Call : row[r].artifact => file[r] # "none"

\* The columns of a request agree unless two calls worked on it at a time:
\* an artifact, completed_at and the status come together, without a trace of
\* earlier failures, and a failure is dated
\* (tests/test_manual_research_workflow.py:274).
TerminalFieldsAgree ==
    \A r \in Call \ overlapped :
        /\ row[r].artifact <=> row[r].status = "completed"
        /\ row[r].artifact <=> row[r].completedAt # "none"
        /\ row[r].artifact => row[r].failedAt = "none"
        /\ row[r].status = "failed" => row[r].failedAt # "none"

\* With the same exception, the file of a completed request is whole and holds
\* the answer that completed it, whichever earlier attempts died half-way.
FileHoldsAnswer ==
    \A r \in Call \ overlapped :
        row[r].artifact => file[r] = row[r].completedAt

\* A call that works on an outdated row takes neither the artifact nor the
\* successor away that another call has committed in the meantime.
NothingTakenBack ==
    [][\A r \in Call :
           /\ row[r].artifact => row'[r].artifact
           /\ row[r].supersededBy # "none" => row'[r].supersededBy # "none"]_vars

\* manual_research_workflow.py:416: "Completed manual research requests with
\* artifacts are immutable; use retry instead."
CompletedIsImmutable ==
    [][\A r \in Call : row[r].artifact =>
           /\ file'[r] = file[r]
           /\ row'[r].status = row[r].status]_vars
================================================================================
