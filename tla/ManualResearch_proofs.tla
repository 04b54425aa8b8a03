-------------------------- MODULE ManualResearch_proofs --------------------------
(***************************************************************************)
(* Theorems about ManualResearch for any number of calls: types, no row    *)
(* without the file it refers to, and no update of one call taken back by  *)
(* another that works on an outdated row.                                  *)
(***************************************************************************)
EXTENDS ManualResearch, TLAPS

---------------------------------------------------------------------------
(* What an UPDATE does to the columns *)

\* An UPDATE leaves the columns alone that its handler has not changed.
LEMMA WrittenRow ==
    ASSUME NEW old \in Rows, NEW view \in Rows, NEW new \in Rows
    PROVE  /\ Written(old, view, new) \in Rows
           /\ new.artifact = view.artifact => Written(old, view, new).artifact = old.artifact
           /\ new.artifact => (old.artifact => Written(old, view, new).artifact)
           /\ new.supersededBy = view.supersededBy
                  => Written(old, view, new).supersededBy = old.supersededBy
           /\ new.status # view.status => Written(old, view, new).status = new.status
           /\ Written(old, view, new).status \in {old.status, new.status}
    BY DEF Written, Rows

\* The rows that the handlers make of the row they have read.
LEMMA HandlersRow ==
    ASSUME NEW view \in Rows, NEW c \in Call
    PROVE  /\ Failed(view, c) \in Rows
           /\ Failed(view, c).artifact = view.artifact
           /\ Failed(view, c).supersededBy = view.supersededBy
           /\ Failed(view, c).status = "failed"
           /\ Completed(view, c) \in Rows
           /\ Completed(view, c).artifact
           /\ Completed(view, c).supersededBy = view.supersededBy
           /\ Completed(view, c).status = "completed"
           /\ Started(view) \in Rows
           /\ Requeued(view) \in Rows
           /\ Requeued(view).artifact = view.artifact
           /\ Requeued(view).supersededBy = view.supersededBy
           /\ Requeued(view).status = "queued"
    BY DEF Failed, Completed, Started, Requeued, Rows, Statuses

LEMMA NewRow == /\ Absent \in Rows /\ New \in Rows
                /\ Absent.status = "absent" /\ ~Absent.artifact
                /\ Absent.supersededBy = "none"
                /\ New.status = "queued" /\ ~New.artifact
                /\ New.supersededBy = "none"
    BY DEF Absent, New, Rows, Statuses

---------------------------------------------------------------------------
(* Types *)

\* A handler that commits its request, in the state it leaves it in.
Commit(c) ==
    \/ Fail(c) \/ AskFails(c)
    \/ Requeue(c)
    \/ Complete(c)

\* A handler that changes no row.
Work(c) ==
    \/ \E r \in Call, place \in {"complete", "fail", "execute", "requeue"} :
           Opens(c, r, place)
    \/ Start(c) \/ FollowUp(c) \/ OpensFile(c) \/ WritesFile(c) \/ Leaves(c)

\* The steps, sorted by what they do to the rows.
LEMMA Steps ==
    ASSUME Next
    PROVE  \E c \in Call :
               \/ Commit(c) \/ Work(c) \/ Create(c)
               \/ \E r \in Call : Retry(c, r)
    BY DEF Next, Commit, Work

\* Every commit is a Commits of a row that is of the type of rows, not in
\* progress, and neither drops an artifact nor touches the successor.
LEMMA CommitRow ==
    ASSUME TypeOK, NEW c \in Call, Commit(c)
    PROVE  \E new \in Rows :
               /\ Commits(c, new)
               /\ new.status \in {"queued", "completed", "failed"}
               /\ new.supersededBy = call[c].view.supersededBy
               /\ \/ new.artifact = call[c].view.artifact
                  \/ new.artifact /\ call[c].at = "written"
<1> DEFINE view == call[c].view
<1>1. view \in Rows
    BY DEF TypeOK
<1> HIDE DEF view
<1>2. CASE Fail(c) \/ AskFails(c)
    <2>1. Commits(c, Failed(view, c))
        BY <1>2 DEF Fail, AskFails, view
    <2> QED
        BY <1>1, <2>1, HandlersRow DEF view
<1>3. CASE Requeue(c)
    <2>1. Commits(c, Requeued(view))
        BY <1>3 DEF Requeue, view
    <2> QED
        BY <1>1, <2>1, HandlersRow DEF view
<1>4. CASE Complete(c)
    <2>1. Commits(c, Completed(view, c)) /\ call[c].at = "written"
        BY <1>4 DEF Complete, view
    <2> QED
        BY <1>1, <2>1, HandlersRow DEF view
<1> QED
    BY <1>2, <1>3, <1>4 DEF Commit

\* A commit changes the row of its request, keeps what is not in the handler's
\* hands, and sets an artifact only after the file.
LEMMA CommitKeeps ==
    ASSUME TypeOK, NEW c \in Call, Commit(c)
    PROVE  /\ row' \in [Call -> Rows]
           /\ \A r \in Call : row'[r].status # "in_progress"
           /\ \A r \in Call : row[r].artifact => row'[r].artifact
           /\ \A r \in Call : row'[r].artifact =>
                  row[r].artifact \/ (r = call[c].on /\ call[c].at = "written")
           /\ \A r \in Call : row'[r].supersededBy = row[r].supersededBy
           /\ file' = file /\ overlapped' = overlapped
           /\ Ends(c)
<1>1. PICK new \in Rows :
          /\ Commits(c, new)
          /\ new.status \in {"queued", "completed", "failed"}
          /\ new.supersededBy = call[c].view.supersededBy
          /\ \/ new.artifact = call[c].view.artifact
             \/ new.artifact /\ call[c].at = "written"
    BY CommitRow
<1> DEFINE r == call[c].on
           changed == Written(row[r], call[c].view, new)
<1>2. /\ r \in Call /\ row[r] \in Rows /\ call[c].view \in Rows
      /\ row[r].status # "in_progress"
    BY DEF TypeOK
<1>3. /\ changed \in Rows
      /\ changed.status # "in_progress"
      /\ row[r].artifact => changed.artifact
      /\ changed.artifact => row[r].artifact \/ call[c].at = "written"
      /\ changed.supersededBy = row[r].supersededBy
    BY <1>1, <1>2, WrittenRow
<1>4. row' = [row EXCEPT ![r] = changed] /\ Ends(c) /\ UNCHANGED <<file, overlapped>>
    BY <1>1 DEF Commits
<1> HIDE DEF r, changed
<1>5. row \in [Call -> Rows] /\ \A s \in Call : row[s].status # "in_progress"
    BY DEF TypeOK
<1>6. \A s \in Call : row'[s] = IF s = r THEN changed ELSE row[s]
    BY <1>2, <1>4, <1>5
<1> QED
    BY <1>2, <1>3, <1>4, <1>5, <1>6 DEF r

\* A retry adds a row and sets the successor of the original, nothing else.
LEMMA RetryKeeps ==
    ASSUME TypeOK, NEW c \in Call, NEW r \in Call, Retry(c, r)
    PROVE  /\ row' \in [Call -> Rows]
           /\ \A s \in Call : row'[s].status # "in_progress"
           /\ \A s \in Call \ {c} :
                  /\ row'[s].artifact = row[s].artifact
                  /\ row[s].supersededBy # "none" => row'[s].supersededBy # "none"
           /\ ~row'[c].artifact
           /\ \A s \in Call : s \notin {c, r} => row'[s] = row[s]
<1> DEFINE added == [row EXCEPT ![c] = New]
           linked == [added[r] EXCEPT !.supersededBy = c]
<1>1. /\ added \in [Call -> Rows]
      /\ \A s \in Call : added[s] = IF s = c THEN New ELSE row[s]
    BY NewRow DEF TypeOK
<1>2. row' = [added EXCEPT ![r] = linked]
    BY DEF Retry
<1> HIDE DEF added
<1>3. /\ linked \in Rows
      /\ linked.status = added[r].status
      /\ linked.artifact = added[r].artifact
      /\ linked.supersededBy # "none"
    BY <1>1, CallAssumption DEF Rows
<1> HIDE DEF linked
<1>4. \A s \in Call : row'[s] = IF s = r THEN linked ELSE added[s]
    BY <1>1, <1>2
<1>5. \A s \in Call : row[s].status # "in_progress"
    BY DEF TypeOK
<1> QED
    BY <1>1, <1>2, <1>3, <1>4, <1>5, NewRow

\* A session that ends leaves its call and the lock well-formed.
LEMMA EndsType ==
    ASSUME TypeOK, NEW c \in Call, Ends(c)
    PROVE  /\ call' \in [Call -> [at : Places, on : Call, view : Rows]]
           /\ writer' \in Call \union {"none"}
           /\ \A d \in Call : call'[d].at = "written" =>
                  call[d].at = "written" /\ call'[d].on = call[d].on
    BY DEF TypeOK, Ends, Goes, Places

LEMMA TypeInit == Init => TypeOK
<1> SUFFICES ASSUME Init PROVE TypeOK
    OBVIOUS
<1>1. call \in [Call -> [at : Places, on : Call, view : Rows]]
    BY NewRow DEF Init, Places
<1> QED
    BY <1>1, NewRow DEF Init, TypeOK

\* Every handler keeps the calls, rows, files and the lock well-formed.
LEMMA TypeNext == TypeOK /\ [Next]_vars => TypeOK'
<1> SUFFICES ASSUME TypeOK, [Next]_vars PROVE TypeOK'
    OBVIOUS
<1>1. CASE UNCHANGED vars
    BY <1>1 DEF TypeOK, vars
<1>2. ASSUME NEW c \in Call, Commit(c) PROVE TypeOK'
    BY <1>2, CommitKeeps, EndsType DEF TypeOK
<1>3. ASSUME NEW c \in Call, Work(c) PROVE TypeOK'
    <2>1. CASE \E r \in Call, place \in {"complete", "fail", "execute", "requeue"} :
                   Opens(c, r, place)
        BY <2>1 DEF TypeOK, Opens, Places
    <2>2. CASE Start(c)
        BY <2>2, HandlersRow DEF TypeOK, Start, Places
    <2>3. CASE FollowUp(c)
        BY <2>3, HandlersRow, NewRow DEF TypeOK, FollowUp, Places
    <2>4. CASE OpensFile(c) \/ WritesFile(c)
        BY <2>4 DEF TypeOK, OpensFile, WritesFile, Goes, Places
    <2>5. CASE Leaves(c)
        BY <2>5, EndsType DEF TypeOK, Leaves
    <2> QED
        BY <1>3, <2>1, <2>2, <2>3, <2>4, <2>5 DEF Work
<1>4. ASSUME NEW c \in Call, Create(c) PROVE TypeOK'
    BY <1>4, NewRow DEF TypeOK, Create, Goes, Places
<1>5. ASSUME NEW c \in Call, NEW r \in Call, Retry(c, r) PROVE TypeOK'
    <2>1. row' \in [Call -> Rows] /\ \A s \in Call : row'[s].status # "in_progress"
        BY <1>5, RetryKeeps
    <2>2. call' \in [Call -> [at : Places, on : Call, view : Rows]]
        BY <1>5 DEF TypeOK, Retry, Goes, Places
    <2> QED
        BY <1>5, <2>1, <2>2 DEF TypeOK, Retry
<1> QED
    BY <1>1, <1>2, <1>3, <1>4, <1>5, Steps

\* Calls, rows, files and the lock are well-formed, and no transaction ends
\* with a row in progress, however many calls run at a time.
THEOREM TypeCorrect == Spec => []TypeOK
<1>1. Init => TypeOK
    BY TypeInit
<1>2. TypeOK /\ [Next]_vars => TypeOK'
    BY TypeNext
<1> QED
    BY <1>1, <1>2, PTL DEF Spec

---------------------------------------------------------------------------
(* Files and lost updates *)

\* The row of a request does not exist before its call is issued, and handlers
\* work on the requests of calls that were.
Fresh ==
    /\ \A c \in Call : call[c].at = "ready" => row[c] = Absent
    /\ \A c \in Call : call[c].at \notin Idle => call[call[c].on].at # "ready"

\* A handler about to commit a completion has written the file.
FileFirst ==
    \A c \in Call : call[c].at = "written" => file[call[c].on] # "none"

\* The inductive invariant.
ArtifactInv == TypeOK /\ Fresh /\ FileFirst /\ ArtifactHasFile

\* No call becomes ready again.
LEMMA FreshNext == TypeOK /\ Fresh /\ [Next]_vars => Fresh'
<1> SUFFICES ASSUME TypeOK, Fresh, [Next]_vars PROVE Fresh'
    OBVIOUS
<1>1. CASE UNCHANGED vars
    BY <1>1 DEF Fresh, vars
<1>2. ASSUME NEW c \in Call, Commit(c) PROVE Fresh'
    <2> DEFINE r == call[c].on
    <2>1. PICK new : Commits(c, new)
        BY <1>2, CommitRow
    <2>2. r \in Call /\ call[c].at \notin Idle
        BY <1>2 DEF TypeOK, Commit, Fail, AskFails, Requeue, Complete, Idle
    <2>3. call[r].at # "ready"
        BY <2>2 DEF Fresh
    <2>4. /\ \A s \in Call : s # r => row'[s] = row[s]
          /\ call' = [call EXCEPT ![c].at = "done"]
        BY <2>1, <2>2 DEF TypeOK, Commits, Ends, Goes
    <2> QED
        BY <2>2, <2>3, <2>4 DEF TypeOK, Fresh, Idle
<1>3. ASSUME NEW c \in Call, Work(c) PROVE Fresh'
    <2>1. row' = row
        BY <1>3 DEF Work, Opens, Start, FollowUp, OpensFile, WritesFile, Leaves
    <2>2. ASSUME NEW r \in Call, NEW place \in {"complete", "fail", "execute", "requeue"},
                 Opens(c, r, place)
          PROVE  Fresh'
        <3>1. call[r].at # "ready"
            BY <2>2, NewRow DEF Fresh, Opens
        <3> QED
            BY <2>1, <2>2, <3>1 DEF TypeOK, Fresh, Opens, Idle
    <2>3. CASE Start(c)
        BY <2>1, <2>3 DEF TypeOK, Fresh, Start, Idle
    <2>4. CASE FollowUp(c)
        BY <2>1, <2>4 DEF TypeOK, Fresh, FollowUp, Idle
    <2>5. CASE OpensFile(c) \/ WritesFile(c) \/ Leaves(c)
        BY <2>1, <2>5 DEF TypeOK, Fresh, OpensFile, WritesFile, Leaves, Ends, Goes, Idle
    <2> QED
        BY <1>3, <2>2, <2>3, <2>4, <2>5 DEF Work
<1>4. ASSUME NEW c \in Call, Create(c) PROVE Fresh'
    BY <1>4 DEF TypeOK, Fresh, Create, Goes, Idle
<1>5. ASSUME NEW c \in Call, NEW r \in Call, Retry(c, r) PROVE Fresh'
    <2>1. call[r].at # "ready"
        BY <1>5, NewRow DEF Fresh, Retry
    <2>2. /\ \A s \in Call : s \notin {c, r} => row'[s] = row[s]
          /\ call' = [call EXCEPT ![c].at = "done"]
        BY <1>5, RetryKeeps DEF Retry, Goes
    <2> QED
        BY <2>1, <2>2 DEF TypeOK, Fresh, Idle
<1> QED
    BY <1>1, <1>2, <1>3, <1>4, <1>5, Steps

\* What NothingTakenBack says of a request in a step.
Kept(r) ==
    /\ row[r].artifact => row'[r].artifact
    /\ row[r].supersededBy # "none" => row'[r].supersededBy # "none"

\* Neither an artifact nor a successor is dropped by a step.
LEMMA KeptNext ==
    ASSUME TypeOK, Fresh, [Next]_vars, NEW r \in Call
    PROVE  Kept(r)
<1>1. CASE UNCHANGED vars
    BY <1>1 DEF Kept, vars
<1>2. ASSUME NEW c \in Call, Commit(c) PROVE Kept(r)
    BY <1>2, CommitKeeps DEF Kept
<1>3. ASSUME NEW c \in Call, Work(c) PROVE Kept(r)
    BY <1>3 DEF Kept, Work, Opens, Start, FollowUp, OpensFile, WritesFile, Leaves
<1>4. ASSUME NEW c \in Call, Create(c) PROVE Kept(r)
    <2>1. row[c] = Absent
        BY <1>4 DEF Fresh, Create
    <2> QED
        BY <1>4, <2>1, NewRow DEF TypeOK, Kept, Create
<1>5. ASSUME NEW c \in Call, NEW s \in Call, Retry(c, s) PROVE Kept(r)
    <2>1. row[c] = Absent
        BY <1>5 DEF Fresh, Retry
    <2> QED
        BY <1>5, <2>1, RetryKeeps, NewRow DEF Kept
<1> QED
    BY <1>1, <1>2, <1>3, <1>4, <1>5, Steps

\* No file is removed.
LEMMA FilesStay ==
    ASSUME TypeOK, [Next]_vars, NEW r \in Call, file[r] # "none"
    PROVE  file'[r] # "none"
<1>1. CASE UNCHANGED file
    BY <1>1
<1>2. ASSUME NEW c \in Call, OpensFile(c) \/ WritesFile(c) PROVE file'[r] # "none"
    BY <1>2, CallAssumption DEF TypeOK, OpensFile, WritesFile
<1> QED
    BY <1>1, <1>2 DEF Next, vars, Create, FollowUp, Retry, Opens, Fail, Requeue, Start,
       AskFails, Complete, Commits, Leaves

\* The file comes first, and stays.
LEMMA FileFirstNext ==
    ASSUME TypeOK, FileFirst, [Next]_vars
    PROVE  FileFirst'
<1> SUFFICES ASSUME NEW c \in Call, call'[c].at = "written"
             PROVE  file'[call'[c].on] # "none"
    BY DEF FileFirst
<1> DEFINE Stays == call[c].at = "written" /\ call'[c].on = call[c].on
<1>1. call[c].on \in Call
    BY DEF TypeOK
<1>2. CASE Stays
    BY <1>1, <1>2, FilesStay DEF FileFirst
<1>3. CASE WritesFile(c)
    BY <1>1, <1>3, CallAssumption DEF TypeOK, WritesFile, Goes
<1>4. WritesFile(c) \/ Stays
    <2>1. CASE UNCHANGED vars
        BY <2>1 DEF vars
    <2>2. ASSUME NEW d \in Call, Commit(d) PROVE Stays
        BY <2>2, CommitKeeps, EndsType
    <2>3. ASSUME NEW d \in Call, Work(d) PROVE WritesFile(c) \/ Stays
        BY <2>3 DEF TypeOK, Work, Opens, Start, FollowUp, OpensFile, WritesFile, Leaves,
           Ends, Goes
    <2>4. ASSUME NEW d \in Call, Create(d) PROVE Stays
        BY <2>4 DEF TypeOK, Create, Goes
    <2>5. ASSUME NEW d \in Call, NEW r \in Call, Retry(d, r) PROVE Stays
        BY <2>5 DEF TypeOK, Retry, Goes
    <2> QED
        BY <2>1, <2>2, <2>3, <2>4, <2>5, Steps
<1> QED
    BY <1>2, <1>3, <1>4

LEMMA ArtifactNext ==
    ASSUME TypeOK, FileFirst, ArtifactHasFile, [Next]_vars
    PROVE  ArtifactHasFile'
<1> SUFFICES ASSUME NEW r \in Call, row'[r].artifact PROVE file'[r] # "none"
    BY DEF ArtifactHasFile
<1>1. CASE row[r].artifact
    BY <1>1, FilesStay DEF ArtifactHasFile
<1>2. ASSUME ~row[r].artifact PROVE file[r] # "none"
    <2>1. PICK c \in Call : Commit(c) /\ r = call[c].on /\ call[c].at = "written"
        <3>1. row' # row
            BY <1>2
        <3>2. ASSUME NEW c \in Call, Work(c) PROVE FALSE
            BY <3>1, <3>2 DEF Work, Opens, Start, FollowUp, OpensFile, WritesFile, Leaves
        <3>3. ASSUME NEW c \in Call, Create(c) PROVE FALSE
            BY <1>2, <3>3, NewRow DEF TypeOK, Create
        <3>4. ASSUME NEW c \in Call, NEW s \in Call, Retry(c, s) PROVE FALSE
            BY <1>2, <3>4, RetryKeeps
        <3>5. \E c \in Call : Commit(c)
            BY <3>1, <3>2, <3>3, <3>4, Steps DEF vars
        <3> QED
            BY <1>2, <3>5, CommitKeeps
    <2> QED
        BY <2>1 DEF FileFirst
<1> QED
    BY <1>1, <1>2, FilesStay

LEMMA ArtifactInvNext == ArtifactInv /\ [Next]_vars => ArtifactInv'
    BY TypeNext, FreshNext, FileFirstNext, ArtifactNext DEF ArtifactInv

LEMMA ArtifactInvInit == Init => ArtifactInv
<1> SUFFICES ASSUME Init PROVE ArtifactInv
    OBVIOUS
<1>1. TypeOK
    BY TypeInit
<1>2. Fresh /\ FileFirst /\ ArtifactHasFile
    BY NewRow DEF Init, Fresh, FileFirst, ArtifactHasFile, Idle
<1> QED
    BY <1>1, <1>2 DEF ArtifactInv

\* A completed request is never without its artifact file, for all races,
\* timeouts and crashes of any number of calls.
THEOREM ArtifactsExist == Spec => []ArtifactHasFile
<1>1. Init => ArtifactInv
    BY ArtifactInvInit
<1>2. ArtifactInv /\ [Next]_vars => ArtifactInv'
    BY ArtifactInvNext
<1>3. ArtifactInv => ArtifactHasFile
    BY DEF ArtifactInv
<1> QED
    BY <1>1, <1>2, <1>3, PTL DEF Spec

\* No call, however outdated what it has read, takes back the artifact or the
\* successor that another call has committed.
THEOREM UpdatesKept == Spec => NothingTakenBack
<1> DEFINE NothingTaken == \A r \in Call : Kept(r)
<1>1. Init => ArtifactInv
    BY ArtifactInvInit
<1>2. ArtifactInv /\ [Next]_vars => ArtifactInv'
    BY ArtifactInvNext
<1>3. ArtifactInv /\ [Next]_vars => [NothingTaken]_vars
    BY KeptNext DEF ArtifactInv
<1>4. NothingTakenBack <=> [][NothingTaken]_vars
    BY PTL DEF NothingTakenBack, Kept
<1> HIDE DEF NothingTaken
<1> QED
    BY <1>1, <1>2, <1>3, <1>4, PTL DEF Spec

---------------------------------------------------------------------------
(* What a request looks like while one call at a time works on it *)

Active(c) == call[c].at \notin Idle

\* On a request that has never had two calls at a time there is one at most.
Sole ==
    \A c, d \in Call :
        (Active(c) /\ Active(d) /\ call[c].on = call[d].on /\ call[c].on \notin overlapped)
            => c = d

\* Such a call knows the row as it is, and the file is as the call has left it.
Current(c) ==
    LET r == call[c].on
        view == call[c].view
    IN  (Active(c) /\ r \notin overlapped) =>
            /\ ~row[r].artifact
            /\ c = r => call[c].at \in {"asking", "writing", "written"}
            /\ c # r => /\ ~view.artifact
                        /\ view.completedAt = row[r].completedAt
                        /\ view.failedAt = row[r].failedAt
                        /\ view.status = row[r].status \/ view.status = "in_progress"
            /\ call[c].at = "writing" => file[r] = "torn"
            /\ call[c].at = "written" => file[r] = c

\* The terminal columns of one request, and its file.
Agrees(r) ==
    r \notin overlapped =>
        /\ row[r].artifact <=> row[r].status = "completed"
        /\ row[r].artifact <=> row[r].completedAt # "none"
        /\ row[r].artifact => row[r].failedAt = "none"
        /\ row[r].status = "failed" => row[r].failedAt # "none"
        /\ row[r].artifact => file[r] = row[r].completedAt

AgreementInv ==
    /\ TypeOK /\ Fresh /\ Sole
    /\ \A c \in Call : Current(c)
    /\ \A r \in Call : Agrees(r)

\* The columns that an UPDATE leaves when the handler knew the row.
LEMMA CurrentRow ==
    ASSUME NEW old \in Rows, NEW view \in Rows, NEW c \in Call,
           ~old.artifact, ~view.artifact, old.completedAt = "none",
           view.completedAt = old.completedAt, view.failedAt = old.failedAt,
           view.status = old.status \/ view.status = "in_progress",
           old.status # "in_progress"
    PROVE  /\ LET w == Written(old, view, Failed(view, c))
              IN  w.status = "failed" /\ ~w.artifact /\ w.completedAt = "none" /\ w.failedAt = c
           /\ LET w == Written(old, view, Requeued(view))
              IN  w.status = "queued" /\ ~w.artifact /\ w.completedAt = "none"
           /\ LET w == Written(old, view, Completed(view, c))
              IN  /\ w.status = "completed" /\ w.artifact /\ w.completedAt = c
                  /\ w.failedAt = "none"
<1>1. "completed" # "in_progress" /\ c # "none"
    BY CallAssumption
<1>2. view.status = "completed" => old.status = "completed"
    OBVIOUS
<1>3. LET w == Written(old, view, Failed(view, c))
      IN  w.status = "failed" /\ ~w.artifact /\ w.completedAt = "none" /\ w.failedAt = c
    BY DEF Written, Failed, Rows
<1>4. LET w == Written(old, view, Requeued(view))
      IN  w.status = "queued" /\ ~w.artifact /\ w.completedAt = "none"
    BY DEF Written, Requeued, Rows
<1>5. LET w == Written(old, view, Completed(view, c))
      IN  w.status = "completed" /\ w.artifact /\ w.completedAt = c /\ w.failedAt = "none"
    BY <1>1 DEF Written, Completed, Rows
<1> QED BY <1>3, <1>4, <1>5

LEMMA AgreementInit == Init => AgreementInv
<1> SUFFICES ASSUME Init PROVE AgreementInv
    OBVIOUS
<1>1. TypeOK /\ Fresh
    BY TypeInit DEF Init, Fresh, Idle
<1>2. Sole /\ \A c \in Call : Current(c)
    BY DEF Init, Sole, Current, Active, Idle
<1>3. \A r \in Call : Agrees(r)
    BY DEF Init, Agrees, Absent
<1> QED BY <1>1, <1>2, <1>3 DEF AgreementInv

\* A step is one call's: it goes idle, goes on with its request, or begins on a
\* request, which is marked when another call works on it.
LEMMA Activity ==
    ASSUME TypeOK, Fresh, [Next]_vars
    PROVE  /\ overlapped \subseteq overlapped'
           /\ \/ call' = call
              \/ \E c \in Call :
                  /\ \A d \in Call \ {c} : call'[d] = call[d]
                  /\ \/ call'[c].at \in Idle
                     \/ Active(c) /\ call'[c].on = call[c].on
                     \/ \A d \in Call : (Active(d) /\ call[d].on = call'[c].on)
                                            => call'[c].on \in overlapped'
<1>1. CASE UNCHANGED vars
    BY <1>1 DEF vars
<1>2. ASSUME NEW c \in Call, Commit(c) \/ Leaves(c) \/ Create(c) \/ \E r \in Call : Retry(c, r)
      PROVE  /\ overlapped' = overlapped
             /\ \A d \in Call \ {c} : call'[d] = call[d]
             /\ call'[c].at \in Idle
    <2>1. call' = [call EXCEPT ![c].at = "done"] /\ overlapped' = overlapped
        BY <1>2, CommitKeeps DEF Leaves, Create, Retry, Goes, Ends
    <2> QED BY <2>1 DEF TypeOK, Idle
<1>3. ASSUME NEW c \in Call, Start(c) \/ OpensFile(c) \/ WritesFile(c)
      PROVE  /\ overlapped' = overlapped
             /\ \A d \in Call \ {c} : call'[d] = call[d]
             /\ Active(c) /\ call'[c].on = call[c].on
    BY <1>3 DEF TypeOK, Start, OpensFile, WritesFile, Goes, Active, Idle
<1>4. ASSUME NEW c \in Call, FollowUp(c)
      PROVE  /\ overlapped' = overlapped
             /\ \A d \in Call \ {c} : call'[d] = call[d]
             /\ \A d \in Call : ~(Active(d) /\ call[d].on = call'[c].on)
    <2>1. /\ overlapped' = overlapped /\ call[c].at = "ready"
          /\ \A d \in Call \ {c} : call'[d] = call[d]
          /\ call'[c].on = c
        BY <1>4 DEF TypeOK, FollowUp
    <2> QED BY <2>1 DEF Fresh, Active
<1>5. ASSUME NEW c \in Call, NEW r \in Call, NEW place, Opens(c, r, place)
      PROVE  /\ overlapped \subseteq overlapped'
             /\ \A d \in Call \ {c} : call'[d] = call[d]
             /\ \A d \in Call : (Active(d) /\ call[d].on = call'[c].on)
                                    => call'[c].on \in overlapped'
    BY <1>5 DEF TypeOK, Opens, Active
<1> QED BY <1>1, <1>2, <1>3, <1>4, <1>5, Steps DEF Work

LEMMA SoleNext ==
    ASSUME TypeOK, Fresh, Sole, [Next]_vars
    PROVE  Sole'
<1> SUFFICES ASSUME NEW c \in Call, NEW d \in Call, c # d,
                    call'[c].at \notin Idle, call'[d].at \notin Idle,
                    call'[c].on = call'[d].on
             PROVE  call'[c].on \in overlapped'
    BY DEF Sole, Active
<1>1. overlapped \subseteq overlapped'
    BY Activity
<1>2. CASE call' = call
    BY <1>1, <1>2 DEF Sole, Active
<1>3. CASE call' # call
    <2>1. PICK e \in Call :
              /\ \A x \in Call \ {e} : call'[x] = call[x]
              /\ \/ call'[e].at \in Idle
                 \/ Active(e) /\ call'[e].on = call[e].on
                 \/ \A x \in Call : (Active(x) /\ call[x].on = call'[e].on)
                                        => call'[e].on \in overlapped'
        BY <1>3, Activity
    <2>2. CASE e \notin {c, d}
        BY <1>1, <2>1, <2>2 DEF Sole, Active
    <2>3. CASE e \in {c, d}
        BY <1>1, <2>1, <2>3 DEF Sole, Active
    <2> QED BY <2>2, <2>3
<1> QED BY <1>2, <1>3

\* A retry leaves the terminal columns of the request it retries.
LEMMA RetryColumns ==
    ASSUME TypeOK, Fresh, NEW c \in Call, NEW r \in Call, Retry(c, r)
    PROVE  /\ c # r /\ row'[c] = New
           /\ \A s \in Call \ {c} :
                  /\ row'[s].status = row[s].status
                  /\ row'[s].artifact = row[s].artifact
                  /\ row'[s].completedAt = row[s].completedAt
                  /\ row'[s].failedAt = row[s].failedAt
<1>1. c # r
    BY NewRow DEF Fresh, Retry
<1>2. row' = [row EXCEPT ![c] = New, ![r].supersededBy = c]
    BY DEF Retry
<1>3. /\ row' = [row EXCEPT ![c] = New, ![r] = [row[r] EXCEPT !.supersededBy = c]]
    BY <1>1, <1>2 DEF TypeOK
<1> DEFINE linked == [row[r] EXCEPT !.supersededBy = c]
<1>4. /\ linked.status = row[r].status /\ linked.artifact = row[r].artifact
      /\ linked.completedAt = row[r].completedAt /\ linked.failedAt = row[r].failedAt
    BY DEF TypeOK, Rows
<1> HIDE DEF linked
<1>5. /\ row'[c] = New
      /\ \A s \in Call \ {c} : row'[s] = IF s = r THEN linked ELSE row[s]
    BY <1>1, <1>3 DEF TypeOK, linked
<1> QED BY <1>1, <1>4, <1>5

\* What a commit makes of its row, and that it leaves the others.
LEMMA CommitColumns ==
    ASSUME TypeOK, NEW c \in Call, Commit(c)
    PROVE  LET r == call[c].on
               view == call[c].view
           IN  /\ Active(c) /\ r \in Call /\ file' = file /\ overlapped' = overlapped
               /\ \A s \in Call \ {r} : row'[s] = row[s]
               /\ \/ row'[r] = Written(row[r], view, Failed(view, c))
                  \/ row'[r] = Written(row[r], view, Requeued(view))
                  \/ /\ row'[r] = Written(row[r], view, Completed(view, c))
                     /\ call[c].at = "written"
               /\ call[c].at \in {"asking", "writing", "written"} => r # c
BY DEF TypeOK, Commit, Fail, AskFails, Requeue, Complete, Commits, Active, Idle

\* Nobody works on the request of a call that is still to be issued.
LEMMA NobodyOnFresh ==
    ASSUME Fresh, NEW c \in Call, NEW d \in Call, Active(c), call[d].at = "ready"
    PROVE  call[c].on # d
BY DEF Fresh, Active

\* The step of one call leaves the others in agreement with their rows.
LEMMA OthersCurrent ==
    ASSUME AgreementInv, [Next]_vars, NEW c \in Call, Active(c), call'[c] = call[c],
           call[c].on \notin overlapped'
    PROVE  LET r == call[c].on
           IN  /\ row'[r].artifact = row[r].artifact /\ row'[r].status = row[r].status
               /\ row'[r].completedAt = row[r].completedAt
               /\ row'[r].failedAt = row[r].failedAt
               /\ file'[r] = file[r]
<1> DEFINE r == call[c].on
<1>1. TypeOK /\ Fresh /\ Sole /\ r \in Call
    BY DEF AgreementInv, TypeOK
<1>2. r \notin overlapped
    BY <1>1, Activity
<1>3. ASSUME NEW d \in Call, Active(d), call'[d] # call[d]
      PROVE  call[d].on # r
    BY <1>1, <1>2, <1>3 DEF Sole
<1>4. CASE UNCHANGED <<row, file>>
    BY <1>4
<1>5. ASSUME NEW d \in Call, Commit(d)
      PROVE  row'[r] = row[r] /\ file' = file
    <2>1. Active(d) /\ call' = [call EXCEPT ![d].at = "done"]
        BY <1>1, <1>5, CommitColumns, CommitKeeps DEF Ends, Goes
    <2>2. call'[d] # call[d]
        BY <1>1, <2>1 DEF TypeOK, Active, Idle
    <2> QED BY <1>1, <1>3, <1>5, <2>1, <2>2, CommitColumns
<1>6. ASSUME NEW d \in Call, OpensFile(d) \/ WritesFile(d)
      PROVE  row' = row /\ file'[r] = file[r]
    <2>1. /\ Active(d) /\ call' = [call EXCEPT ![d].at = call'[d].at]
          /\ call'[d].at # call[d].at
        BY <1>1, <1>6 DEF TypeOK, OpensFile, WritesFile, Goes, Active, Idle
    <2>2. call[d].on # r
        BY <1>3, <2>1
    <2> QED BY <1>1, <1>6, <2>2 DEF TypeOK, OpensFile, WritesFile
<1>7. ASSUME NEW d \in Call, Create(d)
      PROVE  row'[r] = row[r] /\ file' = file
    <2>1. d # r
        BY <1>1, <1>7, NobodyOnFresh DEF Create
    <2> QED BY <1>1, <1>7, <2>1 DEF TypeOK, Create
<1>8. ASSUME NEW d \in Call, NEW s \in Call, Retry(d, s)
      PROVE  /\ row'[r].artifact = row[r].artifact /\ row'[r].status = row[r].status
             /\ row'[r].completedAt = row[r].completedAt
             /\ row'[r].failedAt = row[r].failedAt
             /\ file' = file
    <2>1. d # r
        BY <1>1, <1>8, NobodyOnFresh DEF Retry
    <2> QED BY <1>1, <1>8, <2>1, RetryColumns DEF Retry
<1>9. ASSUME NEW d \in Call, Work(d)
      PROVE  UNCHANGED <<row, file>> \/ OpensFile(d) \/ WritesFile(d)
    BY <1>9 DEF Work, Opens, Start, FollowUp, Leaves
<1> QED BY <1>4, <1>5, <1>6, <1>7, <1>8, <1>9, Steps DEF vars

LEMMA CurrentNext ==
    ASSUME AgreementInv, [Next]_vars, NEW c \in Call
    PROVE  Current(c)'
<1> SUFFICES ASSUME call'[c].at \notin Idle, call'[c].on \notin overlapped'
             PROVE  LET r == call'[c].on
                        view == call'[c].view
                    IN  /\ ~row'[r].artifact
                        /\ c = r => call'[c].at \in {"asking", "writing", "written"}
                        /\ c # r => /\ ~view.artifact
                                    /\ view.completedAt = row'[r].completedAt
                                    /\ view.failedAt = row'[r].failedAt
                                    /\ view.status = row'[r].status \/ view.status = "in_progress"
                        /\ call'[c].at = "writing" => file'[r] = "torn"
                        /\ call'[c].at = "written" => file'[r] = c
    BY DEF Current, Active
<1>1. TypeOK /\ Fresh /\ Sole /\ Current(c)
    BY DEF AgreementInv
<1>2. overlapped \subseteq overlapped' /\ call[c].on \in Call
    BY <1>1, Activity DEF TypeOK
<1>3. CASE call'[c] = call[c]
    <2>1. Active(c)
        BY <1>3 DEF Active
    <2> QED BY <1>1, <1>2, <1>3, <2>1, OthersCurrent DEF Current
<1>4. CASE call'[c] # call[c]
    <2>1. Work(c) /\ ~Leaves(c)
        <3>1. call' # call
            BY <1>4
        <3>2. ASSUME NEW d \in Call, d # c, Commit(d) \/ Work(d) \/ Create(d)
                                                \/ \E r \in Call : Retry(d, r)
              PROVE  FALSE
            <4>1. Commit(d) => Ends(d)
                BY <1>1, CommitKeeps
            <4> QED BY <1>1, <1>4, <3>2, <4>1 DEF TypeOK, Work, Opens, Start, FollowUp, OpensFile,
                    WritesFile, Leaves, Create, Retry, Goes, Ends
        <3>3. Commit(c) \/ Work(c) \/ Create(c) \/ \E r \in Call : Retry(c, r)
            BY <3>1, <3>2, Steps DEF vars
        <3>4. ~(Commit(c) \/ Leaves(c) \/ Create(c) \/ \E r \in Call : Retry(c, r))
            <4>1. Commit(c) => Ends(c)
                BY <1>1, CommitKeeps
            <4> QED BY <1>1, <4>1 DEF TypeOK, Leaves, Create, Retry, Goes, Ends, Idle
        <3> QED BY <3>3, <3>4
    <2>2. ASSUME NEW r \in Call, NEW place \in {"complete", "fail", "execute", "requeue"},
                 Opens(c, r, place)
          PROVE  /\ call'[c] = [at |-> place, on |-> r, view |-> row[r]]
                 /\ row' = row /\ ~row[r].artifact /\ c # r
        <3>1. row[r].status # "absent" /\ call[c].at = "ready"
            BY <2>2 DEF Opens
        <3>2. c # r
            BY <1>1, <3>1, NewRow DEF Fresh
        <3> QED BY <1>1, <2>2, <3>2 DEF TypeOK, Opens
    <2>3. CASE Start(c)
        <3>1. /\ call'[c] = [at |-> "asking", on |-> call[c].on, view |-> Started(call[c].view)]
              /\ row' = row /\ Active(c) /\ call[c].at = "execute"
            BY <1>1, <2>3 DEF TypeOK, Start, Active, Idle
        <3>2. LET v == call[c].view
              IN  /\ Started(v).artifact = v.artifact /\ Started(v).status = "in_progress"
                  /\ Started(v).completedAt = v.completedAt /\ Started(v).failedAt = v.failedAt
            BY <1>1 DEF TypeOK, Started, Rows
        <3> QED BY <1>1, <1>2, <3>1, <3>2 DEF Current
    <2>4. CASE FollowUp(c)
        <3>1. /\ call'[c] = [at |-> "asking", on |-> c, view |-> Started(New)]
              /\ row' = row /\ row[c] = Absent
            BY <1>1, <2>4 DEF TypeOK, FollowUp, Fresh
        <3> QED BY <3>1, NewRow
    <2>5. CASE OpensFile(c) \/ WritesFile(c)
        <3>1. /\ call'[c].on = call[c].on /\ call'[c].view = call[c].view
              /\ row' = row /\ Active(c) /\ call'[c].at \in {"writing", "written"}
            BY <1>1, <2>5 DEF TypeOK, OpensFile, WritesFile, Goes, Active, Idle
        <3>2. CASE OpensFile(c)
            BY <1>1, <1>2, <3>1, <3>2 DEF TypeOK, OpensFile, Goes, Current
        <3>3. CASE WritesFile(c)
            BY <1>1, <1>2, <3>1, <3>3 DEF TypeOK, WritesFile, Goes, Current
        <3> QED BY <2>5, <3>2, <3>3
    <2>6. CASE \E r \in Call, place \in {"complete", "fail", "execute", "requeue"} :
                   Opens(c, r, place)
        <3>1. PICK r \in Call, place \in {"complete", "fail", "execute", "requeue"} :
                  Opens(c, r, place)
            BY <2>6
        <3>2. /\ call'[c] = [at |-> place, on |-> r, view |-> row[r]]
              /\ row' = row /\ ~row[r].artifact /\ c # r
            BY <2>2, <3>1, Zenon
        <3>3. call'[c].at = place /\ call'[c].on = r /\ call'[c].view = row[r]
            BY <3>2
        <3> QED BY <3>2, <3>3
    <2> QED BY <2>1, <2>3, <2>4, <2>5, <2>6 DEF Work
<1> QED BY <1>3, <1>4

LEMMA AgreesNext ==
    ASSUME AgreementInv, [Next]_vars, NEW r \in Call
    PROVE  Agrees(r)'
<1>1. TypeOK /\ Fresh /\ Agrees(r) /\ overlapped \subseteq overlapped'
    BY Activity DEF AgreementInv
<1>2. SUFFICES ASSUME r \notin overlapped'
               PROVE  /\ row'[r].artifact <=> row'[r].status = "completed"
                      /\ row'[r].artifact <=> row'[r].completedAt # "none"
                      /\ row'[r].artifact => row'[r].failedAt = "none"
                      /\ row'[r].status = "failed" => row'[r].failedAt # "none"
                      /\ row'[r].artifact => file'[r] = row'[r].completedAt
    BY DEF Agrees
<1>3. r \notin overlapped
    BY <1>1, <1>2
<1>4. CASE row'[r] = row[r] /\ file'[r] = file[r]
    BY <1>1, <1>3, <1>4 DEF Agrees
<1>5. CASE row'[r] = New
    BY <1>5, NewRow DEF New, Absent
<1>6. ASSUME NEW c \in Call, Commit(c), call[c].on = r
      PROVE  /\ row'[r].artifact <=> row'[r].status = "completed"
             /\ row'[r].artifact <=> row'[r].completedAt # "none"
             /\ row'[r].artifact => row'[r].failedAt = "none"
             /\ row'[r].status = "failed" => row'[r].failedAt # "none"
             /\ row'[r].artifact => file'[r] = row'[r].completedAt
    <2> DEFINE view == call[c].view
               old == row[r]
    <2>1. /\ Active(c) /\ file' = file
          /\ \/ row'[r] = Written(old, view, Failed(view, c))
             \/ row'[r] = Written(old, view, Requeued(view))
             \/ /\ row'[r] = Written(old, view, Completed(view, c))
                /\ call[c].at = "written"
          /\ call[c].at \in {"asking", "writing", "written"} => r # c
        BY <1>1, <1>6, CommitColumns
    <2>2. Current(c)
        BY DEF AgreementInv
    <2>3. /\ ~old.artifact /\ ~view.artifact
          /\ view.completedAt = old.completedAt /\ view.failedAt = old.failedAt
          /\ view.status = old.status \/ view.status = "in_progress"
          /\ call[c].at = "written" => file[r] = c
        BY <1>3, <1>6, <2>1, <2>2 DEF Current
    <2>4. old.completedAt = "none"
        BY <1>1, <1>3, <2>3 DEF Agrees
    <2>5. old \in Rows /\ view \in Rows /\ old.status # "in_progress"
        BY <1>1 DEF TypeOK
    <2>6. c # "none"
        BY CallAssumption
    <2> HIDE DEF view, old
    <2>7. /\ LET w == Written(old, view, Failed(view, c))
             IN  w.status = "failed" /\ ~w.artifact /\ w.completedAt = "none" /\ w.failedAt = c
          /\ LET w == Written(old, view, Requeued(view))
             IN  w.status = "queued" /\ ~w.artifact /\ w.completedAt = "none"
          /\ LET w == Written(old, view, Completed(view, c))
             IN  /\ w.status = "completed" /\ w.artifact /\ w.completedAt = c
                 /\ w.failedAt = "none"
        BY <2>3, <2>4, <2>5, CurrentRow
    <2> QED BY <2>1, <2>3, <2>6, <2>7
<1>7. ASSUME NEW c \in Call, Commit(c), call[c].on # r
      PROVE  row'[r] = row[r] /\ file'[r] = file[r]
    BY <1>1, <1>7, CommitColumns
<1>8. ASSUME NEW c \in Call, OpensFile(c) \/ WritesFile(c), call[c].on = r
      PROVE  row' = row /\ ~row[r].artifact
    <2>1. Active(c) /\ Current(c) /\ row' = row
        BY <1>8 DEF AgreementInv, Active, Idle, OpensFile, WritesFile
    <2> QED BY <1>3, <1>8, <2>1 DEF Current
<1>9. ASSUME NEW c \in Call, OpensFile(c) \/ WritesFile(c), call[c].on # r
      PROVE  row' = row /\ file'[r] = file[r]
    BY <1>1, <1>9 DEF TypeOK, OpensFile, WritesFile
<1>10. ASSUME NEW c \in Call, Work(c), ~(OpensFile(c) \/ WritesFile(c))
       PROVE  UNCHANGED <<row, file>>
    BY <1>10 DEF Work, Opens, Start, FollowUp, Leaves
<1>11. ASSUME NEW c \in Call, Create(c)
       PROVE  file' = file /\ (row'[r] = New \/ row'[r] = row[r])
    BY <1>1, <1>11 DEF TypeOK, Create
<1>12. ASSUME NEW c \in Call, NEW s \in Call, Retry(c, s)
       PROVE  /\ file' = file
              /\ \/ row'[r] = New
                 \/ /\ row'[r].artifact = row[r].artifact /\ row'[r].status = row[r].status
                    /\ row'[r].completedAt = row[r].completedAt
                    /\ row'[r].failedAt = row[r].failedAt
    BY <1>1, <1>12, RetryColumns DEF Retry
<1>13. CASE UNCHANGED vars
    BY <1>4, <1>13 DEF vars
<1>14. CASE \E c \in Call : Commit(c)
    BY <1>4, <1>6, <1>7, <1>14
<1>15. CASE \E c \in Call : Work(c)
    <2>1. PICK c \in Call : Work(c)
        BY <1>15
    <2>2. CASE ~(OpensFile(c) \/ WritesFile(c))
        BY <1>4, <1>10, <2>1, <2>2
    <2>3. CASE (OpensFile(c) \/ WritesFile(c)) /\ call[c].on # r
        BY <1>4, <1>9, <2>3
    <2>4. CASE (OpensFile(c) \/ WritesFile(c)) /\ call[c].on = r
        <3>1. row' = row /\ ~row[r].artifact
            BY <1>8, <2>4
        <3> QED BY <1>1, <1>3, <3>1 DEF Agrees
    <2> QED BY <2>2, <2>3, <2>4
<1>16. CASE \E c \in Call : Create(c)
    BY <1>4, <1>5, <1>11, <1>16
<1>17. CASE \E c \in Call, s \in Call : Retry(c, s)
    <2>1. file' = file /\ \/ row'[r] = New
                          \/ /\ row'[r].artifact = row[r].artifact
                             /\ row'[r].status = row[r].status
                             /\ row'[r].completedAt = row[r].completedAt
                             /\ row'[r].failedAt = row[r].failedAt
        BY <1>12, <1>17
    <2> QED BY <1>1, <1>3, <1>5, <2>1 DEF Agrees
<1> QED BY <1>13, <1>14, <1>15, <1>16, <1>17, Steps

LEMMA AgreementNext == AgreementInv /\ [Next]_vars => AgreementInv'
<1> SUFFICES ASSUME AgreementInv, [Next]_vars PROVE AgreementInv'
    OBVIOUS
<1>1. TypeOK /\ Fresh /\ Sole
    BY DEF AgreementInv
<1>2. TypeOK' /\ Fresh' /\ Sole'
    BY <1>1, TypeNext, FreshNext, SoleNext
<1>3. \A c \in Call : Current(c)'
    BY CurrentNext
<1>4. \A r \in Call : Agrees(r)'
    BY AgreesNext
<1> QED BY <1>2, <1>3, <1>4 DEF AgreementInv

\* The terminal columns of a request agree as long as no two calls have worked
\* on it at a time, through all failures, retries and crashes.
THEOREM ColumnsAgree == Spec => []TerminalFieldsAgree
<1>1. AgreementInv => TerminalFieldsAgree
    BY DEF AgreementInv, Agrees, TerminalFieldsAgree
<1> QED BY <1>1, AgreementInit, AgreementNext, PTL DEF Spec

\* With the same exception the file of a completed request holds the answer
\* that completed it.
THEOREM FilesAgree == Spec => []FileHoldsAnswer
<1>1. AgreementInv => FileHoldsAnswer
    BY DEF AgreementInv, Agrees, FileHoldsAnswer
<1> QED BY <1>1, AgreementInit, AgreementNext, PTL DEF Spec

---------------------------------------------------------------------------
(* The exception to what manual_research_workflow.py:416 says *)

\* A completed request keeps its file and its status, whatever is retried,
\* refused, rolled back or killed, unless two calls have worked on it at a
\* time: a second one that read it before it was completed is the only way to
\* change what the handlers call immutable.
ImmutableUnlessOverlapped ==
    [][\A r \in Call \ overlapped' : row[r].artifact =>
           /\ file'[r] = file[r]
           /\ row'[r].status = row[r].status]_vars

LEMMA CompletedStays ==
    ASSUME AgreementInv, [Next]_vars, NEW r \in Call, r \notin overlapped', row[r].artifact
    PROVE  file'[r] = file[r] /\ row'[r].status = row[r].status
<1>1. TypeOK /\ Fresh /\ r \notin overlapped
    BY Activity DEF AgreementInv
<1>2. ASSUME NEW c \in Call, Active(c)
      PROVE  call[c].on # r
    BY <1>1, <1>2 DEF AgreementInv, Current
<1>3. ASSUME NEW c \in Call, Commit(c)
      PROVE  file'[r] = file[r] /\ row'[r].status = row[r].status
    BY <1>1, <1>2, <1>3, CommitColumns
<1>4. ASSUME NEW c \in Call, Work(c)
      PROVE  file'[r] = file[r] /\ row' = row
    <2>1. CASE OpensFile(c) \/ WritesFile(c)
        <3>1. call[c].on # r
            BY <1>2, <2>1 DEF OpensFile, WritesFile, Active, Idle
        <3> QED BY <1>1, <2>1, <3>1 DEF TypeOK, OpensFile, WritesFile
    <2>2. CASE ~(OpensFile(c) \/ WritesFile(c))
        BY <1>4, <2>2 DEF Work, Opens, Start, FollowUp, Leaves
    <2> QED BY <2>1, <2>2
<1>5. ASSUME NEW c \in Call, call[c].at = "ready"
      PROVE  c # r
    BY <1>1, <1>5, NewRow DEF Fresh, Absent
<1>6. ASSUME NEW c \in Call, Create(c)
      PROVE  file' = file /\ row'[r] = row[r]
    BY <1>1, <1>5, <1>6 DEF TypeOK, Create
<1>7. ASSUME NEW c \in Call, NEW s \in Call, Retry(c, s)
      PROVE  file' = file /\ row'[r].status = row[r].status
    <2>1. c # r
        BY <1>5, <1>7 DEF Retry
    <2> QED BY <1>1, <1>7, <2>1, RetryColumns DEF Retry
<1>8. CASE UNCHANGED vars
    BY <1>8 DEF vars
<1> QED BY <1>3, <1>4, <1>6, <1>7, <1>8, Steps

\* Only overlapping calls change a completed request or its file.
THEOREM ImmutableAlone == Spec => ImmutableUnlessOverlapped
<1>1. AgreementInv /\ [Next]_vars =>
          [\A r \in Call \ overlapped' : row[r].artifact =>
               /\ file'[r] = file[r]
               /\ row'[r].status = row[r].status]_vars
    BY CompletedStays
<1> QED BY <1>1, AgreementInit, AgreementNext, PTL DEF Spec, ImmutableUnlessOverlapped
================================================================================
