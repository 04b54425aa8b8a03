---------------------------- MODULE SessionLifecycle ----------------------------
(***************************************************************************)
(* What an owner of simulation sessions is promised: a request acts on the *)
(* current session only, the newest one that has not ended; a session goes *)
(* from draft to running, back and forth between running and paused, and   *)
(* from anywhere to ended, which is final; sessions are only added, at the *)
(* end, as drafts or, when the current one is restarted, as running ones.  *)
(***************************************************************************)
EXTENDS Integers, Sequences

VARIABLE statuses       \* of the owner's sessions, oldest first

\* The statuses a session may go to.
After == [draft |-> {"running", "ended"}, running |-> {"paused", "ended"},
          paused |-> {"running", "ended"}, ended |-> {}]

\* The newest session that has not ended, else the newest.
Current(ss) ==
    LET live == {i \in DOMAIN ss : ss[i] # "ended"}
        newest(S) == CHOOSE i \in S : \A j \in S : j <= i
    IN  IF live = {} THEN Len(ss) ELSE newest(live)

\* Whoever asks for the sessions finds a draft at least.
Found == IF statuses = <<>> THEN <<"draft">> ELSE statuses

Init == statuses = <<>>

Draft == statuses' = Append(statuses, "draft")

Move ==
    LET ss == Found
        i == Current(ss)
    IN  \E status \in After[ss[i]] : statuses' = [ss EXCEPT ![i] = status]

Restart ==
    LET ss == Found
    IN  statuses' = Append([ss EXCEPT ![Current(ss)] = "ended"], "running")

Next == Draft \/ Move \/ Restart

Spec == Init /\ [][Next]_statuses
================================================================================
