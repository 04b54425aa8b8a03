--------------------------- MODULE ExecutionRegistry ---------------------------
(***************************************************************************)
(* What the idempotency keys of the scheduler's execution ledger promise:  *)
(* a key is bound to one execution, by a call that asks for it, and never  *)
(* bound again; a call is answered "recorded" for the execution its key is *)
(* bound to, "refused" for any other, or not answered at all.              *)
(***************************************************************************)
CONSTANTS Call, Key, Exec, None

VARIABLES
    bound,      \* the execution of each key, or None
    request,    \* the key and execution each call asks for, or None
    answer      \* the answer to each call, or "none"

Request == [key : Key, exec : Exec]

Pending(c) == request[c] \in Request /\ answer[c] = "none"

Init ==
    /\ bound \in [Key -> Exec \union {None}]
    /\ request = [c \in Call |-> None]
    /\ answer = [c \in Call |-> "none"]

Ask(c) ==
    /\ request[c] = None
    /\ request'[c] \in Request
    /\ request' = [request EXCEPT ![c] = request'[c]]
    /\ UNCHANGED <<bound, answer>>

Bind(c) ==
    /\ Pending(c)
    /\ bound[request[c].key] = None
    /\ bound' = [bound EXCEPT ![request[c].key] = request[c].exec]
    /\ UNCHANGED <<request, answer>>

Record(c) ==
    /\ Pending(c)
    /\ bound[request[c].key] = request[c].exec
    /\ answer' = [answer EXCEPT ![c] = "recorded"]
    /\ UNCHANGED <<bound, request>>

Refuse(c) ==
    /\ Pending(c)
    /\ bound[request[c].key] \notin {None, request[c].exec}
    /\ answer' = [answer EXCEPT ![c] = "refused"]
    /\ UNCHANGED <<bound, request>>

GiveUp(c) ==
    /\ Pending(c)
    /\ answer' = [answer EXCEPT ![c] = "gave up"]
    /\ UNCHANGED <<bound, request>>

Next == \E c \in Call : Ask(c) \/ Bind(c) \/ Record(c) \/ Refuse(c) \/ GiveUp(c)

vars == <<bound, request, answer>>

Spec == Init /\ [][Next]_vars
================================================================================
