--------------------------- MODULE SubmissionSpec ---------------------------
(***************************************************************************)
(* What submitting work under a key promises (README.md, docs/api.md): the *)
(* service accepts a key once, for one body and one task, in the step that *)
(* puts its message there; it accepts a message only for a new task or for *)
(* one that asked for it; and a client is told nothing but what was        *)
(* accepted under its key, for what it sent.                               *)
(***************************************************************************)
EXTENDS Sequences

CONSTANTS Call, Key, Body, Task

VARIABLES
    accepted,   \* what was accepted: key, body and task
    told,       \* the answers that named a task, and to whom
    work        \* the tasks: their status and the keys of their messages

vars == <<accepted, told, work>>

Init ==
    /\ accepted = {}
    /\ told = {}
    /\ work = [t \in Task |-> [status |-> "absent", messages |-> <<>>]]

Accept(k, body, t) ==
    /\ \A a \in accepted : a.key # k
    /\ work[t].status \in {"absent", "input_required"}
    /\ accepted' = accepted \cup {[key |-> k, body |-> body, task |-> t]}
    /\ work' = [work EXCEPT ![t] = [status |-> "queued", messages |-> Append(@.messages, k)]]

\* One answer to a call, of what is accepted by then.
Tell(c) ==
    /\ \A u \in told : u.call # c
    /\ \E a \in accepted' :
           told' = told \cup {[call |-> c, key |-> a.key, body |-> a.body, task |-> a.task]}

TurnEnds(t, status) ==
    /\ work[t].status = "queued"
    /\ work' = [work EXCEPT ![t].status = status]
    /\ UNCHANGED <<accepted, told>>

Next ==
    \/ \E k \in Key, body \in Body, t \in Task :
           Accept(k, body, t) /\ (UNCHANGED told \/ \E c \in Call : Tell(c))
    \/ \E c \in Call : Tell(c) /\ UNCHANGED <<accepted, work>>
    \/ \E t \in Task, status \in {"input_required", "completed"} : TurnEnds(t, status)

Spec == Init /\ [][Next]_vars
=============================================================================
