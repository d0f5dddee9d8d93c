------------------------------ MODULE TaskSpec ------------------------------
(***************************************************************************)
(* What the service promises the owner of a task, and nothing about how:   *)
(* a task moves through its documented statuses (docs/api.md, "Submit and  *)
(* poll a task"; docs/a2a.md, "Conversations, task states and retries"),   *)
(* every turn of the conversation is started at most once, and a task that *)
(* has ended is never restarted.  Tasks.tla implements it with versioned   *)
(* rows, an at-least-once queue, crashing workers and a sweeper.           *)
(***************************************************************************)
EXTENDS Naturals

CONSTANTS Task,      \* task identifiers
          MaxTurn    \* the last turn a conversation may reach

VARIABLES status,    \* the status a reader of the task sees
          turn,      \* the turn of the conversation it belongs to
          starts     \* how often each turn has been handed to the model

svars == <<status, turn, starts>>

Turn  == 0 .. MaxTurn
Ended == {"completed", "failed", "interrupted", "cancelled"}
Status == Ended \cup {"absent", "queued", "running", "input_required", "erased"}

Init == /\ status = [t \in Task |-> "absent"]
        /\ turn   = [t \in Task |-> 0]
        /\ starts = [t \in Task |-> [k \in Turn |-> 0]]

Move(t, s) == status' = [status EXCEPT ![t] = s]

Submit(t) == /\ status[t] = "absent"
             /\ Move(t, "queued")
             /\ UNCHANGED <<turn, starts>>

Start(t) == /\ status[t] = "queued"
            /\ starts[t][turn[t]] = 0
            /\ Move(t, "running")
            /\ starts' = [starts EXCEPT ![t][turn[t]] = 1]
            /\ UNCHANGED turn

\* The turn ends with an answer, a question or a failure, or because nobody
\* can tell any more what its worker did.
EndTurn(t) == /\ status[t] = "running"
              /\ \E s \in {"completed", "input_required", "failed", "interrupted"} :
                    Move(t, s)
              /\ UNCHANGED <<turn, starts>>

Continue(t) == /\ status[t] = "input_required"
               /\ turn[t] < MaxTurn
               /\ Move(t, "queued")
               /\ turn' = [turn EXCEPT ![t] = @ + 1]
               /\ UNCHANGED starts

Cancel(t) == /\ status[t] = "queued"
             /\ Move(t, "cancelled")
             /\ UNCHANGED <<turn, starts>>

Erase(t) == /\ status[t] \notin {"absent", "erased"}
            /\ Move(t, "erased")
            /\ UNCHANGED <<turn, starts>>

Next == \E t \in Task : \/ Submit(t) \/ Start(t) \/ EndTurn(t)
                        \/ Continue(t) \/ Cancel(t) \/ Erase(t)

Spec == Init /\ [][Next]_svars
=============================================================================
