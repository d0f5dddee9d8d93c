------------------------------- MODULE Tasks -------------------------------
(***************************************************************************)
(* The task rows of one agent and everybody who writes them: the API       *)
(* handlers (src/api.rs, src/a2a.rs), the worker invocations that execute  *)
(* a queued task and the ones that run the dispatch_pending schedule       *)
(* (src/worker.rs), and the deletion of the agent.  They share nothing but *)
(* the table: every write is a compare-and-swap on the version its writer  *)
(* read, and the queue may deliver a message late, twice or never.         *)
(*                                                                         *)
(* Instants are countdowns: a field that holds `now() + n` holds n here    *)
(* and Tick takes one off, so that `t <= now()` reads t = 0.               *)
(***************************************************************************)
EXTENDS Integers, FiniteSets, Store

CONSTANTS
    Task,        \* TASK# rows of the agent
    A2ATask,     \* those submitted through SendMessage: they have turns
    Worker,      \* concurrent invocations of the worker function
    Lease,       \* lease_until - now() of a claim (270 s)
    Retry,       \* the delay until a queued row is dispatched again (300 s)
    MaxTurn,     \* the last turn MAX_MESSAGES leaves room for
    MaxVersion,  \* bound: dispatches and continuations stop at this version
    MaxCalls,    \* bound: API calls in flight
    MaxCrashes   \* bound: invocations that die before they return

ASSUME TasksAssumption ==
    /\ A2ATask \subseteq Task
    /\ Lease \in Nat \ {0} /\ Retry \in Nat \ {0}
    /\ MaxTurn \in Nat /\ MaxVersion \in Nat
    /\ MaxCalls \in Nat /\ MaxCrashes \in Nat

VARIABLES
    row,      \* the TASK# rows
    deleted,  \* META.deleted
    queue,    \* tasks SQS holds a message for
    call,     \* API calls past their META read: <<operation, task>>
    worker,   \* the local state of every invocation
    purge,    \* the DELETE of the agent, between its writes
    starts,   \* history: how often each turn of a task was executed
    late,     \* history: turns written as queued, or again, once META is deleted
    crashes   \* how many invocations have died

vars == <<row, deleted, queue, call, worker, purge, starts, late, crashes>>

Turn        == 0 .. MaxTurn
MaxMessages == 2 * (MaxTurn + 1)
NotDue      == -1
Handled     == -1
Horizon     == IF Lease < Retry THEN Retry ELSE Lease
Answered    == {"completed", "input_required"}
Outcome     == Answered \cup {"failed", "interrupted"}
Ended       == {"completed", "failed", "interrupted", "cancelled"}
Status      == Ended \cup {"absent", "queued", "running", "input_required", "erased"}

\* messages counts the conversation a2a.messages; it and turn stay 0 for a
\* task without a2a data.  status "absent" is the missing row and "erased" the
\* row whose payload is null: every reader tests for both before it looks on.
Row == [ver: Nat, status: Status, turn: Turn, messages: 0 .. MaxMessages,
        lease: 0 .. Lease, due: NotDue .. Horizon]

NoRow == [ver |-> Absent, status |-> "absent", turn |-> 0, messages |-> 0,
          lease |-> 0, due |-> NotDue]

Op == {"create", "continue", "cancel", "send"}

\* pc is what an invocation does next, and ver and turn what it remembers of
\* the row it read or claimed.
Pc   == {"check", "claim", "cancel", "execute", "sweep", "bump", "expire", "send"}
Idle == [pc |-> "idle"]
Busy == [pc: Pc, task: Task, ver: Nat, turn: Turn]

Job(pc, t, ver, turn) == [pc |-> pc, task |-> t, ver |-> ver, turn |-> turn]

At(w, pc) == worker[w].pc = pc
Goto(w, pc) ==
    worker' = [worker EXCEPT ![w] = Job(pc, @.task, @.ver, @.turn)]
Return(w) == worker' = [worker EXCEPT ![w] = Idle]

Init ==
    /\ row = [t \in Task |-> NoRow]
    /\ deleted = FALSE
    /\ queue = {}
    /\ call = {}
    /\ worker = [w \in Worker |-> Idle]
    /\ purge = [pc |-> "none", seen |-> [t \in Task |-> Absent]]
    /\ starts = [t \in Task |-> [k \in Turn |-> 0]]
    /\ late = {}
    /\ crashes = 0

-----------------------------------------------------------------------------
(* Writing a row. *)

\* put(row, Some(expected)): the row becomes `new` unless somebody else wrote
\* it since the version the writer expects.
Put(t, expected, new) ==
    IF Matches(row[t], expected)
       THEN row' = [row EXCEPT ![t] = Stored(new, expected)]
       ELSE UNCHANGED row

\* Mutant: relies on the first message alone, without a due time.
CreatedRowUnindexed(r, t) ==
    [r EXCEPT !.status = "queued", !.messages = IF t \in A2ATask THEN 1 ELSE 0]

\* A new task, and the next turn of one that asked for input: due at once.
CreatedRow(r, t) ==
    [r EXCEPT !.status = "queued", !.due = 0, !.messages = IF t \in A2ATask THEN 1 ELSE 0]
ContinuedRow(r) ==
    [r EXCEPT !.status = "queued", !.turn = @ + 1, !.messages = @ + 1, !.lease = 0, !.due = 0]

\* Mutant: a cancelled task stays in the maintenance index.
CancelledRowIndexed(r) == [r EXCEPT !.status = "cancelled"]

\* The owner's cancellation, and that of a task whose agent is deleted; a
\* queued row has no lease to reset.
CancelledRow(r) == [r EXCEPT !.status = "cancelled", !.due = NotDue]

\* Mutant: the claim takes the task out of the index.
ClaimedRowUnindexed(r) == [r EXCEPT !.status = "running", !.lease = Lease, !.due = NotDue]

\* The row while execute_task runs.
ClaimedRow(r) == [r EXCEPT !.status = "running", !.lease = Lease, !.due = Lease]

\* Mutant: the error of a failed turn becomes a message of the agent.
FinishedRowWithError(r, t, outcome) ==
    [r EXCEPT !.status = outcome, !.lease = 0, !.due = NotDue,
              !.messages = IF t \in A2ATask THEN @ + 1 ELSE @]

\* finish_task: an answer is appended to the conversation, every other outcome
\* leaves it as it was.
FinishedRow(r, t, outcome) ==
    [r EXCEPT !.status = outcome, !.lease = 0, !.due = NotDue,
              !.messages = IF outcome \in Answered /\ t \in A2ATask THEN @ + 1 ELSE @]

\* Mutant: an abandoned execution is queued again.
SweptRowReplayed(r) ==
    IF r.status = "running"
       THEN [r EXCEPT !.status = "queued", !.lease = 0, !.due = 0]
       ELSE [r EXCEPT !.due = NotDue]

\* dispatch_pending on a row that is due and not queued: an abandoned
\* execution is interrupted, anything else loses its due time (clear_due).
SweptRow(r) ==
    IF r.status = "running"
       THEN [r EXCEPT !.status = "interrupted", !.lease = 0, !.due = NotDue]
       ELSE [r EXCEPT !.due = NotDue]

BumpedRow(r) == [r EXCEPT !.due = Retry]

ErasedRow(r) == [r EXCEPT !.status = "erased", !.due = NotDue]

\* The history of a write that leaves turn k of t waiting for an invocation.
LateWith(t, k) == IF deleted THEN late \cup {<<t, k>>} ELSE late

-----------------------------------------------------------------------------
(* The API.  A handler reads META, then its task row, and writes that row    *)
(* once.  Only the META read can be stale when the write succeeds, so the    *)
(* handlers are two steps: Admit, and the conditional write.                 *)

Admit(op, t) ==
    /\ ~deleted
    /\ op \in {"create", "continue", "cancel"}
    /\ Cardinality(call) < MaxCalls
    /\ op \in {"continue", "cancel"} => t \in A2ATask
    /\ call' = call \cup {<<op, t>>}
    /\ UNCHANGED <<row, deleted, queue, worker, purge, starts, late, crashes>>

\* create_task and send_message for a new task: insert the queued row (its
\* receipt is in Submission.tla), then send it to the queue.
CreateTask(t) ==
    /\ <<"create", t>> \in call
    /\ Matches(row[t], Absent)
    /\ row' = [row EXCEPT ![t] = Stored(CreatedRow(@, t), Absent)]
    /\ call' = (call \ {<<"create", t>>}) \cup {<<"send", t>>}
    /\ late' = LateWith(t, row[t].turn)
    /\ UNCHANGED <<deleted, queue, worker, purge, starts, crashes>>

\* Mutant: compares before the two messages are added.
HasRoomUncounted(r) == r.messages <= MaxMessages

\* A turn adds the message of the user and the answer of the agent.
HasRoom(r) == r.messages + 2 <= MaxMessages

\* send_message on a task that asked for input: the next turn, if it fits.
ContinueTask(t) ==
    /\ <<"continue", t>> \in call
    /\ row[t].status = "input_required"
    /\ HasRoom(row[t])
    /\ row[t].ver + 1 < MaxVersion
    /\ row' = [row EXCEPT ![t] = Stored(ContinuedRow(@), @.ver)]
    /\ call' = (call \ {<<"continue", t>>}) \cup {<<"send", t>>}
    /\ late' = LateWith(t, row[t].turn + 1)
    /\ UNCHANGED <<deleted, queue, worker, purge, starts, crashes>>

\* cancel_task: only while nothing runs.
CancelTask(t) ==
    /\ <<"cancel", t>> \in call
    /\ row[t].status = "queued"
    /\ row' = [row EXCEPT ![t] = Stored(CancelledRow(@), @.ver)]
    /\ call' = call \ {<<"cancel", t>>}
    /\ UNCHANGED <<deleted, queue, worker, purge, starts, late, crashes>>

\* The enqueue that follows the write of a queued row.
SendTask(t) ==
    /\ <<"send", t>> \in call
    /\ queue' = queue \cup {t}
    /\ call' = call \ {<<"send", t>>}
    /\ UNCHANGED <<row, deleted, worker, purge, starts, late, crashes>>

\* A call ends here without a (further) write: its task is in another state,
\* its write lost a race, enqueueing failed, or its process died.
CallEnds(c) ==
    /\ c \in call
    /\ call' = call \ {c}
    /\ UNCHANGED <<row, deleted, queue, worker, purge, starts, late, crashes>>

-----------------------------------------------------------------------------
(* run_task: a worker invocation that received a queue message. *)

\* The first read.  A message whose task is missing, erased or not queued
\* changes nothing: the invocation returns at once.
StartTask(w, t) ==
    /\ At(w, "idle")
    /\ t \in queue
    /\ row[t].status = "queued"
    /\ worker' = [worker EXCEPT ![w] = Job("check", t, row[t].ver, row[t].turn)]
    /\ UNCHANGED <<row, deleted, queue, call, purge, starts, late, crashes>>

\* Mutant: trusts the task row and does not look at META again.
CheckAgentNever(w) ==
    /\ worker[w].pc \in {"check", "sweep"}
    /\ Goto(w, IF At(w, "check") THEN "claim" ELSE "bump")
    /\ UNCHANGED <<row, deleted, queue, call, purge, starts, late, crashes>>

\* agent_active: META is read after the task row and before its write.  A
\* sweeping invocation makes the same test.
CheckAgent(w) ==
    /\ worker[w].pc \in {"check", "sweep"}
    /\ Goto(w, IF deleted THEN "cancel"
               ELSE IF At(w, "check") THEN "claim" ELSE "bump")
    /\ UNCHANGED <<row, deleted, queue, call, purge, starts, late, crashes>>

\* The owner is gone: a queued task is cancelled instead of executed.
CancelOrphan(w) ==
    /\ At(w, "cancel")
    /\ LET t == worker[w].task IN Put(t, worker[w].ver, CancelledRow(row[t]))
    /\ Return(w)
    /\ UNCHANGED <<deleted, queue, call, purge, starts, late, crashes>>

\* The claim.  Whoever loses the compare-and-swap returns without executing;
\* the winner remembers the version its own write produced.
ClaimTask(w) ==
    LET t == worker[w].task
    IN  /\ At(w, "claim")
        /\ Put(t, worker[w].ver, ClaimedRow(row[t]))
        /\ IF Matches(row[t], worker[w].ver)
              THEN /\ worker' = [worker EXCEPT ![w] = Job("execute", t, @.ver + 1, @.turn)]
                   /\ starts' = [starts EXCEPT ![t][worker[w].turn] = @ + 1]
              ELSE Return(w) /\ UNCHANGED starts
        /\ UNCHANGED <<deleted, queue, call, purge, late, crashes>>

\* finish_task re-reads the row: only the claim it belongs to may be finished.
OwnsClaim(w, r) ==
    /\ Matches(r, worker[w].ver)
    /\ r.status = "running"
    /\ r.turn = worker[w].turn

\* execute_task returns or is given up after 240 s, with an answer, a question
\* (A2A only), an error, or an outcome that is not known; finish_task records
\* it unless another write came between.
FinishTask(w, outcome) ==
    LET t == worker[w].task
    IN  /\ At(w, "execute")
        /\ outcome = "input_required" => t \in A2ATask
        /\ IF OwnsClaim(w, row[t])
              THEN Put(t, worker[w].ver, FinishedRow(row[t], t, outcome))
              ELSE UNCHANGED row
        /\ Return(w)
        /\ UNCHANGED <<deleted, queue, call, purge, starts, late, crashes>>

-----------------------------------------------------------------------------
(* dispatch_pending: the five-minute schedule.  The index it queries is only *)
(* eventually consistent, so any task may be a candidate; each candidate is  *)
(* read again before anything is decided.                                    *)

SweepTask(w, t) ==
    /\ At(w, "idle")
    /\ row[t].due = 0
    /\ row[t].status = "running" => row[t].lease = 0
    /\ row[t].status = "queued" => row[t].ver < MaxVersion
    /\ worker' = [worker EXCEPT ![w] =
                    Job(IF row[t].status = "queued" THEN "sweep" ELSE "expire",
                        t, row[t].ver, row[t].turn)]
    /\ UNCHANGED <<row, deleted, queue, call, purge, starts, late, crashes>>

ExpireTask(w) ==
    /\ At(w, "expire")
    /\ LET t == worker[w].task IN Put(t, worker[w].ver, SweptRow(row[t]))
    /\ Return(w)
    /\ UNCHANGED <<deleted, queue, call, purge, starts, late, crashes>>

\* A queued row gets its next due time first and its message second.
BumpTask(w) ==
    LET t == worker[w].task
    IN  /\ At(w, "bump")
        /\ Put(t, worker[w].ver, BumpedRow(row[t]))
        /\ IF Matches(row[t], worker[w].ver)
              THEN Goto(w, "send") /\ late' = LateWith(t, row[t].turn)
              ELSE Return(w) /\ UNCHANGED late
        /\ UNCHANGED <<deleted, queue, call, purge, starts, crashes>>

Dispatch(w) ==
    /\ At(w, "send")
    /\ queue' = queue \cup {worker[w].task}
    /\ Return(w)
    /\ UNCHANGED <<row, deleted, call, purge, starts, late, crashes>>

-----------------------------------------------------------------------------
(* delete_agent. *)

\* owner() and the write of META: from here on every read of META fails.
DeleteAgent ==
    /\ ~deleted
    /\ deleted' = TRUE
    /\ purge' = [purge EXCEPT !.pc = "list"]
    /\ UNCHANGED <<row, queue, call, worker, starts, late, crashes>>

\* list(): the rows it will erase, with the versions it will expect.
ListRows ==
    /\ purge.pc = "list"
    /\ purge' = [pc |-> "erase", seen |-> [t \in Task |-> row[t].ver]]
    /\ UNCHANGED <<row, deleted, queue, call, worker, starts, late, crashes>>

\* One put of the loop; a conflict is ignored.
EraseRow(t) ==
    /\ purge.pc = "erase"
    /\ purge.seen[t] \in Nat \ {Absent}
    /\ Put(t, purge.seen[t], ErasedRow(row[t]))
    /\ purge' = [purge EXCEPT !.seen[t] = Handled]
    /\ UNCHANGED <<deleted, queue, call, worker, starts, late, crashes>>

\* 204 No Content.
AgentDeleted ==
    /\ purge.pc = "erase"
    /\ \A t \in Task : purge.seen[t] \in {Absent, Handled}
    /\ purge' = [purge EXCEPT !.pc = "done"]
    /\ UNCHANGED <<row, deleted, queue, call, worker, starts, late, crashes>>

\* A store error or the end of the process leaves the loop where it is; a
\* repeated DELETE finds no agent.
DeleteFails ==
    /\ purge.pc \in {"list", "erase"}
    /\ purge' = [purge EXCEPT !.pc = "failed"]
    /\ UNCHANGED <<row, deleted, queue, call, worker, starts, late, crashes>>

-----------------------------------------------------------------------------
(* The environment. *)

\* What the version bound must not break: a queued task that can no longer be
\* dispatched again keeps its message.
Replaceable(t) == row[t].status = "queued" => row[t].ver < MaxVersion

\* SQS forgets a message: its receiver succeeded, three receivers failed, or
\* it was retained too long.
DropMessage(t) ==
    /\ t \in queue
    /\ Replaceable(t)
    /\ queue' = queue \ {t}
    /\ UNCHANGED <<row, deleted, call, worker, purge, starts, late, crashes>>

\* An invocation ends between two steps: a crash, the 300 s limit of the
\* function, or a store call that failed, with or without having written.
\* The message it was working on stays in the queue.
Crash(w) ==
    /\ ~At(w, "idle")
    /\ At(w, "send") => Replaceable(worker[w].task)
    /\ crashes < MaxCrashes
    /\ crashes' = crashes + 1
    /\ Return(w)
    /\ UNCHANGED <<row, deleted, queue, call, purge, starts, late>>

Earlier(n) == IF n > 0 THEN n - 1 ELSE n

Tick ==
    /\ \E t \in Task : row[t].due > 0
    /\ row' = [t \in Task |-> [row[t] EXCEPT !.lease = Earlier(@), !.due = Earlier(@)]]
    /\ UNCHANGED <<deleted, queue, call, worker, purge, starts, late, crashes>>

-----------------------------------------------------------------------------
Api == \/ \E t \in Task : \/ \E op \in Op : Admit(op, t)
                          \/ CreateTask(t) \/ ContinueTask(t) \/ CancelTask(t)
                          \/ SendTask(t)
       \/ \E c \in call : CallEnds(c)

Steps(w) == \/ CheckAgent(w) \/ CancelOrphan(w) \/ ClaimTask(w)
            \/ \E outcome \in Outcome : FinishTask(w, outcome)
            \/ ExpireTask(w) \/ BumpTask(w) \/ Dispatch(w)

Deletion == \/ DeleteAgent \/ ListRows \/ AgentDeleted \/ DeleteFails
            \/ \E t \in Task : EraseRow(t)

Next == \/ Api
        \/ \E w \in Worker : \/ \E t \in Task : StartTask(w, t) \/ SweepTask(w, t)
                             \/ Steps(w) \/ Crash(w)
        \/ Deletion
        \/ \E t \in Task : DropMessage(t)
        \/ Tick

Spec == Init /\ [][Next]_vars

\* The schedule keeps firing, invocations run to their end unless they crash,
\* time passes, and a message that stays in the queue is received: SQS delivers
\* until a receiver succeeds, and a busy function is retried.
Fairness ==
    /\ WF_vars(Tick)
    /\ \A w \in Worker : WF_vars(Steps(w))
    /\ \A t \in Task : /\ SF_vars(\E w \in Worker : StartTask(w, t))
                       /\ SF_vars(\E w \in Worker : SweepTask(w, t))

FairSpec == Spec /\ Fairness

-----------------------------------------------------------------------------
(* Properties. *)

\* Every variable holds what the code can store in it: the rows, the local
\* state of each invocation, the calls in flight.
TypeOK ==
    /\ row \in [Task -> Row]
    /\ deleted \in BOOLEAN
    /\ queue \subseteq Task
    /\ call \subseteq Op \X Task
    /\ worker \in [Worker -> {Idle} \cup Busy]
    /\ purge \in [pc: {"none", "list", "erase", "done", "failed"},
              seen: [Task -> Nat \cup {Handled}]]
    /\ starts \in [Task -> [Turn -> Nat]]
    /\ late \subseteq Task \X Turn
    /\ crashes \in 0 .. MaxCrashes

\* No turn of a task is executed twice, whatever the queue delivers, however
\* often the dispatcher sends it again and wherever an invocation dies: tools
\* with side effects are never replayed (docs/architecture.md, "Delivery and
\* uncertainty").
OneStartPerTurn == \A t \in Task : \A k \in Turn : starts[t][k] <= 1

\* The maintenance index holds exactly the tasks somebody still has to act on:
\* a queued or running row without a due time would never be recovered, and a
\* due time on any other row would be swept for nothing (so clear_due never
\* has anything to clear).
SweepableIffLive ==
    \A t \in Task : row[t].due # NotDue <=> row[t].status \in {"queued", "running"}

\* A conversation alternates user and agent messages and stays within
\* MAX_MESSAGES: no turn loses its question, records two answers or leaves no
\* room for its own.
HistoryFollowsTurn ==
    \A t \in A2ATask : row[t].status \notin {"absent", "erased"} =>
        row[t].messages = 2 * row[t].turn + (IF row[t].status \in Answered THEN 2 ELSE 1)

\* A turn that a handler or a sweep admitted before the deletion queues, or
\* queues again, after it is never executed.  It reaches the queue like any
\* other, so this rests on the order of run_task: it reads the task row first
\* and META second, and claims the version of the first read.
LateTurnsNeverStart == \A t \in Task : \A k \in Turn : <<t, k>> \in late => starts[t][k] = 0

\* The rows, the queue and the invocations together keep the promise of
\* TaskSpec: documented status changes only, every turn at most once, and an
\* ended task stays as it ended.
Promise == INSTANCE TaskSpec WITH status <- [t \in Task |-> row[t].status],
                                  turn <- [t \in Task |-> row[t].turn]
ImplementsTaskSpec == Promise!Spec

\* A queued task is claimed, cancelled or erased, even if its message is lost or
\* the invocation that received it dies: the dispatcher finds it again.
QueuedIsTaken == \A t \in Task : row[t].status = "queued" ~> row[t].status # "queued"

\* A running task ends, even if the invocation that runs it is gone.
RunningEnds == \A t \in Task : row[t].status = "running" ~> row[t].status # "running"

\* docs/api.md says that deleting an agent clears its private records.  It does
\* not hold of a record that somebody writes between the deletion's list and
\* its put: the put conflicts and the conflict is ignored.
DeletionClearsRecords ==
    purge.pc = "done" =>
        \A t \in Task : purge.seen[t] # Absent => row[t].status = "erased"
=============================================================================
