----------------------------- MODULE Submission -----------------------------
(***************************************************************************)
(* Submitting work twice (src/api.rs, create_task; src/a2a.rs,             *)
(* send_message): a client that lost a response sends the same request     *)
(* again, maybe while the first one still runs, maybe after the owner      *)
(* changed the skills.  The task write and the receipt of its key go into  *)
(* one transaction.  Both handlers follow one course and differ in what    *)
(* names the task: the idempotency key itself, or an id of its own.        *)
(***************************************************************************)
EXTENDS Integers, Sequences, FiniteSets, Store

CONSTANTS
    Call,        \* requests, retries included
    ApiKey,      \* agent and Idempotency-Key of create_task
    MessageKey,  \* caller and messageId of send_message
    Body,        \* fingerprints: what the client asked for under the key
    MaxChanges   \* bound: changes of the owner's skills

ASSUME SubmissionAssumption ==
    /\ ApiKey \cap MessageKey = {} /\ (ApiKey \cup MessageKey) \cap Call = {}
    /\ MaxChanges \in Nat

VARIABLES
    row,      \* TASK# rows: version, status, and the keys of their messages
    receipt,  \* IDEMPOTENCY# and A2AMESSAGE# rows
    skills,   \* the skills the request needs exist and are authorized
    changes,  \* how often the owner changed them
    call      \* the local state of every request

vars == <<row, receipt, skills, changes, call>>

Key    == ApiKey \cup MessageKey
\* A task is named by its idempotency key or by the request that created it.
TaskId == ApiKey \cup Call
New    == "new"
Nobody == "nobody"

NoRow     == [ver |-> Absent, status |-> "absent", messages |-> <<>>]
NoReceipt == [ver |-> Absent, body |-> Nobody, task |-> Nobody]

Done == {"answered", "refused", "conflict", "failed"}
Pc   == Done \cup {"idle", "receipt", "skills", "task", "commit", "recheck"}

\* seen is the row the request will write; known whether its key had a receipt
\* for the same body when it arrived; task what the answer names.
Idle == [pc |-> "idle", key |-> Nobody, body |-> Nobody, target |-> Nobody,
         seen |-> NoRow, known |-> FALSE, task |-> Nobody]

Init ==
    /\ row = [t \in TaskId |-> NoRow]
    /\ receipt = [k \in Key |-> NoReceipt]
    /\ skills = TRUE
    /\ changes = 0
    /\ call = [c \in Call |-> Idle]

At(c, pc) == call[c].pc = pc
Goto(c, pc) == call' = [call EXCEPT ![c].pc = pc]
End(c, pc, task) ==
    call' = [call EXCEPT ![c].pc = pc, ![c].task = task, ![c].seen = NoRow]

Same(c) == receipt[call[c].key].body = call[c].body

-----------------------------------------------------------------------------
\* A request arrives: a new task, or the next message of a conversation.
Submit(c, k, body, target) ==
    /\ At(c, "idle")
    /\ target # New => k \in MessageKey /\ row[target].status # "absent"
    /\ call' = [call EXCEPT ![c] = [Idle EXCEPT
                    !.pc = "receipt", !.key = k, !.body = body, !.target = target,
                    !.known = receipt[k].ver # Absent /\ receipt[k].body = body]]
    /\ UNCHANGED <<row, receipt, skills, changes>>

\* Mutant: a receipt is found by its key alone.
LookupAnyBody(c, otherwise) ==
    IF receipt[call[c].key].ver = Absent THEN otherwise
    ELSE End(c, "answered", receipt[call[c].key].task)

\* previous_idempotent_task and receipt: the receipt of this key, if it was
\* written for the same body, leads to its task.
Lookup(c, otherwise) ==
    IF receipt[call[c].key].ver = Absent THEN otherwise
    ELSE IF Same(c) THEN End(c, "answered", receipt[call[c].key].task)
    ELSE End(c, "refused", Nobody)

\* Mutant: looks at the skills first.
ReadReceiptLate(c) ==
    /\ At(c, "receipt")
    /\ IF skills THEN Lookup(c, Goto(c, "skills")) ELSE End(c, "refused", Nobody)
    /\ UNCHANGED <<row, receipt, skills, changes>>

\* The receipt comes before everything that may have changed since.
ReadReceipt(c) ==
    /\ At(c, "receipt")
    /\ Lookup(c, Goto(c, "skills"))
    /\ UNCHANGED <<row, receipt, skills, changes>>

ReadSkills(c) ==
    /\ At(c, "skills")
    /\ IF skills THEN Goto(c, "task") ELSE End(c, "refused", Nobody)
    /\ UNCHANGED <<row, receipt, skills, changes>>

\* Mutant: a task that is being worked on accepts a message, too.
WaitsOrRuns(t) == row[t].status \in {"queued", "input_required"}

\* Only a task that asked for input accepts a message.
Waits(t) == row[t].status = "input_required"

\* A new task has no row.
ReadTask(c) ==
    LET t == call[c].target
    IN  /\ At(c, "task")
        /\ IF t = New THEN Goto(c, "commit")
           ELSE IF Waits(t)
                   THEN call' = [call EXCEPT ![c].pc = "commit", ![c].seen = row[t]]
                   ELSE End(c, "refused", Nobody)
        /\ UNCHANGED <<row, receipt, skills, changes>>

\* The task a request writes.
Target(c) ==
    IF call[c].target # New THEN call[c].target
    ELSE IF call[c].key \in ApiKey THEN call[c].key ELSE c

NewRow(c) ==
    [call[c].seen EXCEPT !.status = "queued", !.messages = Append(@, call[c].key)]

\* Mutant: the receipt names the request instead of the task it was for.
NewReceiptOwnTask(c) == [NoReceipt EXCEPT !.body = call[c].body, !.task = c]

NewReceipt(c) == [NoReceipt EXCEPT !.body = call[c].body, !.task = Target(c)]

\* Mutant: the receipt is written without a condition.
ReceiptExpectsAny(c) == receipt[call[c].key].ver

\* The receipt is inserted, never replaced.
ReceiptExpects(c) == Absent

\* The conditions of the transaction and what it writes.
Fits(c) == /\ Matches(row[Target(c)], call[c].seen.ver)
           /\ Matches(receipt[call[c].key], ReceiptExpects(c))
Write(c) ==
    /\ row' = [row EXCEPT ![Target(c)] = Stored(NewRow(c), call[c].seen.ver)]
    /\ receipt' = [receipt EXCEPT ![call[c].key] = Stored(NewReceipt(c), ReceiptExpects(c))]

Commit(c) ==
    /\ At(c, "commit")
    /\ IF Fits(c) THEN Write(c) /\ End(c, "answered", Target(c))
                  ELSE UNCHANGED <<row, receipt>> /\ Goto(c, "recheck")
    /\ UNCHANGED <<skills, changes>>

\* A transaction is also cancelled when it meets another one in flight.
Collide(c) ==
    /\ At(c, "commit")
    /\ Goto(c, "recheck")
    /\ UNCHANGED <<row, receipt, skills, changes>>

\* The response of the store is lost: the client sees an error, the task exists.
LoseCommit(c) ==
    /\ At(c, "commit")
    /\ Fits(c)
    /\ Write(c)
    /\ End(c, "failed", Nobody)
    /\ UNCHANGED <<skills, changes>>

\* Whoever lost looks for the receipt of the winner.
Recheck(c) ==
    /\ At(c, "recheck")
    /\ Lookup(c, End(c, "conflict", Nobody))
    /\ UNCHANGED <<row, receipt, skills, changes>>

Fail(c) ==
    /\ call[c].pc \notin Done \cup {"idle"}
    /\ End(c, "failed", Nobody)
    /\ UNCHANGED <<row, receipt, skills, changes>>

-----------------------------------------------------------------------------
\* A worker ends the turn; a conversation may ask for more (Tasks.tla).
TurnEnds(t, status) ==
    /\ row[t].status = "queued"
    /\ status = "input_required" => t \in Call
    /\ row' = [row EXCEPT ![t] = Stored([@ EXCEPT !.status = status], @.ver)]
    /\ UNCHANGED <<receipt, skills, changes, call>>

ChangeSkills ==
    /\ changes < MaxChanges
    /\ skills' = ~skills
    /\ changes' = changes + 1
    /\ UNCHANGED <<row, receipt, call>>

Handle(c) == \/ \E k \in Key, body \in Body, target \in Call \cup {New} : Submit(c, k, body, target)
             \/ ReadReceipt(c) \/ ReadSkills(c) \/ ReadTask(c)
             \/ Commit(c) \/ Collide(c) \/ LoseCommit(c) \/ Recheck(c) \/ Fail(c)

Next == \/ \E c \in Call : Handle(c)
        \/ \E t \in TaskId, status \in {"input_required", "completed"} : TurnEnds(t, status)
        \/ ChangeSkills

Spec == Init /\ [][Next]_vars

-----------------------------------------------------------------------------
(* Properties. *)

TypeOK ==
    /\ row \in [TaskId -> [ver: Nat,
                           status: {"absent", "queued", "input_required", "completed"},
                           messages: Seq(Key)]]
    /\ receipt \in [Key -> [ver: {Absent, 1}, body: Body \cup {Nobody}, task: TaskId \cup {Nobody}]]
    /\ skills \in BOOLEAN /\ changes \in 0 .. MaxChanges
    /\ \A c \in Call : call[c].pc \in Pc

\* Where the message of a key went.
Places(k) == UNION {{<<t, i>> : i \in {n \in DOMAIN row[t].messages : row[t].messages[n] = k}} :
                    t \in TaskId}

\* However often a request is repeated, and whoever else is writing, it adds
\* one message to one task or none.
OncePerKey == \A k \in Key : Cardinality(Places(k)) <= 1

\* A receipt exists exactly when its task holds the message: a retry never
\* finds a receipt of work that was not accepted, nor misses one that was.
ReceiptIffAccepted ==
    \A k \in Key : IF receipt[k].ver = Absent THEN Places(k) = {}
                   ELSE \E p \in Places(k) : p[1] = receipt[k].task

\* Everybody who is answered under one key asked for the same and is told the
\* same task.
AnswersAgree ==
    \A c, d \in Call : At(c, "answered") /\ At(d, "answered") /\ call[c].key = call[d].key =>
        call[c].body = call[d].body /\ call[c].task = call[d].task

\* A request that repeats an accepted one is answered whatever has happened to
\* the skills or the task since; only a failure keeps the answer from it.
RetryIsAnswered ==
    \A c \in Call : call[c].known => call[c].pc \notin {"refused", "conflict"}

\* What the rows and the answers amount to: a key is accepted once, together
\* with its message, by a task that is new or asked for it, nothing accepted is
\* changed or taken back, and clients are told only what was accepted before
\* (create_task, send_message; docs/architecture.md, "Task creation persists
\* before sending").
Accepted == {[key |-> k, body |-> receipt[k].body, task |-> receipt[k].task] :
                 k \in {l \in Key : receipt[l].ver # Absent}}
Told     == {[call |-> c, key |-> call[c].key, body |-> call[c].body, task |-> call[c].task] :
                 c \in {d \in Call : At(d, "answered")}}
Work     == [t \in TaskId |-> [status |-> row[t].status, messages |-> row[t].messages]]

Promise == INSTANCE SubmissionSpec WITH
    Task <- TaskId, accepted <- Accepted, told <- Told, work <- Work
ImplementsSubmissionSpec == Promise!Spec
=============================================================================
