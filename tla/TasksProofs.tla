---------------------------- MODULE TasksProofs ----------------------------
(***************************************************************************)
(* Tasks.tla keeps its promises for every set of tasks and invocations and *)
(* every value of the bounds.  The inductive invariant says what a row     *)
(* always satisfies (RowInv), what an invocation may still believe about   *)
(* the row it read (JobInv), and that a deletion erases a row once.  With  *)
(* it the steps are steps of TaskSpec.tla.                                 *)
(***************************************************************************)
EXTENDS Tasks, TLAPS

\* One row r of task t and the execution counts n of its turns: a turn that
\* still waits, and every later one, has not been executed.
RowInv(t, r, n) ==
    /\ r.status = "absent" <=> r.ver = Absent
    /\ r.status = "absent" => r.turn = 0
    /\ \A k \in Turn : k > r.turn => n[k] = 0
    /\ r.status \in {"absent", "queued"} => n[r.turn] = 0
    /\ \A k \in Turn : n[k] <= 1
    /\ r.due # NotDue <=> r.status \in {"queued", "running"}
    /\ t \in A2ATask /\ r.status \notin {"absent", "erased"} =>
          r.messages = 2 * r.turn + (IF r.status \in Answered THEN 2 ELSE 1)

\* Versions only grow, so an invocation that still holds the row's version
\* knows the row.
JobInv(j, rows) ==
    j # Idle =>
        /\ j.ver # Absent /\ j.ver <= rows[j.task].ver
        /\ j.ver = rows[j.task].ver =>
              /\ j.pc \in {"check", "claim", "sweep", "bump", "cancel"} =>
                    rows[j.task].status = "queued"
              /\ j.pc \in {"execute", "expire"} => rows[j.task].status = "running"
              /\ j.pc # "send" => rows[j.task].turn = j.turn

\* Only conversations are continued.
OnlyA2AContinues == \A t \in Task : <<"continue", t>> \in call => t \in A2ATask

\* The deletion erases a row at most once, and only the rows it has handled.
ErasedOnce ==
    /\ deleted <=> purge.pc # "none"
    /\ \A t \in Task : row[t].status = "erased" =>
          purge.pc \notin {"none", "list"} /\ purge.seen[t] = Handled

IInv == /\ TypeOK
        /\ \A t \in Task : RowInv(t, row[t], starts[t])
        /\ \A w \in Worker : JobInv(worker[w], row)
        /\ OnlyA2AContinues
        /\ ErasedOnce

-----------------------------------------------------------------------------
(* Facts about the records the actions build. *)

LEMMA BusyTyped ==
    ASSUME TypeOK, NEW w \in Worker, worker[w].pc # "idle"
    PROVE  /\ worker[w] \in Busy /\ worker[w] # Idle
           /\ worker[w].task \in Task /\ worker[w].ver \in Nat /\ worker[w].turn \in Turn
  BY DEF TypeOK, Busy, Idle

LEMMA JobFields ==
    ASSUME NEW pc \in Pc, NEW t \in Task, NEW v \in Nat, NEW k \in Turn
    PROVE  /\ Job(pc, t, v, k) \in Busy
           /\ Job(pc, t, v, k).pc = pc /\ Job(pc, t, v, k).task = t
           /\ Job(pc, t, v, k).ver = v /\ Job(pc, t, v, k).turn = k
  BY DEF Job, Busy

LEMMA StoredFields ==
    ASSUME NEW r \in Row, NEW v \in Nat
    PROVE  /\ Stored(r, v) \in Row
           /\ Stored(r, v).ver = v + 1
           /\ Stored(r, v).status = r.status /\ Stored(r, v).turn = r.turn
           /\ Stored(r, v).messages = r.messages /\ Stored(r, v).due = r.due
  BY DEF Stored, Row

\* The values those records store.
LEMMA Values ==
    /\ NotDue \in NotDue .. Horizon /\ 0 \in NotDue .. Horizon
    /\ Lease \in NotDue .. Horizon /\ Retry \in NotDue .. Horizon
    /\ 0 \in 0 .. Lease /\ Lease \in 0 .. Lease
    /\ NotDue # 0 /\ NotDue # Lease /\ NotDue # Retry
    /\ Outcome \subseteq Status
    /\ {"queued", "running", "interrupted", "cancelled", "erased"} \subseteq Status
  <1>1. Outcome \subseteq Status /\ {"queued", "running", "interrupted", "cancelled", "erased"} \subseteq Status
    BY DEF Outcome, Answered, Status, Ended
  <1>2. QED
    BY <1>1, TasksAssumption DEF NotDue, Horizon

\* Every write but the two that add a user message leaves version, turn and
\* the execution counts alone.
LEMMA CancelledFields ==
    ASSUME NEW r \in Row
    PROVE  /\ CancelledRow(r) \in Row /\ CancelledRow(r).status = "cancelled"
           /\ CancelledRow(r).due = NotDue /\ CancelledRow(r).turn = r.turn
           /\ CancelledRow(r).messages = r.messages
  BY Values DEF CancelledRow, Row

LEMMA ClaimedFields ==
    ASSUME NEW r \in Row
    PROVE  /\ ClaimedRow(r) \in Row /\ ClaimedRow(r).status = "running"
           /\ ClaimedRow(r).due = Lease /\ ClaimedRow(r).turn = r.turn
           /\ ClaimedRow(r).messages = r.messages
  BY Values DEF ClaimedRow, Row

LEMMA SweptFields ==
    ASSUME NEW r \in Row, r.status = "running"
    PROVE  /\ SweptRow(r) \in Row /\ SweptRow(r).status = "interrupted"
           /\ SweptRow(r).due = NotDue /\ SweptRow(r).turn = r.turn
           /\ SweptRow(r).messages = r.messages
  BY Values DEF SweptRow, Row

LEMMA BumpedFields ==
    ASSUME NEW r \in Row
    PROVE  /\ BumpedRow(r) \in Row /\ BumpedRow(r).status = r.status
           /\ BumpedRow(r).due = Retry /\ BumpedRow(r).turn = r.turn
           /\ BumpedRow(r).messages = r.messages
  BY Values DEF BumpedRow, Row

LEMMA ErasedFields ==
    ASSUME NEW r \in Row
    PROVE  /\ ErasedRow(r) \in Row /\ ErasedRow(r).status = "erased"
           /\ ErasedRow(r).due = NotDue /\ ErasedRow(r).turn = r.turn
  BY Values DEF ErasedRow, Row

LEMMA CreatedFields ==
    ASSUME NEW r \in Row, NEW t \in Task
    PROVE  /\ CreatedRow(r, t) \in Row /\ CreatedRow(r, t).status = "queued"
           /\ CreatedRow(r, t).due = 0 /\ CreatedRow(r, t).turn = r.turn
           /\ t \in A2ATask => CreatedRow(r, t).messages = 1
  <1>1. 0 \in 0 .. MaxMessages /\ 1 \in 0 .. MaxMessages
    BY TasksAssumption DEF MaxMessages
  <1>2. QED
    BY <1>1, Values DEF CreatedRow, Row

LEMMA ContinuedFields ==
    ASSUME NEW r \in Row, r.messages + 2 <= MaxMessages, r.messages = 2 * r.turn + 2
    PROVE  /\ ContinuedRow(r) \in Row /\ ContinuedRow(r).status = "queued"
           /\ ContinuedRow(r).due = 0 /\ ContinuedRow(r).turn = r.turn + 1
           /\ ContinuedRow(r).messages = r.messages + 1 /\ r.turn < MaxTurn
  <1>1. r.turn + 1 \in Turn /\ r.messages + 1 \in 0 .. MaxMessages /\ r.turn < MaxTurn
    BY TasksAssumption DEF Row, MaxMessages, Turn
  <1>2. QED
    BY <1>1, Values DEF ContinuedRow, Row

LEMMA FinishedFields ==
    ASSUME NEW r \in Row, NEW t \in Task, NEW outcome \in Outcome,
           t \in A2ATask => r.messages = 2 * r.turn + 1
    PROVE  /\ FinishedRow(r, t, outcome) \in Row
           /\ FinishedRow(r, t, outcome).status = outcome
           /\ FinishedRow(r, t, outcome).due = NotDue
           /\ FinishedRow(r, t, outcome).turn = r.turn
           /\ t \in A2ATask => FinishedRow(r, t, outcome).messages =
                                 2 * r.turn + (IF outcome \in Answered THEN 2 ELSE 1)
  <1> DEFINE m == IF outcome \in Answered /\ t \in A2ATask THEN r.messages + 1 ELSE r.messages
  <1>1. m \in 0 .. MaxMessages
    BY TasksAssumption DEF Row, MaxMessages, Turn
  <1>2. FinishedRow(r, t, outcome) =
          [r EXCEPT !.status = outcome, !.lease = 0, !.due = NotDue, !.messages = m]
    BY DEF FinishedRow, Row
  <1>3. t \in A2ATask => m = 2 * r.turn + (IF outcome \in Answered THEN 2 ELSE 1)
    BY DEF Row, Turn
  <1> HIDE DEF m
  <1>4. QED
    BY <1>1, <1>2, <1>3, Values DEF Row

-----------------------------------------------------------------------------
(* What a step has to show of the rows and of the invocations. *)

\* A write that advances the version of one row keeps what is known of every
\* other row and of every invocation: whoever remembers the old version now
\* remembers a stale one.
LEMMA WriteKeeps ==
    ASSUME IInv, NEW t \in Task, NEW new \in Row,
           row' = [row EXCEPT ![t] = new], starts' = starts,
           new.ver = row[t].ver + 1, RowInv(t, new, starts[t])
    PROVE  /\ row' \in [Task -> Row] /\ row'[t] = new
           /\ \A u \in Task \ {t} : row'[u] = row[u]
           /\ \A u \in Task : RowInv(u, row'[u], starts'[u])
           /\ \A w \in Worker : JobInv(worker[w], row')
  <1>1. row \in [Task -> Row] /\ worker \in [Worker -> {Idle} \cup Busy]
    BY DEF IInv, TypeOK
  <1>2. row' \in [Task -> Row] /\ row'[t] = new /\ \A u \in Task \ {t} : row'[u] = row[u]
    BY <1>1
  <1>3. \A u \in Task : RowInv(u, row'[u], starts'[u])
    BY <1>2 DEF IInv
  <1>4. ASSUME NEW w \in Worker PROVE JobInv(worker[w], row')
    <2>1. CASE worker[w] # Idle
      <3>1. worker[w].task \in Task /\ worker[w].ver \in Nat
        BY <1>1, <2>1 DEF Busy
      <3>2. row[t].ver \in Nat /\ row[worker[w].task].ver \in Nat
        BY <1>1, <3>1 DEF Row
      <3>3. QED
        BY <1>2, <3>1, <3>2 DEF IInv, JobInv
    <2>2. QED
      BY <2>1 DEF JobInv
  <1>5. QED
    BY <1>2, <1>3, <1>4

\* Replacing the state of one invocation by one that satisfies JobInv.
LEMMA JobKeeps ==
    ASSUME TypeOK, \A w \in Worker : JobInv(worker[w], row'),
           NEW w \in Worker, NEW j \in {Idle} \cup Busy,
           worker' = [worker EXCEPT ![w] = j], JobInv(j, row')
    PROVE  /\ worker' \in [Worker -> {Idle} \cup Busy]
           /\ \A v \in Worker : JobInv(worker'[v], row')
  BY DEF TypeOK

LEMMA IdleKeeps == \A rows : JobInv(Idle, rows)
  BY DEF JobInv

LEMMA InitIInv == Init => IInv
  <1> SUFFICES ASSUME Init PROVE IInv
    OBVIOUS
  <1> USE DEF Init
  <1>1. NoRow \in Row
    <2>1. 0 \in Turn /\ 0 \in 0 .. MaxMessages /\ "absent" \in Status
      BY TasksAssumption DEF Turn, MaxMessages, Status
    <2>2. QED
      BY <2>1, Values DEF Row, NoRow, Absent
  <1>2. row \in [Task -> Row] /\ starts \in [Task -> [Turn -> Nat]] /\ crashes \in 0 .. MaxCrashes
    BY <1>1, TasksAssumption
  <1>3. TypeOK
    BY <1>2 DEF TypeOK, Absent
  <1>4. \A t \in Task : RowInv(t, row[t], starts[t])
    BY TasksAssumption DEF RowInv, NoRow, Absent, NotDue, Turn
  <1>5. OnlyA2AContinues /\ ErasedOnce
    BY DEF OnlyA2AContinues, ErasedOnce, NoRow
  <1>6. QED
    BY <1>3, <1>4, <1>5, IdleKeeps DEF IInv

-----------------------------------------------------------------------------
(* The steps that write a task row. *)

LEMMA CreateStep ==
    ASSUME IInv, NEW t \in Task, CreateTask(t)
    PROVE  IInv'
  <1> DEFINE new == Stored(CreatedRow(row[t], t), Absent)
  <1>1. /\ TypeOK /\ row[t] \in Row /\ row[t].ver = Absent /\ RowInv(t, row[t], starts[t])
        /\ row' = [row EXCEPT ![t] = new] /\ starts' = starts /\ worker' = worker
        /\ UNCHANGED <<deleted, queue, purge, crashes>> /\ late' \subseteq Task \X Turn
        /\ call' = (call \ {<<"create", t>>}) \cup {<<"send", t>>}
    BY DEF IInv, TypeOK, CreateTask, Matches, LateWith, Row
  <1>2. /\ new \in Row /\ new.ver = row[t].ver + 1 /\ new.status = "queued" /\ new.due = 0
        /\ new.turn = row[t].turn /\ (t \in A2ATask => new.messages = 1)
    <2>1. /\ CreatedRow(row[t], t) \in Row /\ CreatedRow(row[t], t).status = "queued"
          /\ CreatedRow(row[t], t).due = 0 /\ CreatedRow(row[t], t).turn = row[t].turn
          /\ t \in A2ATask => CreatedRow(row[t], t).messages = 1
      BY <1>1, CreatedFields
    <2>2. Absent \in Nat
      BY DEF Absent
    <2>3. QED
      BY <1>1, <2>1, <2>2, StoredFields
  <1> HIDE DEF new
  <1>3. RowInv(t, new, starts[t])
    BY <1>1, <1>2, Values DEF RowInv, Absent, Answered
  <1>4. /\ row' \in [Task -> Row] /\ row'[t] = new
        /\ \A u \in Task \ {t} : row'[u] = row[u]
        /\ \A u \in Task : RowInv(u, row'[u], starts'[u])
        /\ \A w \in Worker : JobInv(worker'[w], row')
    BY <1>1, <1>2, <1>3, WriteKeeps
  <1>5. TypeOK'
    BY <1>1, <1>4 DEF TypeOK, Op
  <1>6. OnlyA2AContinues' /\ ErasedOnce'
    BY <1>1, <1>2, <1>4 DEF IInv, OnlyA2AContinues, ErasedOnce
  <1>7. QED
    BY <1>4, <1>5, <1>6 DEF IInv

LEMMA ContinueStep ==
    ASSUME IInv, NEW t \in Task, ContinueTask(t)
    PROVE  IInv'
  <1> DEFINE new == Stored(ContinuedRow(row[t]), row[t].ver)
  <1>1. /\ TypeOK /\ row[t] \in Row /\ RowInv(t, row[t], starts[t]) /\ t \in A2ATask
        /\ row[t].status = "input_required" /\ row[t].messages + 2 <= MaxMessages
        /\ row' = [row EXCEPT ![t] = new] /\ starts' = starts /\ worker' = worker
        /\ UNCHANGED <<deleted, queue, purge, crashes>>
        /\ call' = (call \ {<<"continue", t>>}) \cup {<<"send", t>>}
        /\ late' = LateWith(t, row[t].turn + 1)
    BY DEF IInv, TypeOK, ContinueTask, HasRoom, OnlyA2AContinues
  <1>2. /\ new \in Row /\ new.ver = row[t].ver + 1 /\ new.status = "queued" /\ new.due = 0
        /\ new.turn = row[t].turn + 1 /\ new.messages = row[t].messages + 1
        /\ row[t].messages = 2 * row[t].turn + 2
    <2>1. row[t].messages = 2 * row[t].turn + 2
      BY <1>1 DEF RowInv, Answered
    <2>2. /\ ContinuedRow(row[t]) \in Row /\ ContinuedRow(row[t]).status = "queued"
          /\ ContinuedRow(row[t]).due = 0 /\ ContinuedRow(row[t]).turn = row[t].turn + 1
          /\ ContinuedRow(row[t]).messages = row[t].messages + 1
      BY <1>1, <2>1, ContinuedFields
    <2>3. row[t].ver \in Nat
      BY <1>1 DEF Row
    <2>4. QED
      BY <2>1, <2>2, <2>3, StoredFields
  <1> HIDE DEF new
  <1>3. RowInv(t, new, starts[t])
    BY <1>1, <1>2, Values DEF RowInv, Absent, Answered, Row, Turn
  <1>4. /\ row' \in [Task -> Row] /\ row'[t] = new
        /\ \A u \in Task \ {t} : row'[u] = row[u]
        /\ \A u \in Task : RowInv(u, row'[u], starts'[u])
        /\ \A w \in Worker : JobInv(worker'[w], row')
    BY <1>1, <1>2, <1>3, WriteKeeps
  <1>5. TypeOK'
    <2>1. row[t].turn + 1 \in Turn
      BY <1>2 DEF Row
    <2>2. QED
      BY <1>1, <1>4, <2>1 DEF TypeOK, Op, LateWith
  <1>6. OnlyA2AContinues' /\ ErasedOnce'
    BY <1>1, <1>2, <1>4 DEF IInv, OnlyA2AContinues, ErasedOnce
  <1>7. QED
    BY <1>4, <1>5, <1>6 DEF IInv

\* What an unchanged row leaves an invocation that wrote it, per operation:
\* a step of an invocation that wins its compare-and-swap.
LEMMA WorkerWriteKeeps ==
    ASSUME IInv, NEW t \in Task, NEW w \in Worker, NEW new \in Row, NEW j \in {Idle} \cup Busy,
           row' = [row EXCEPT ![t] = new], worker' = [worker EXCEPT ![w] = j],
           UNCHANGED <<deleted, queue, call, purge, starts, crashes>>, late' \subseteq Task \X Turn,
           new.ver = row[t].ver + 1, new.status # "erased", RowInv(t, new, starts[t]), JobInv(j, row')
    PROVE  IInv'
  <1>1. /\ row' \in [Task -> Row] /\ row'[t] = new
        /\ \A u \in Task \ {t} : row'[u] = row[u]
        /\ \A u \in Task : RowInv(u, row'[u], starts'[u])
        /\ \A v \in Worker : JobInv(worker[v], row')
    BY WriteKeeps
  <1>2. /\ worker' \in [Worker -> {Idle} \cup Busy]
        /\ \A v \in Worker : JobInv(worker'[v], row')
    BY <1>1, JobKeeps DEF IInv
  <1>3. TypeOK'
    BY <1>1, <1>2 DEF IInv, TypeOK
  <1>4. OnlyA2AContinues' /\ ErasedOnce'
    BY <1>1 DEF IInv, OnlyA2AContinues, ErasedOnce
  <1>5. QED
    BY <1>1, <1>2, <1>3, <1>4 DEF IInv

\* A step of an invocation that writes nothing.
LEMMA WorkerStepKeeps ==
    ASSUME IInv, NEW w \in Worker, NEW j \in {Idle} \cup Busy,
           row' = row, worker' = [worker EXCEPT ![w] = j],
           UNCHANGED <<deleted, call, purge, starts>>,
           queue' \subseteq Task, late' \subseteq Task \X Turn, crashes' \in 0 .. MaxCrashes, JobInv(j, row)
    PROVE  IInv'
  <1>1. /\ worker' \in [Worker -> {Idle} \cup Busy]
        /\ \A v \in Worker : JobInv(worker'[v], row')
    BY JobKeeps DEF IInv
  <1>2. QED
    BY <1>1 DEF IInv, TypeOK, OnlyA2AContinues, ErasedOnce

LEMMA CancelStep ==
    ASSUME IInv, NEW t \in Task, CancelTask(t)
    PROVE  IInv'
  <1> DEFINE new == Stored(CancelledRow(row[t]), row[t].ver)
  <1>1. /\ TypeOK /\ row[t] \in Row /\ RowInv(t, row[t], starts[t])
        /\ row[t].status = "queued"
        /\ row' = [row EXCEPT ![t] = new] /\ starts' = starts /\ worker' = worker
        /\ UNCHANGED <<deleted, queue, purge, late, crashes>>
        /\ call' = call \ {<<"cancel", t>>}
    BY DEF IInv, TypeOK, CancelTask
  <1>2. /\ new \in Row /\ new.ver = row[t].ver + 1 /\ new.status = "cancelled"
        /\ new.due = NotDue /\ new.turn = row[t].turn /\ new.messages = row[t].messages
    <2>1. /\ CancelledRow(row[t]) \in Row /\ CancelledRow(row[t]).status = "cancelled"
          /\ CancelledRow(row[t]).due = NotDue /\ CancelledRow(row[t]).turn = row[t].turn
          /\ CancelledRow(row[t]).messages = row[t].messages
      BY <1>1, CancelledFields
    <2>2. row[t].ver \in Nat
      BY <1>1 DEF Row
    <2>3. QED
      BY <2>1, <2>2, StoredFields
  <1> HIDE DEF new
  <1>3. RowInv(t, new, starts[t])
    BY <1>1, <1>2 DEF RowInv, Absent, Answered, Row
  <1>4. /\ row' \in [Task -> Row] /\ row'[t] = new
        /\ \A u \in Task \ {t} : row'[u] = row[u]
        /\ \A u \in Task : RowInv(u, row'[u], starts'[u])
        /\ \A w \in Worker : JobInv(worker'[w], row')
    BY <1>1, <1>2, <1>3, WriteKeeps
  <1>5. TypeOK'
    BY <1>1, <1>4 DEF TypeOK
  <1>6. OnlyA2AContinues' /\ ErasedOnce'
    BY <1>1, <1>2, <1>4 DEF IInv, OnlyA2AContinues, ErasedOnce
  <1>7. QED
    BY <1>4, <1>5, <1>6 DEF IInv

\* The version of the deletion's listing still matches: the row is erased.
LEMMA EraseStep ==
    ASSUME IInv, NEW t \in Task, EraseRow(t)
    PROVE  IInv'
  <1> DEFINE new == Stored(ErasedRow(row[t]), purge.seen[t])
  <1>1. /\ TypeOK /\ row[t] \in Row /\ RowInv(t, row[t], starts[t]) /\ starts[t] \in [Turn -> Nat]
        /\ purge.pc = "erase" /\ purge.seen[t] \in Nat /\ purge.seen[t] # Absent
        /\ starts' = starts /\ worker' = worker
        /\ UNCHANGED <<deleted, queue, call, late, crashes>>
        /\ purge' = [purge EXCEPT !.seen[t] = Handled]
    BY DEF IInv, TypeOK, EraseRow
  <1>2. /\ purge'.pc = "erase" /\ purge'.seen[t] = Handled
        /\ \A u \in Task \ {t} : purge'.seen[u] = purge.seen[u]
        /\ purge' \in [pc: {"none", "list", "erase", "done", "failed"},
                       seen: [Task -> Nat \cup {Handled}]]
    BY <1>1 DEF TypeOK
  <1>3. CASE row[t].ver # purge.seen[t]
    <2>1. row' = row
      BY <1>3 DEF EraseRow, Put, Matches
    <2>2. ErasedOnce'
      BY <1>1, <1>2, <2>1 DEF IInv, ErasedOnce
    <2>3. QED
      BY <1>1, <1>2, <2>1, <2>2 DEF IInv, TypeOK, OnlyA2AContinues
  <1>4. CASE row[t].ver = purge.seen[t]
    <2>1. row' = [row EXCEPT ![t] = new]
      BY <1>4 DEF EraseRow, Put, Matches
    <2>2. /\ new \in Row /\ new.ver = row[t].ver + 1 /\ new.status = "erased"
          /\ new.due = NotDue /\ new.turn = row[t].turn
      <3>1. ErasedRow(row[t]) \in Row
        BY <1>1, ErasedFields
      <3>2. QED
        BY <1>1, <1>4, <3>1, ErasedFields, StoredFields
    <2> HIDE DEF new
    <2>3. RowInv(t, new, starts[t])
      BY <1>1, <1>4, <2>2 DEF RowInv, Absent, Row
    <2>4. /\ row' \in [Task -> Row] /\ row'[t] = new
          /\ \A u \in Task \ {t} : row'[u] = row[u]
          /\ \A u \in Task : RowInv(u, row'[u], starts'[u])
          /\ \A w \in Worker : JobInv(worker'[w], row')
      BY <1>1, <2>1, <2>2, <2>3, WriteKeeps
    <2>5. TypeOK'
      BY <1>1, <1>2, <2>4 DEF TypeOK
    <2>6. OnlyA2AContinues' /\ ErasedOnce'
      BY <1>1, <1>2, <2>2, <2>4 DEF IInv, OnlyA2AContinues, ErasedOnce
    <2>7. QED
      BY <2>4, <2>5, <2>6 DEF IInv
  <1>5. QED
    BY <1>3, <1>4

\* Losing the compare-and-swap is the same for every invocation: it returns.
LEMMA ReturnKeeps ==
    ASSUME IInv, NEW w \in Worker, row' = row, Return(w),
           UNCHANGED <<deleted, call, purge, starts>>,
           queue' \subseteq Task, late' \subseteq Task \X Turn, crashes' \in 0 .. MaxCrashes
    PROVE  IInv'
  BY WorkerStepKeeps, IdleKeeps DEF Return

LEMMA CancelOrphanStep ==
    ASSUME IInv, NEW w \in Worker, CancelOrphan(w)
    PROVE  IInv'
  <1> DEFINE t == worker[w].task
             new == Stored(CancelledRow(row[t]), row[t].ver)
  <1>1. /\ TypeOK /\ t \in Task /\ row[t] \in Row /\ RowInv(t, row[t], starts[t])
        /\ worker[w] # Idle /\ worker[w].pc = "cancel" /\ JobInv(worker[w], row)
        /\ worker[w].ver \in Nat
        /\ worker' = [worker EXCEPT ![w] = Idle]
        /\ UNCHANGED <<deleted, queue, call, purge, starts, crashes>>
        /\ late' \subseteq Task \X Turn
    BY BusyTyped DEF IInv, TypeOK, CancelOrphan, At, Return
  <1>2. CASE row[t].ver # worker[w].ver
    <2>1. row' = row
      BY <1>2 DEF CancelOrphan, Put, Matches
    <2>2. QED
      BY <1>1, <2>1, ReturnKeeps DEF Return, TypeOK
  <1>3. CASE row[t].ver = worker[w].ver
    <2>1. row' = [row EXCEPT ![t] = new] /\ row[t].status = "queued"
      BY <1>1, <1>3 DEF CancelOrphan, Put, Matches, JobInv
    <2>2. /\ new \in Row /\ new.ver = row[t].ver + 1 /\ new.status = "cancelled"
          /\ new.due = NotDue /\ new.turn = row[t].turn /\ new.messages = row[t].messages
      <3>1. /\ CancelledRow(row[t]) \in Row /\ CancelledRow(row[t]).status = "cancelled"
            /\ CancelledRow(row[t]).due = NotDue /\ CancelledRow(row[t]).turn = row[t].turn
            /\ CancelledRow(row[t]).messages = row[t].messages
        BY <1>1, CancelledFields
      <3>2. row[t].ver \in Nat
        BY <1>1 DEF Row
      <3>3. QED
        BY <3>1, <3>2, StoredFields
    <2> HIDE DEF new
    <2>3. RowInv(t, new, starts[t])
      BY <1>1, <2>1, <2>2 DEF RowInv, Absent, Answered, Row
    <2>4. QED
      BY <1>1, <2>1, <2>2, <2>3, IdleKeeps, WorkerWriteKeeps
  <1>4. QED
    BY <1>2, <1>3

LEMMA ExpireStep ==
    ASSUME IInv, NEW w \in Worker, ExpireTask(w)
    PROVE  IInv'
  <1> DEFINE t == worker[w].task
             new == Stored(SweptRow(row[t]), row[t].ver)
  <1>1. /\ TypeOK /\ t \in Task /\ row[t] \in Row /\ RowInv(t, row[t], starts[t])
        /\ worker[w] # Idle /\ worker[w].pc = "expire" /\ JobInv(worker[w], row)
        /\ worker[w].ver \in Nat
        /\ worker' = [worker EXCEPT ![w] = Idle]
        /\ UNCHANGED <<deleted, queue, call, purge, starts, crashes>>
        /\ late' \subseteq Task \X Turn
    BY BusyTyped DEF IInv, TypeOK, ExpireTask, At, Return
  <1>2. CASE row[t].ver # worker[w].ver
    <2>1. row' = row
      BY <1>2 DEF ExpireTask, Put, Matches
    <2>2. QED
      BY <1>1, <2>1, ReturnKeeps DEF Return, TypeOK
  <1>3. CASE row[t].ver = worker[w].ver
    <2>1. row' = [row EXCEPT ![t] = new] /\ row[t].status = "running"
      BY <1>1, <1>3 DEF ExpireTask, Put, Matches, JobInv
    <2>2. /\ new \in Row /\ new.ver = row[t].ver + 1 /\ new.status = "interrupted"
          /\ new.due = NotDue /\ new.turn = row[t].turn /\ new.messages = row[t].messages
      <3>1. SweptRow(row[t]) \in Row
        BY <1>1, <2>1, SweptFields
      <3>2. QED
        BY <1>1, <1>3, <2>1, <3>1, SweptFields, StoredFields
    <2> HIDE DEF new
    <2>3. RowInv(t, new, starts[t])
      BY <1>1, <2>1, <2>2 DEF RowInv, Absent, Answered, Row
    <2>4. QED
      BY <1>1, <2>1, <2>2, <2>3, IdleKeeps, WorkerWriteKeeps
  <1>4. QED
    BY <1>2, <1>3

\* What a winning invocation may assume about the row it writes.
LEMMA BumpStep ==
    ASSUME IInv, NEW w \in Worker, BumpTask(w)
    PROVE  IInv'
  <1> DEFINE t == worker[w].task
             new == Stored(BumpedRow(row[t]), row[t].ver)
             job == Job("send", t, worker[w].ver, worker[w].turn)
  <1>1. /\ TypeOK /\ t \in Task /\ row[t] \in Row /\ RowInv(t, row[t], starts[t])
        /\ worker[w] # Idle /\ worker[w].pc = "bump" /\ JobInv(worker[w], row)
        /\ worker[w].ver \in Nat /\ worker[w].turn \in Turn
        /\ UNCHANGED <<deleted, queue, call, purge, starts, crashes>>
        /\ late' \subseteq Task \X Turn
    BY BusyTyped DEF IInv, TypeOK, BumpTask, At, LateWith, Row
  <1>2. CASE row[t].ver # worker[w].ver
    <2>1. row' = row /\ Return(w)
      BY <1>2 DEF BumpTask, Put, Matches
    <2>2. QED
      BY <1>1, <2>1, ReturnKeeps DEF TypeOK
  <1>3. CASE row[t].ver = worker[w].ver
    <2>1. /\ row' = [row EXCEPT ![t] = new] /\ worker' = [worker EXCEPT ![w] = job]
          /\ row[t].status = "queued" /\ worker[w].ver # Absent
      BY <1>1, <1>3 DEF BumpTask, Put, Matches, JobInv, Goto
    <2>2. /\ new \in Row /\ new.ver = row[t].ver + 1 /\ new.status = "queued"
          /\ new.due = Retry /\ new.turn = row[t].turn /\ new.messages = row[t].messages
      <3>1. /\ BumpedRow(row[t]) \in Row /\ BumpedRow(row[t]).status = row[t].status
            /\ BumpedRow(row[t]).due = Retry /\ BumpedRow(row[t]).turn = row[t].turn
            /\ BumpedRow(row[t]).messages = row[t].messages
        BY <1>1, BumpedFields
      <3>2. QED
        BY <1>1, <1>3, <2>1, <3>1, StoredFields
    <2>3. job \in Busy /\ job.pc = "send" /\ job.task = t /\ job.ver = row[t].ver
      BY <1>1, <1>3, JobFields DEF Pc
    <2> HIDE DEF new, job
    <2>4. RowInv(t, new, starts[t])
      BY <1>1, <2>1, <2>2, Values DEF RowInv, Absent, Answered, Row
    <2>5. JobInv(job, row')
      BY <1>1, <1>3, <2>1, <2>2, <2>3 DEF JobInv, TypeOK, Row
    <2>6. QED
      BY <1>1, <2>1, <2>2, <2>3, <2>4, <2>5, WorkerWriteKeeps
  <1>4. QED
    BY <1>2, <1>3

LEMMA FinishStep ==
    ASSUME IInv, NEW w \in Worker, NEW outcome \in Outcome, FinishTask(w, outcome)
    PROVE  IInv'
  <1> DEFINE t == worker[w].task
             new == Stored(FinishedRow(row[t], t, outcome), row[t].ver)
  <1>1. /\ TypeOK /\ t \in Task /\ row[t] \in Row /\ RowInv(t, row[t], starts[t])
        /\ worker[w].ver \in Nat
        /\ worker' = [worker EXCEPT ![w] = Idle]
        /\ UNCHANGED <<deleted, queue, call, purge, starts, crashes>>
        /\ late' \subseteq Task \X Turn
    BY BusyTyped DEF IInv, TypeOK, FinishTask, At, Return
  <1>2. CASE ~OwnsClaim(w, row[t])
    <2>1. row' = row
      BY <1>2 DEF FinishTask
    <2>2. QED
      BY <1>1, <2>1, ReturnKeeps DEF Return, TypeOK
  <1>3. CASE OwnsClaim(w, row[t])
    <2>1. /\ row' = [row EXCEPT ![t] = new] /\ row[t].status = "running"
          /\ row[t].ver = worker[w].ver
      BY <1>1, <1>3 DEF FinishTask, OwnsClaim, Put, Matches
    <2>2. /\ new \in Row /\ new.ver = row[t].ver + 1 /\ new.status = outcome
          /\ new.due = NotDue /\ new.turn = row[t].turn
          /\ t \in A2ATask => new.messages = 2 * row[t].turn + (IF outcome \in Answered THEN 2 ELSE 1)
      <3>1. t \in A2ATask => row[t].messages = 2 * row[t].turn + 1
        BY <1>1, <2>1 DEF RowInv, Answered
      <3>2. /\ FinishedRow(row[t], t, outcome) \in Row
            /\ FinishedRow(row[t], t, outcome).status = outcome
            /\ FinishedRow(row[t], t, outcome).due = NotDue
            /\ FinishedRow(row[t], t, outcome).turn = row[t].turn
            /\ t \in A2ATask => FinishedRow(row[t], t, outcome).messages =
                                  2 * row[t].turn + (IF outcome \in Answered THEN 2 ELSE 1)
        BY <1>1, <3>1, FinishedFields
      <3>3. row[t].ver \in Nat
        BY <1>1 DEF Row
      <3>4. QED
        BY <3>2, <3>3, StoredFields
    <2> HIDE DEF new
    <2>3. outcome \notin {"absent", "queued", "running", "erased"}
      BY DEF Outcome, Answered
    <2>4. RowInv(t, new, starts[t])
      BY <1>1, <2>1, <2>2, <2>3 DEF RowInv, Absent, Row
    <2>5. QED
      BY <1>1, <2>1, <2>2, <2>3, <2>4, IdleKeeps, WorkerWriteKeeps
  <1>4. QED
    BY <1>2, <1>3

\* The claim is the one step that executes a turn: its count was zero, because
\* the row still waits for it.
LEMMA ClaimStep ==
    ASSUME IInv, NEW w \in Worker, ClaimTask(w)
    PROVE  IInv'
  <1> DEFINE t == worker[w].task
             new == Stored(ClaimedRow(row[t]), row[t].ver)
             job == Job("execute", t, row[t].ver + 1, row[t].turn)
             n == [starts[t] EXCEPT ![row[t].turn] = 1]
  <1>1. /\ TypeOK /\ t \in Task /\ row[t] \in Row /\ RowInv(t, row[t], starts[t])
        /\ worker[w] # Idle /\ worker[w].pc = "claim" /\ JobInv(worker[w], row)
        /\ starts[t] \in [Turn -> Nat] /\ row[t].ver \in Nat /\ row[t].turn \in Turn
        /\ UNCHANGED <<deleted, queue, call, purge, late, crashes>>
    BY BusyTyped DEF IInv, TypeOK, ClaimTask, At, Row
  <1>2. CASE row[t].ver # worker[w].ver
    <2>1. row' = row /\ starts' = starts /\ Return(w)
      BY <1>2 DEF ClaimTask, Put, Matches
    <2>2. QED
      BY <1>1, <2>1, ReturnKeeps DEF TypeOK
  <1>3. CASE row[t].ver = worker[w].ver
    <2>1. row[t].status = "queued" /\ row[t].turn = worker[w].turn /\ starts[t][row[t].turn] = 0
      BY <1>1, <1>3 DEF JobInv, RowInv
    <2>2. /\ row' = [row EXCEPT ![t] = new] /\ worker' = [worker EXCEPT ![w] = job]
          /\ starts' = [starts EXCEPT ![t][row[t].turn] = @ + 1]
      BY <1>1, <1>3, <2>1 DEF ClaimTask, Put, Matches
    <2>3. /\ starts' = [starts EXCEPT ![t] = n] /\ n \in [Turn -> Nat] /\ n[row[t].turn] = 1
          /\ \A k \in Turn : k # row[t].turn => n[k] = starts[t][k]
      <3>1. starts' = [starts EXCEPT ![t] = n]
        BY <1>1, <2>1, <2>2 DEF TypeOK
      <3>2. QED
        BY <1>1, <3>1
    <2>4. /\ new \in Row /\ new.ver = row[t].ver + 1 /\ new.status = "running"
          /\ new.due = Lease /\ new.turn = row[t].turn /\ new.messages = row[t].messages
      <3>1. /\ ClaimedRow(row[t]) \in Row /\ ClaimedRow(row[t]).status = "running"
            /\ ClaimedRow(row[t]).due = Lease /\ ClaimedRow(row[t]).turn = row[t].turn
            /\ ClaimedRow(row[t]).messages = row[t].messages
        BY <1>1, ClaimedFields
      <3>2. row[t].ver \in Nat
        BY <1>1
      <3>3. QED
        BY <3>1, <3>2, StoredFields
    <2>5. /\ job \in Busy /\ job.pc = "execute" /\ job.task = t /\ job.ver = row[t].ver + 1
          /\ job.turn = row[t].turn
      BY <1>1, JobFields DEF Pc
    <2> HIDE DEF new, job, n
    <2>6. row' \in [Task -> Row] /\ row'[t] = new /\ \A u \in Task \ {t} : row'[u] = row[u]
      BY <1>1, <2>2, <2>4 DEF TypeOK
    <2>7. /\ starts' \in [Task -> [Turn -> Nat]] /\ starts'[t] = n
          /\ \A u \in Task \ {t} : starts'[u] = starts[u]
      BY <1>1, <2>3 DEF TypeOK
    <2>8. RowInv(t, new, n)
      <3>1. \A k \in Turn : (k > new.turn => n[k] = 0) /\ n[k] <= 1
        BY <1>1, <2>1, <2>3, <2>4 DEF RowInv, Turn
      <3>2. new.ver # Absent
        BY <1>1, <2>4 DEF Absent
      <3>3. t \in A2ATask => new.messages = 2 * new.turn + 1
        BY <1>1, <2>1, <2>4 DEF RowInv, Answered
      <3>4. QED
        BY <2>4, <3>1, <3>2, <3>3, Values DEF RowInv, Answered
    <2>9. \A u \in Task : RowInv(u, row'[u], starts'[u])
      BY <2>6, <2>7, <2>8 DEF IInv
    <2>10. \A v \in Worker : JobInv(worker'[v], row')
      <3>1. JobInv(job, row')
        BY <1>1, <2>4, <2>5, <2>6 DEF JobInv, Absent
      <3>2. ASSUME NEW v \in Worker, v # w, worker[v] # Idle
            PROVE  JobInv(worker[v], row')
        <4>1. worker[v].task \in Task /\ worker[v].ver \in Nat /\ row[worker[v].task].ver \in Nat
          BY <1>1, <3>2 DEF TypeOK, Busy, Row
        <4>2. QED
          BY <1>1, <2>4, <2>6, <4>1 DEF IInv, JobInv
      <3>3. \A v \in Worker : worker'[v] = IF v = w THEN job ELSE worker[v]
        BY <1>1, <2>2 DEF TypeOK
      <3>4. QED
        BY <3>1, <3>2, <3>3, IdleKeeps
    <2>11. TypeOK'
      BY <1>1, <2>2, <2>5, <2>6, <2>7 DEF TypeOK
    <2>12. OnlyA2AContinues' /\ ErasedOnce'
      BY <1>1, <2>4, <2>6 DEF IInv, OnlyA2AContinues, ErasedOnce
    <2>13. QED
      BY <2>9, <2>10, <2>11, <2>12 DEF IInv
  <1>4. QED
    BY <1>2, <1>3

-----------------------------------------------------------------------------
(* The steps that write no task row. *)

LEMMA StartStep ==
    ASSUME IInv, NEW w \in Worker, NEW t \in Task, StartTask(w, t)
    PROVE  IInv'
  <1> DEFINE job == Job("check", t, row[t].ver, row[t].turn)
  <1>1. /\ row[t] \in Row /\ row[t].ver # Absent /\ row[t].status = "queued"
        /\ row' = row /\ worker' = [worker EXCEPT ![w] = job]
        /\ UNCHANGED <<deleted, queue, call, purge, starts, late, crashes>>
    BY DEF IInv, TypeOK, RowInv, StartTask
  <1>2. /\ job \in Busy /\ job.pc = "check" /\ job.task = t /\ job.ver = row[t].ver
        /\ job.turn = row[t].turn
    BY <1>1, JobFields DEF Pc, Row
  <1> HIDE DEF job
  <1>3. JobInv(job, row)
    BY <1>1, <1>2 DEF JobInv, Row
  <1>4. QED
    BY <1>1, <1>2, <1>3, WorkerStepKeeps DEF IInv, TypeOK

LEMMA SweepStep ==
    ASSUME IInv, NEW w \in Worker, NEW t \in Task, SweepTask(w, t)
    PROVE  IInv'
  <1> DEFINE pc == IF row[t].status = "queued" THEN "sweep" ELSE "expire"
             job == Job(pc, t, row[t].ver, row[t].turn)
  <1>1. /\ row[t] \in Row /\ row[t].ver # Absent /\ row[t].status \in {"queued", "running"}
        /\ row' = row /\ worker' = [worker EXCEPT ![w] = job]
        /\ UNCHANGED <<deleted, queue, call, purge, starts, late, crashes>>
    BY Values DEF IInv, TypeOK, RowInv, SweepTask
  <1>2. /\ job \in Busy /\ job.pc = pc /\ job.task = t /\ job.ver = row[t].ver
        /\ job.turn = row[t].turn
    BY <1>1, JobFields DEF Pc, Row
  <1> HIDE DEF job
  <1>3. JobInv(job, row)
    BY <1>1, <1>2 DEF JobInv, Row
  <1>4. QED
    BY <1>1, <1>2, <1>3, WorkerStepKeeps DEF IInv, TypeOK

LEMMA CheckStep ==
    ASSUME IInv, NEW w \in Worker, CheckAgent(w)
    PROVE  IInv'
  <1> DEFINE pc == IF deleted THEN "cancel"
                   ELSE IF At(w, "check") THEN "claim" ELSE "bump"
             job == Job(pc, worker[w].task, worker[w].ver, worker[w].turn)
  <1>1. /\ worker[w] # Idle /\ worker[w].task \in Task /\ worker[w].ver \in Nat
        /\ worker[w].turn \in Turn /\ worker[w].pc \in {"check", "sweep"}
        /\ JobInv(worker[w], row)
    BY BusyTyped DEF IInv, CheckAgent
  <1>2. /\ row' = row /\ worker' = [worker EXCEPT ![w] = job]
        /\ UNCHANGED <<deleted, queue, call, purge, starts, late, crashes>>
    BY DEF IInv, TypeOK, CheckAgent, Goto
  <1>3. pc \in {"cancel", "claim", "bump"}
    OBVIOUS
  <1> HIDE DEF pc
  <1>4. /\ job \in Busy /\ job.pc = pc /\ job.task = worker[w].task /\ job.ver = worker[w].ver
        /\ job.turn = worker[w].turn
    BY <1>1, <1>3, JobFields DEF Pc
  <1> HIDE DEF job
  <1>5. JobInv(job, row)
    BY <1>1, <1>3, <1>4 DEF JobInv
  <1>6. QED
    BY <1>2, <1>4, <1>5, WorkerStepKeeps DEF IInv, TypeOK

LEMMA DispatchStep ==
    ASSUME IInv, NEW w \in Worker, Dispatch(w)
    PROVE  IInv'
  <1>1. worker[w].task \in Task
    BY BusyTyped DEF IInv, Dispatch, At
  <1>2. QED
    BY <1>1, ReturnKeeps DEF IInv, TypeOK, Dispatch

LEMMA CrashStep ==
    ASSUME IInv, NEW w \in Worker, Crash(w)
    PROVE  IInv'
  <1>1. crashes' \in 0 .. MaxCrashes
    BY TasksAssumption DEF IInv, TypeOK, Crash
  <1>2. QED
    BY <1>1, ReturnKeeps DEF IInv, TypeOK, Crash

\* Time only moves due times towards zero: a row keeps its version, its status
\* and its place in the index.
LEMMA TickStep ==
    ASSUME IInv, Tick
    PROVE  IInv'
  <1>1. row \in [Task -> Row] /\ worker \in [Worker -> {Idle} \cup Busy]
    BY DEF IInv, TypeOK
  <1>2. ASSUME NEW t \in Task
        PROVE  /\ row'[t] \in Row /\ row'[t].ver = row[t].ver /\ row'[t].status = row[t].status
               /\ row'[t].turn = row[t].turn /\ row'[t].messages = row[t].messages
               /\ row'[t].due = NotDue <=> row[t].due = NotDue
    <2>1. /\ Earlier(row[t].lease) \in 0 .. Lease /\ Earlier(row[t].due) \in NotDue .. Horizon
          /\ Earlier(row[t].due) = NotDue <=> row[t].due = NotDue
      BY <1>1, TasksAssumption DEF Row, Earlier, NotDue, Horizon
    <2>2. row'[t] = [row[t] EXCEPT !.lease = Earlier(@), !.due = Earlier(@)]
      BY DEF Tick
    <2>3. QED
      BY <1>1, <2>1, <2>2 DEF Row
  <1>3. row' \in [Task -> Row]
    BY <1>2 DEF Tick
  <1>4. UNCHANGED <<deleted, queue, call, worker, purge, starts, late, crashes>>
    BY DEF Tick
  <1>5. \A t \in Task : RowInv(t, row'[t], starts'[t])
    BY <1>2, <1>4 DEF IInv, RowInv
  <1>6. \A w \in Worker : JobInv(worker'[w], row')
    BY <1>1, <1>2, <1>4 DEF IInv, JobInv, Busy
  <1>7. TypeOK' /\ OnlyA2AContinues' /\ ErasedOnce'
    BY <1>2, <1>3, <1>4 DEF IInv, TypeOK, OnlyA2AContinues, ErasedOnce
  <1>8. QED
    BY <1>5, <1>6, <1>7 DEF IInv

\* API calls, the queue, and the deletion's steps that only move its own state.
LEMMA OtherStep ==
    ASSUME IInv, UNCHANGED <<row, worker, starts, late, crashes>>,
           \/ \E t \in Task : \/ \E op \in Op : Admit(op, t)
                              \/ SendTask(t)
                              \/ DropMessage(t)
           \/ \E c \in call : CallEnds(c)
           \/ DeleteAgent \/ ListRows \/ AgentDeleted \/ DeleteFails
    PROVE  IInv'
  <1> USE DEF IInv, TypeOK, OnlyA2AContinues, ErasedOnce
  <1>1. CASE \E t \in Task, op \in Op : Admit(op, t)
    BY <1>1 DEF Admit
  <1>2. CASE \E t \in Task : SendTask(t)
    BY <1>2 DEF SendTask
  <1>3. CASE \E t \in Task : DropMessage(t)
    BY <1>3 DEF DropMessage
  <1>4. CASE \E c \in call : CallEnds(c)
    BY <1>4 DEF CallEnds
  <1>5. CASE DeleteAgent
    BY <1>5 DEF DeleteAgent
  <1>6. CASE ListRows
    <2>1. \A t \in Task : row[t].ver \in Nat
      BY DEF Row
    <2>2. QED
      BY <1>6, <2>1 DEF ListRows
  <1>7. CASE AgentDeleted
    BY <1>7 DEF AgentDeleted
  <1>8. CASE DeleteFails
    BY <1>8 DEF DeleteFails
  <1>9. QED
    BY <1>1, <1>2, <1>3, <1>4, <1>5, <1>6, <1>7, <1>8

LEMMA NextIInv == IInv /\ [Next]_vars => IInv'
  <1> SUFFICES ASSUME IInv, [Next]_vars PROVE IInv'
    OBVIOUS
  <1>1. CASE UNCHANGED vars
    BY <1>1 DEF vars, IInv, TypeOK, OnlyA2AContinues, ErasedOnce
  <1>2. CASE Api
    <2>1. ASSUME NEW t \in Task, NEW op \in Op, Admit(op, t) PROVE IInv'
      BY <2>1, OtherStep DEF Admit
    <2>2. ASSUME NEW t \in Task, SendTask(t) PROVE IInv'
      BY <2>2, OtherStep DEF SendTask
    <2>3. ASSUME NEW c \in call, CallEnds(c) PROVE IInv'
      BY <2>3, OtherStep DEF CallEnds
    <2>4. QED
      BY <1>2, <2>1, <2>2, <2>3, CreateStep, ContinueStep, CancelStep DEF Api
  <1>3. ASSUME NEW w \in Worker, Steps(w) PROVE IInv'
    BY <1>3, CheckStep, CancelOrphanStep, ClaimStep, FinishStep, ExpireStep, BumpStep, DispatchStep
       DEF Steps
  <1>4. CASE Deletion
    <2>1. ASSUME DeleteAgent \/ ListRows \/ AgentDeleted \/ DeleteFails PROVE IInv'
      <3>1. UNCHANGED <<row, worker, starts, late, crashes>>
        BY <2>1 DEF DeleteAgent, ListRows, AgentDeleted, DeleteFails
      <3>2. QED
        BY <2>1, <3>1, OtherStep
    <2>2. QED
      BY <1>4, <2>1, EraseStep DEF Deletion
  <1>5. ASSUME NEW t \in Task, DropMessage(t) PROVE IInv'
    BY <1>5, OtherStep DEF DropMessage
  <1>6. QED
    BY <1>1, <1>2, <1>3, <1>4, <1>5, StartStep, SweepStep, CrashStep, TickStep DEF Next

-----------------------------------------------------------------------------
\* Every reachable state satisfies the inductive invariant.
THEOREM Invariance == Spec => []IInv
  BY InitIInv, NextIInv, PTL DEF Spec

\* Rows, invocations and calls always hold what the code can store in them.
THEOREM TypeCorrect == Spec => []TypeOK
  <1>1. IInv => TypeOK
    BY DEF IInv
  <1>2. QED
    BY <1>1, Invariance, PTL

\* No turn is executed twice, for any number of tasks, invocations, crashes
\* and queue deliveries.
THEOREM AtMostOnce == Spec => []OneStartPerTurn
  <1>1. IInv => OneStartPerTurn
    BY DEF IInv, RowInv, OneStartPerTurn
  <1>2. QED
    BY <1>1, Invariance, PTL

\* The maintenance index holds exactly the queued and the running tasks.
THEOREM IndexedIffLive == Spec => []SweepableIffLive
  <1>1. IInv => SweepableIffLive
    BY DEF IInv, RowInv, SweepableIffLive
  <1>2. QED
    BY <1>1, Invariance, PTL

\* A conversation holds exactly the messages of its turns, within MAX_MESSAGES.
THEOREM HistoryComplete == Spec => []HistoryFollowsTurn
  <1>1. IInv => HistoryFollowsTurn
    BY TasksAssumption DEF IInv, RowInv, HistoryFollowsTurn
  <1>2. QED
    BY <1>1, Invariance, PTL

-----------------------------------------------------------------------------
(* Turns that are queued after the agent is deleted.                         *)

\* Nothing is late before the deletion, no late turn was executed, and none can
\* be: an invocation whose claim would still succeed read the row after its
\* last write, hence META after it, hence META before the deletion.
LateInv ==
    /\ late # {} => deleted
    /\ LateTurnsNeverStart
    /\ \A w \in Worker : At(w, "claim") /\ worker[w].ver = row[worker[w].task].ver =>
          <<worker[w].task, worker[w].turn>> \notin late

\* No step takes a version back.
VersionsGrow == \A t \in Task : row'[t].ver >= row[t].ver

LEMMA Growth ==
    ASSUME IInv, Next
    PROVE  VersionsGrow
  <1> USE DEF VersionsGrow
  <1>1. /\ row \in [Task -> Row] /\ \A t \in Task : row[t].ver \in Nat
        /\ worker \in [Worker -> {Idle} \cup Busy]
    BY DEF IInv, TypeOK, Row
  <1>2. CASE row' = row
    BY <1>1, <1>2
  <1>3. ASSUME NEW t \in Task, NEW v \in Nat, NEW new, row[t].ver = v,
               row' = [row EXCEPT ![t] = Stored(new, v)],
               new \in Row
        PROVE  VersionsGrow
    <2>1. row'[t].ver = row[t].ver + 1
      <3>1. Stored(new, v).ver = v + 1
        BY <1>3, StoredFields
      <3>2. row'[t] = Stored(new, v)
        BY <1>1, <1>3
      <3>3. QED
        BY <1>3, <3>1, <3>2
    <2>2. \A u \in Task \ {t} : row'[u] = row[u]
      BY <1>1, <1>3
    <2>3. QED
      BY <1>1, <2>1, <2>2
  <1>4. ASSUME NEW t \in Task, NEW v \in Nat, NEW new, Put(t, v, new),
               row[t].ver = v => new \in Row
        PROVE  VersionsGrow
    BY <1>2, <1>3, <1>4 DEF Put, Matches
  <1>5. ASSUME NEW t \in Task, CreateTask(t) PROVE VersionsGrow
    BY <1>1, <1>3, <1>5, CreatedFields DEF CreateTask, Matches, Absent
  <1>6. ASSUME NEW t \in Task, ContinueTask(t) PROVE VersionsGrow
    <2>1. ContinuedRow(row[t]) \in Row
      BY <1>1, <1>6, ContinuedFields
         DEF ContinueTask, HasRoom, IInv, RowInv, OnlyA2AContinues, Answered
    <2>2. QED
      BY <1>1, <1>3, <1>6, <2>1 DEF ContinueTask
  <1>7. ASSUME NEW t \in Task, CancelTask(t) PROVE VersionsGrow
    BY <1>1, <1>3, <1>7, CancelledFields DEF CancelTask
  <1>8. ASSUME NEW t \in Task, EraseRow(t) PROVE VersionsGrow
    BY <1>1, <1>4, <1>8, ErasedFields DEF EraseRow
  <1>9. ASSUME NEW w \in Worker, Steps(w) PROVE VersionsGrow
    <2>1. CASE CheckAgent(w) \/ Dispatch(w)
      BY <1>2, <2>1 DEF CheckAgent, Dispatch
    <2> DEFINE t == worker[w].task
    <2>2. ASSUME worker[w].pc # "idle"
          PROVE  t \in Task /\ worker[w].ver \in Nat /\ JobInv(worker[w], row) /\ worker[w] # Idle
      BY <2>2, BusyTyped DEF IInv
    <2>3. CASE CancelOrphan(w)
      BY <1>1, <1>4, <2>2, <2>3, CancelledFields DEF CancelOrphan, At
    <2>4. CASE ClaimTask(w)
      BY <1>1, <1>4, <2>2, <2>4, ClaimedFields DEF ClaimTask, At
    <2>5. CASE ExpireTask(w)
      <3>1. row[t].ver = worker[w].ver => row[t].status = "running"
        BY <2>2, <2>5 DEF ExpireTask, At, JobInv
      <3>2. QED
        BY <1>1, <1>4, <2>2, <2>5, <3>1, SweptFields DEF ExpireTask, At
    <2>6. CASE BumpTask(w)
      BY <1>1, <1>4, <2>2, <2>6, BumpedFields DEF BumpTask, At
    <2>7. ASSUME NEW outcome \in Outcome, FinishTask(w, outcome) PROVE VersionsGrow
      <3>1. CASE ~OwnsClaim(w, row[t])
        BY <1>2, <2>7, <3>1 DEF FinishTask
      <3>2. CASE OwnsClaim(w, row[t])
        <4>1. t \in A2ATask => row[t].messages = 2 * row[t].turn + 1
          BY <2>2, <2>7, <3>2 DEF FinishTask, At, OwnsClaim, IInv, RowInv, Answered
        <4>2. FinishedRow(row[t], t, outcome) \in Row
          BY <1>1, <2>2, <2>7, <4>1, FinishedFields DEF FinishTask, At
        <4>3. QED
          BY <1>4, <2>2, <2>7, <3>2, <4>2 DEF FinishTask, At
      <3>3. QED
        BY <3>1, <3>2
    <2>8. QED
      BY <1>9, <2>1, <2>3, <2>4, <2>5, <2>6, <2>7 DEF Steps
  <1>10. CASE Tick
    <2>1. \A t \in Task : row'[t].ver = row[t].ver
      BY <1>1, <1>10 DEF Tick, Row
    <2>2. QED
      BY <1>1, <2>1
  <1>11. CASE Api
    BY <1>2, <1>5, <1>6, <1>7, <1>11 DEF Api, Admit, SendTask, CallEnds
  <1>12. CASE Deletion
    BY <1>2, <1>8, <1>12 DEF Deletion, DeleteAgent, ListRows, AgentDeleted, DeleteFails
  <1>13. ASSUME NEW w \in Worker, \/ \E t \in Task : StartTask(w, t) \/ SweepTask(w, t)
                                  \/ Crash(w)
         PROVE  VersionsGrow
    BY <1>2, <1>13 DEF StartTask, SweepTask, Crash
  <1>14. QED
    BY <1>2, <1>9, <1>10, <1>11, <1>12, <1>13 DEF Next, DropMessage

\* A step that adds nothing to the history keeps LateInv, if whoever it brings
\* to the claim gets there while the agent is not deleted.
LEMMA LateKept ==
    ASSUME IInv, LateInv, VersionsGrow, late' = late, starts' = starts, deleted => deleted',
           \A w \in Worker : At(w, "claim")' => worker'[w] = worker[w] \/ ~deleted
    PROVE  LateInv'
  <1>1. \A t \in Task : row[t].ver \in Nat
    BY DEF IInv, TypeOK, Row
  <1>2. ASSUME NEW w \in Worker, At(w, "claim")', worker'[w].ver = row'[worker'[w].task].ver
        PROVE  <<worker'[w].task, worker'[w].turn>> \notin late
    <2>1. CASE ~deleted
      BY <2>1 DEF LateInv
    <2>2. CASE worker'[w] = worker[w]
      <3>1. /\ At(w, "claim") /\ worker[w].task \in Task /\ worker[w].ver \in Nat
            /\ worker[w].ver <= row[worker[w].task].ver
        BY <1>2, <2>2, BusyTyped DEF At, IInv, JobInv
      <3>2. worker[w].ver = row[worker[w].task].ver
        BY <1>1, <1>2, <2>2, <3>1 DEF VersionsGrow
      <3>3. QED
        BY <2>2, <3>1, <3>2 DEF LateInv
    <2>3. QED
      BY <1>2, <2>1, <2>2
  <1>3. LateTurnsNeverStart'
    BY DEF LateInv, LateTurnsNeverStart
  <1>4. QED
    BY <1>2, <1>3 DEF LateInv

\* The writes that queue turn k of t: whoever waits to claim t has now read a
\* stale row.
LEMMA LateQueued ==
    ASSUME IInv, LateInv, VersionsGrow, NEW t \in Task, NEW k \in Turn,
           row'[t].ver = row[t].ver + 1, starts[t][k] = 0, late' = LateWith(t, k),
           UNCHANGED <<starts, deleted>>,
           \A w \in Worker : At(w, "claim")' => worker'[w] = worker[w]
    PROVE  LateInv'
  <1>1. \A u \in Task : row[u].ver \in Nat
    BY DEF IInv, TypeOK, Row
  <1>2. ASSUME NEW w \in Worker, At(w, "claim")', worker'[w].ver = row'[worker'[w].task].ver
        PROVE  <<worker'[w].task, worker'[w].turn>> \notin late'
    <2>1. /\ worker'[w] = worker[w] /\ At(w, "claim")
          /\ worker[w].task \in Task /\ worker[w].ver \in Nat
          /\ worker[w].ver <= row[worker[w].task].ver
      BY <1>2, BusyTyped DEF At, IInv, JobInv
    <2>2. worker[w].ver = row[worker[w].task].ver /\ worker[w].task # t
      BY <1>1, <1>2, <2>1 DEF VersionsGrow
    <2>3. QED
      BY <2>1, <2>2 DEF LateInv, LateWith
  <1>3. LateTurnsNeverStart'
    BY DEF LateInv, LateTurnsNeverStart, LateWith
  <1>4. QED
    BY <1>2, <1>3 DEF LateInv, LateWith

LEMMA NextLateInv ==
    ASSUME IInv, LateInv, [Next]_vars
    PROVE  LateInv'
  <1>1. CASE UNCHANGED vars
    BY <1>1 DEF vars, LateInv, LateTurnsNeverStart, At
  <1>2. CASE Next
    <2>1. VersionsGrow
      BY <1>2, Growth
    <2>2. worker \in [Worker -> {Idle} \cup Busy]
      BY DEF IInv, TypeOK
    \* Who moves, and where to.
    <2>3. ASSUME NEW v \in Worker, NEW pc \in Pc \ {"claim"}, NEW t, NEW ver, NEW k,
                 worker' = [worker EXCEPT ![v] = Job(pc, t, ver, k)]
          PROVE  \A w \in Worker : At(w, "claim")' => worker'[w] = worker[w]
      BY <2>2, <2>3 DEF At, Job
    <2>4. ASSUME NEW v \in Worker, Return(v)
          PROVE  \A w \in Worker : At(w, "claim")' => worker'[w] = worker[w]
      BY <2>2, <2>4 DEF At, Return, Idle
    <2>5. ASSUME NEW v \in Worker, NEW t \in Task, StartTask(v, t) \/ SweepTask(v, t)
          PROVE  LateInv'
      <3>1. \/ worker' = [worker EXCEPT ![v] = Job("check", t, row[t].ver, row[t].turn)]
            \/ worker' = [worker EXCEPT ![v] = Job("sweep", t, row[t].ver, row[t].turn)]
            \/ worker' = [worker EXCEPT ![v] = Job("expire", t, row[t].ver, row[t].turn)]
        BY <2>5 DEF StartTask, SweepTask
      <3>2. \A w \in Worker : At(w, "claim")' => worker'[w] = worker[w]
        BY <2>3, <3>1 DEF Pc
      <3>3. late' = late /\ starts' = starts /\ deleted' = deleted
        BY <2>5 DEF StartTask, SweepTask
      <3>4. QED
        BY <2>1, <3>2, <3>3, LateKept
    <2>6. ASSUME NEW v \in Worker, CheckAgent(v) PROVE LateInv'
      <3>1. deleted => \A w \in Worker : At(w, "claim")' => worker'[w] = worker[w]
        <4>1. deleted => worker' = [worker EXCEPT ![v] =
                           Job("cancel", worker[v].task, worker[v].ver, worker[v].turn)]
          BY <2>2, <2>6 DEF CheckAgent, Goto
        <4>2. QED
          BY <2>3, <4>1 DEF Pc
      <3>2. late' = late /\ starts' = starts /\ deleted' = deleted
        BY <2>6 DEF CheckAgent
      <3>3. QED
        BY <2>1, <3>1, <3>2, LateKept
    <2>7. ASSUME NEW v \in Worker, ClaimTask(v) PROVE LateInv'
      <3> DEFINE t == worker[v].task
                 k == worker[v].turn
      <3>1. /\ t \in Task /\ k \in Turn /\ worker[v].ver \in Nat /\ At(v, "claim")
            /\ late' = late /\ deleted' = deleted
        BY <2>7, BusyTyped DEF ClaimTask, At, IInv
      <3>2. CASE row[t].ver # worker[v].ver
        <4>1. Return(v) /\ starts' = starts
          BY <2>7, <3>2 DEF ClaimTask, Matches
        <4>2. QED
          BY <2>1, <2>4, <3>1, <4>1, LateKept
      <3>3. CASE row[t].ver = worker[v].ver
        <4>1. /\ worker' = [worker EXCEPT ![v] = Job("execute", t, worker[v].ver + 1, k)]
              /\ starts' = [starts EXCEPT ![t][k] = @ + 1]
          BY <2>2, <2>7, <3>3 DEF ClaimTask, Matches
        <4>2. <<t, k>> \notin late
          BY <3>1, <3>3 DEF LateInv
        <4>3. \A u \in Task, i \in Turn : <<u, i>> \in late => starts'[u][i] = 0
          <5>1. \A u \in Task, i \in Turn : <<u, i>> # <<t, k>> => starts'[u][i] = starts[u][i]
            BY <3>1, <4>1 DEF IInv, TypeOK
          <5>2. QED
            BY <4>2, <5>1 DEF LateInv, LateTurnsNeverStart
        <4>4. \A w \in Worker : At(w, "claim")' => worker'[w] = worker[w]
          BY <2>3, <4>1 DEF Pc
        <4>5. ASSUME NEW w \in Worker, At(w, "claim")', worker'[w].ver = row'[worker'[w].task].ver
              PROVE  <<worker'[w].task, worker'[w].turn>> \notin late
          <5>1. /\ worker'[w] = worker[w] /\ At(w, "claim")
                /\ worker[w].task \in Task /\ worker[w].ver \in Nat
                /\ worker[w].ver <= row[worker[w].task].ver
                /\ row[worker[w].task].ver \in Nat
            BY <4>4, <4>5, BusyTyped DEF At, IInv, JobInv, TypeOK, Row
          <5>2. worker[w].ver = row[worker[w].task].ver
            BY <2>1, <4>5, <5>1 DEF VersionsGrow
          <5>3. QED
            BY <5>1, <5>2 DEF LateInv
        <4>6. QED
          BY <3>1, <4>3, <4>5 DEF LateInv, LateTurnsNeverStart
      <3>4. QED
        BY <3>2, <3>3
    <2>8. ASSUME NEW v \in Worker, BumpTask(v) PROVE LateInv'
      <3> DEFINE t == worker[v].task
      <3>1. /\ t \in Task /\ worker[v].ver \in Nat /\ worker[v] # Idle /\ At(v, "bump")
            /\ JobInv(worker[v], row) /\ row[t] \in Row /\ starts' = starts /\ deleted' = deleted
        BY <2>8, BusyTyped DEF BumpTask, At, IInv, TypeOK
      <3>2. CASE row[t].ver # worker[v].ver
        <4>1. Return(v) /\ late' = late
          BY <2>8, <3>2 DEF BumpTask, Matches
        <4>2. QED
          BY <2>1, <2>4, <3>1, <4>1, LateKept
      <3>3. CASE row[t].ver = worker[v].ver
        <4>1. /\ worker' = [worker EXCEPT ![v] = Job("send", t, worker[v].ver, worker[v].turn)]
              /\ late' = LateWith(t, row[t].turn)
              /\ row' = [row EXCEPT ![t] = Stored(BumpedRow(row[t]), row[t].ver)]
          BY <2>2, <2>8, <3>3 DEF BumpTask, Matches, Goto, Put
        <4>2. row'[t].ver = row[t].ver + 1
          <5>1. BumpedRow(row[t]) \in Row /\ row[t].ver \in Nat
            BY <3>1, BumpedFields DEF Row
          <5>2. QED
            BY <3>1, <4>1, <5>1, StoredFields DEF IInv, TypeOK
        <4>3. row[t].turn \in Turn /\ starts[t][row[t].turn] = 0
          BY <3>1, <3>3 DEF At, JobInv, IInv, RowInv, Row
        <4>4. \A w \in Worker : At(w, "claim")' => worker'[w] = worker[w]
          BY <2>3, <4>1 DEF Pc
        <4>5. QED
          BY <2>1, <3>1, <4>1, <4>2, <4>3, <4>4, LateQueued
      <3>4. QED
        BY <3>2, <3>3
    <2>9. ASSUME NEW t \in Task, CreateTask(t) PROVE LateInv'
      <3>1. /\ row[t] \in Row /\ row[t].ver = Absent /\ row[t].status = "absent"
            /\ row' = [row EXCEPT ![t] = Stored(CreatedRow(row[t], t), Absent)]
        BY <2>9 DEF CreateTask, Matches, IInv, TypeOK, RowInv
      <3>2. row'[t].ver = row[t].ver + 1
        <4>1. CreatedRow(row[t], t) \in Row /\ Absent \in Nat
          BY <3>1, CreatedFields DEF Absent
        <4>2. Stored(CreatedRow(row[t], t), Absent).ver = Absent + 1
          BY <4>1, StoredFields
        <4>3. row'[t] = Stored(CreatedRow(row[t], t), Absent)
          BY <3>1 DEF IInv, TypeOK
        <4>4. QED
          BY <3>1, <4>2, <4>3
      <3>3. row[t].turn \in Turn /\ starts[t][row[t].turn] = 0
        BY <3>1 DEF IInv, RowInv, Row
      <3>4. QED
        BY <2>1, <2>9, <3>2, <3>3, LateQueued DEF CreateTask, At
    <2>10. ASSUME NEW t \in Task, ContinueTask(t) PROVE LateInv'
      <3>1. /\ row[t] \in Row /\ RowInv(t, row[t], starts[t])
            /\ row' = [row EXCEPT ![t] = Stored(ContinuedRow(row[t]), row[t].ver)]
            /\ row[t].messages + 2 <= MaxMessages /\ row[t].messages = 2 * row[t].turn + 2
        BY <2>10 DEF ContinueTask, HasRoom, IInv, TypeOK, RowInv, OnlyA2AContinues, Answered
      <3>2. ContinuedRow(row[t]) \in Row /\ row[t].ver \in Nat /\ row[t].turn < MaxTurn
        BY <3>1, ContinuedFields DEF Row
      <3>3. row'[t].ver = row[t].ver + 1
        BY <3>1, <3>2, StoredFields DEF IInv, TypeOK
      <3>4. row[t].turn + 1 \in Turn /\ starts[t][row[t].turn + 1] = 0
        <4>1. row[t].turn + 1 \in Turn /\ row[t].turn + 1 > row[t].turn
          BY <3>1, <3>2, TasksAssumption DEF Row, Turn
        <4>2. QED
          BY <3>1, <4>1 DEF RowInv
      <3>5. QED
        BY <2>1, <2>10, <3>3, <3>4, LateQueued DEF ContinueTask, At
    \* Everybody else leaves the history alone and brings nobody to the claim.
    <2>11. ASSUME NEW v \in Worker, Steps(v) \/ Crash(v) PROVE LateInv'
      <3>1. ASSUME NEW outcome \in Outcome, FinishTask(v, outcome) PROVE LateInv'
        BY <2>1, <2>4, <3>1, LateKept DEF FinishTask
      <3>2. CASE CancelOrphan(v) \/ ExpireTask(v) \/ Dispatch(v) \/ Crash(v)
        BY <2>1, <2>4, <3>2, LateKept DEF CancelOrphan, ExpireTask, Dispatch, Crash
      <3>3. QED
        BY <2>6, <2>7, <2>8, <2>11, <3>1, <3>2 DEF Steps
    <2>12. ASSUME UNCHANGED <<worker, starts, late>>, deleted => deleted' PROVE LateInv'
      BY <2>1, <2>12, LateKept
    <2>13. CASE Api
      BY <2>9, <2>10, <2>12, <2>13 DEF Api, Admit, CancelTask, SendTask, CallEnds
    <2>14. CASE Deletion
      BY <2>12, <2>14 DEF Deletion, DeleteAgent, ListRows, AgentDeleted, DeleteFails, EraseRow
    <2>15. CASE Tick \/ \E t \in Task : DropMessage(t)
      BY <2>12, <2>15 DEF Tick, DropMessage
    <2>16. QED
      BY <1>2, <2>5, <2>11, <2>13, <2>14, <2>15 DEF Next
  <1>3. QED
    BY <1>1, <1>2

\* No turn that is queued, or queued again, after the deletion of the agent is
\* ever executed, however many handlers and sweeps were admitted before it and
\* however many invocations receive the message.
THEOREM LateTurnsStayUnrun == Spec => []LateTurnsNeverStart
  <1>1. Init => LateInv
    BY DEF Init, LateInv, LateTurnsNeverStart, At, Idle
  <1>2. LateInv => LateTurnsNeverStart
    BY DEF LateInv
  <1>3. QED
    BY <1>1, <1>2, NextLateInv, Invariance, PTL DEF Spec

-----------------------------------------------------------------------------
(* The rows, the queue and the invocations implement the promise of          *)
(* TaskSpec.tla: every write that succeeds is one step of the promise, and   *)
(* everything else is invisible to it.                                       *)

\* One step of the promise, or none.
Kept == [Promise!Next]_(Promise!svars)

\* The status changes that leave turn and execution counts alone.
Allowed(from, to) ==
    \/ to = from
    \/ from = "absent" /\ to = "queued"
    \/ from = "queued" /\ to = "cancelled"
    \/ from = "running" /\ to \in Outcome
    \/ from \notin {"absent", "erased"} /\ to = "erased"

\* What the promise sees of a write to one row.
LEMMA Seen ==
    ASSUME row \in [Task -> Row], NEW t \in Task, NEW new \in Row,
           row' = [row EXCEPT ![t] = new]
    PROVE  /\ [u \in Task |-> row[u].status]' =
                 [[u \in Task |-> row[u].status] EXCEPT ![t] = new.status]
           /\ [u \in Task |-> row[u].turn]' =
                 [[u \in Task |-> row[u].turn] EXCEPT ![t] = new.turn]
           /\ new.turn = row[t].turn =>
                 [u \in Task |-> row[u].turn]' = [u \in Task |-> row[u].turn]
           /\ new.status = row[t].status =>
                 [u \in Task |-> row[u].status]' = [u \in Task |-> row[u].status]
  <1>1. \A u \in Task : row'[u] = IF u = t THEN new ELSE row[u]
    OBVIOUS
  <1>2. QED
    BY <1>1

LEMMA Unseen ==
    ASSUME row' = row, starts' = starts
    PROVE  Kept
  BY DEF Kept, Promise!svars

LEMMA WriteMoves ==
    ASSUME row \in [Task -> Row], NEW t \in Task, NEW new \in Row,
           row' = [row EXCEPT ![t] = new], starts' = starts,
           new.turn = row[t].turn, Allowed(row[t].status, new.status)
    PROVE  Kept
  <1> DEFINE st == [u \in Task |-> row[u].status]
             tn == [u \in Task |-> row[u].turn]
  <1>1. /\ st' = [st EXCEPT ![t] = new.status] /\ tn' = tn
        /\ new.status = row[t].status => st' = st
        /\ st[t] = row[t].status
    BY Seen
  <1>2. CASE new.status = row[t].status
    BY <1>1, <1>2 DEF Kept, Promise!svars
  <1>3. CASE row[t].status = "absent" /\ new.status = "queued"
    BY <1>1, <1>3 DEF Kept, Promise!Next, Promise!Submit, Promise!Move
  <1>4. CASE row[t].status = "queued" /\ new.status = "cancelled"
    BY <1>1, <1>4 DEF Kept, Promise!Next, Promise!Cancel, Promise!Move
  <1>5. CASE row[t].status = "running" /\ new.status \in Outcome
    BY <1>1, <1>5 DEF Kept, Promise!Next, Promise!EndTurn, Promise!Move, Outcome, Answered
  <1>6. CASE row[t].status \notin {"absent", "erased"} /\ new.status = "erased"
    BY <1>1, <1>6 DEF Kept, Promise!Next, Promise!Erase, Promise!Move
  <1>7. QED
    BY <1>2, <1>3, <1>4, <1>5, <1>6 DEF Allowed

\* A put that loses is invisible; one that wins moves the row it matched.
LEMMA PutMoves ==
    ASSUME IInv, NEW t \in Task, NEW v \in Nat, NEW new, Put(t, v, new), starts' = starts,
           row[t].ver = v => /\ new \in Row /\ new.turn = row[t].turn
                             /\ Allowed(row[t].status, new.status)
    PROVE  Kept
  <1>1. CASE row[t].ver = v
    <2>1. row' = [row EXCEPT ![t] = Stored(new, v)]
      BY <1>1 DEF Put, Matches
    <2>2. /\ Stored(new, v) \in Row
          /\ Stored(new, v).status = new.status /\ Stored(new, v).turn = new.turn
      BY <1>1, StoredFields
    <2>3. row \in [Task -> Row]
      BY DEF IInv, TypeOK
    <2>4. QED
      BY <1>1, <2>1, <2>2, <2>3, WriteMoves
  <1>2. CASE row[t].ver # v
    BY <1>2, Unseen DEF Put, Matches
  <1>3. QED
    BY <1>1, <1>2

-----------------------------------------------------------------------------
(* The steps of the promise. *)

LEMMA CreateKept ==
    ASSUME IInv, NEW t \in Task, CreateTask(t)
    PROVE  Kept
  <1>1. row \in [Task -> Row] /\ row[t].ver = Absent /\ RowInv(t, row[t], starts[t])
    BY DEF IInv, TypeOK, CreateTask, Matches
  <1>2. CreatedRow(row[t], t) \in Row /\ CreatedRow(row[t], t).status = "queued"
        /\ CreatedRow(row[t], t).turn = row[t].turn
    BY <1>1, CreatedFields
  <1>3. Put(t, Absent, CreatedRow(row[t], t)) /\ starts' = starts /\ Absent \in Nat
    BY DEF CreateTask, Put, Absent
  <1>4. row[t].status = "absent"
    BY <1>1 DEF RowInv
  <1>5. QED
    BY <1>2, <1>3, <1>4, PutMoves DEF Allowed

LEMMA ContinueKept ==
    ASSUME IInv, NEW t \in Task, ContinueTask(t)
    PROVE  Kept
  <1> DEFINE new == Stored(ContinuedRow(row[t]), row[t].ver)
             st == [u \in Task |-> row[u].status]
             tn == [u \in Task |-> row[u].turn]
  <1>1. /\ row \in [Task -> Row] /\ RowInv(t, row[t], starts[t]) /\ t \in A2ATask
        /\ row[t].status = "input_required" /\ row[t].messages + 2 <= MaxMessages
        /\ row[t].ver \in Nat /\ row' = [row EXCEPT ![t] = new] /\ starts' = starts
    BY DEF IInv, TypeOK, ContinueTask, HasRoom, OnlyA2AContinues, Row
  <1>2. row[t].messages = 2 * row[t].turn + 2
    BY <1>1 DEF RowInv, Answered
  <1>3. /\ ContinuedRow(row[t]) \in Row /\ ContinuedRow(row[t]).status = "queued"
        /\ ContinuedRow(row[t]).turn = row[t].turn + 1 /\ row[t].turn < MaxTurn
    BY <1>1, <1>2, ContinuedFields
  <1>4. new \in Row /\ new.status = "queued" /\ new.turn = row[t].turn + 1
    BY <1>1, <1>3, StoredFields
  <1> HIDE DEF new
  <1>5. /\ st' = [st EXCEPT ![t] = "queued"] /\ tn' = [tn EXCEPT ![t] = row[t].turn + 1]
        /\ st[t] = "input_required" /\ tn[t] = row[t].turn
    BY <1>1, <1>4, Seen
  <1>6. Promise!Continue(t)
    BY <1>1, <1>3, <1>5 DEF Promise!Continue, Promise!Move
  <1>7. QED
    BY <1>6 DEF Kept, Promise!Next

\* Only the winner of the claim starts a turn, and it starts one that nobody
\* has started: the row still waits for it.
LEMMA ClaimKept ==
    ASSUME IInv, NEW w \in Worker, ClaimTask(w)
    PROVE  Kept
  <1> SUFFICES ASSUME NEW t \in Task, t = worker[w].task PROVE Kept
    BY BusyTyped DEF IInv, ClaimTask, At
  <1> DEFINE new == Stored(ClaimedRow(row[t]), row[t].ver)
             st == [u \in Task |-> row[u].status]
             tn == [u \in Task |-> row[u].turn]
  <1>1. /\ TypeOK /\ row[t] \in Row /\ row[t].ver \in Nat /\ row[t].turn \in Turn
        /\ RowInv(t, row[t], starts[t]) /\ starts[t] \in [Turn -> Nat]
        /\ worker[w] # Idle /\ worker[w].pc = "claim" /\ JobInv(worker[w], row)
    BY BusyTyped DEF IInv, TypeOK, ClaimTask, At, Row
  <1>2. CASE row[t].ver # worker[w].ver
    BY <1>2, Unseen DEF ClaimTask, Put, Matches
  <1>3. CASE row[t].ver = worker[w].ver
    <2>1. row[t].status = "queued" /\ row[t].turn = worker[w].turn /\ starts[t][row[t].turn] = 0
      BY <1>1, <1>3 DEF JobInv, RowInv
    <2>2. /\ row' = [row EXCEPT ![t] = new]
          /\ starts' = [starts EXCEPT ![t][row[t].turn] = @ + 1]
      BY <1>1, <1>3, <2>1 DEF ClaimTask, Put, Matches
    <2>3. starts' = [starts EXCEPT ![t][row[t].turn] = 1]
      BY <1>1, <2>1, <2>2 DEF TypeOK
    <2>4. new \in Row /\ new.status = "running" /\ new.turn = row[t].turn
      <3>1. /\ ClaimedRow(row[t]) \in Row /\ ClaimedRow(row[t]).status = "running"
            /\ ClaimedRow(row[t]).turn = row[t].turn
        BY <1>1, ClaimedFields
      <3>2. QED
        BY <1>1, <3>1, StoredFields
    <2> HIDE DEF new
    <2>5. /\ st' = [st EXCEPT ![t] = "running"] /\ tn' = tn
          /\ st[t] = "queued" /\ tn[t] = row[t].turn
      BY <1>1, <2>1, <2>2, <2>4, Seen DEF TypeOK
    <2>6. Promise!Start(t)
      BY <1>1, <2>1, <2>3, <2>5 DEF Promise!Start, Promise!Move
    <2>7. QED
      BY <2>6 DEF Kept, Promise!Next
  <1>4. QED
    BY <1>2, <1>3

\* The other writes of an invocation: it believes what JobInv says of the row it
\* expects.
LEMMA WorkerKept ==
    ASSUME IInv, NEW w \in Worker, Steps(w)
    PROVE  Kept
  <1> DEFINE t == worker[w].task
             v == worker[w].ver
  <1>1. ASSUME worker[w].pc # "idle"
        PROVE  /\ t \in Task /\ v \in Nat /\ row[t] \in Row /\ RowInv(t, row[t], starts[t])
               /\ worker[w] # Idle /\ JobInv(worker[w], row)
    BY <1>1, BusyTyped DEF IInv, TypeOK
  <1>2. CASE CheckAgent(w) \/ Dispatch(w)
    BY <1>2, Unseen DEF CheckAgent, Dispatch
  <1>3. CASE CancelOrphan(w)
    <2>1. /\ worker[w].pc = "cancel" /\ Put(t, v, CancelledRow(row[t])) /\ starts' = starts
      BY <1>3 DEF CancelOrphan, At
    <2>2. row[t].ver = v => row[t].status = "queued"
      BY <1>1, <2>1 DEF JobInv
    <2>3. /\ CancelledRow(row[t]) \in Row /\ CancelledRow(row[t]).status = "cancelled"
          /\ CancelledRow(row[t]).turn = row[t].turn
      BY <1>1, <2>1, CancelledFields
    <2>4. QED
      BY <1>1, <2>1, <2>2, <2>3, PutMoves DEF Allowed
  <1>4. ASSUME NEW outcome \in Outcome, FinishTask(w, outcome) PROVE Kept
    <2>1. CASE ~OwnsClaim(w, row[t])
      BY <1>4, <2>1, Unseen DEF FinishTask
    <2>2. CASE OwnsClaim(w, row[t])
      <3>1. /\ worker[w].pc = "execute" /\ Put(t, v, FinishedRow(row[t], t, outcome))
            /\ starts' = starts /\ row[t].status = "running"
        BY <1>4, <2>2 DEF FinishTask, OwnsClaim, At
      <3>2. t \in A2ATask => row[t].messages = 2 * row[t].turn + 1
        BY <1>1, <3>1 DEF RowInv, Answered
      <3>3. /\ FinishedRow(row[t], t, outcome) \in Row
            /\ FinishedRow(row[t], t, outcome).status = outcome
            /\ FinishedRow(row[t], t, outcome).turn = row[t].turn
        BY <1>1, <3>1, <3>2, FinishedFields
      <3>4. QED
        BY <1>1, <3>1, <3>3, PutMoves DEF Allowed
    <2>3. QED
      BY <2>1, <2>2
  <1>5. CASE ExpireTask(w)
    <2>1. /\ worker[w].pc = "expire" /\ Put(t, v, SweptRow(row[t])) /\ starts' = starts
      BY <1>5 DEF ExpireTask, At
    <2>2. row[t].ver = v => row[t].status = "running"
      BY <1>1, <2>1 DEF JobInv
    <2>3. row[t].ver = v => /\ SweptRow(row[t]) \in Row /\ SweptRow(row[t]).status = "interrupted"
                            /\ SweptRow(row[t]).turn = row[t].turn
      BY <1>1, <2>1, <2>2, SweptFields
    <2>4. QED
      BY <1>1, <2>1, <2>2, <2>3, PutMoves DEF Allowed, Outcome
  <1>6. CASE BumpTask(w)
    <2>1. /\ worker[w].pc = "bump" /\ Put(t, v, BumpedRow(row[t])) /\ starts' = starts
      BY <1>6 DEF BumpTask, At
    <2>2. /\ BumpedRow(row[t]) \in Row /\ BumpedRow(row[t]).status = row[t].status
          /\ BumpedRow(row[t]).turn = row[t].turn
      BY <1>1, <2>1, BumpedFields
    <2>3. QED
      BY <1>1, <2>1, <2>2, PutMoves DEF Allowed
  <1>7. QED
    BY <1>2, <1>3, <1>4, <1>5, <1>6, ClaimKept DEF Steps

LEMMA CancelKept ==
    ASSUME IInv, NEW t \in Task, CancelTask(t)
    PROVE  Kept
  <1>1. row[t] \in Row /\ row[t].ver \in Nat /\ row[t].status = "queued" /\ starts' = starts
    BY DEF IInv, TypeOK, CancelTask, Row
  <1>2. Put(t, row[t].ver, CancelledRow(row[t]))
    BY DEF CancelTask, Put, Matches
  <1>3. /\ CancelledRow(row[t]) \in Row /\ CancelledRow(row[t]).status = "cancelled"
        /\ CancelledRow(row[t]).turn = row[t].turn
    BY <1>1, CancelledFields
  <1>4. QED
    BY <1>1, <1>2, <1>3, PutMoves DEF Allowed

\* A row is erased once: the deletion has not handled it, so it is not erased,
\* and its version says that it exists.
LEMMA EraseKept ==
    ASSUME IInv, NEW t \in Task, EraseRow(t)
    PROVE  Kept
  <1>1. /\ row[t] \in Row /\ RowInv(t, row[t], starts[t])
        /\ purge.seen[t] \in Nat /\ purge.seen[t] # Absent
        /\ Put(t, purge.seen[t], ErasedRow(row[t])) /\ starts' = starts
    BY DEF IInv, TypeOK, EraseRow
  <1>2. /\ ErasedRow(row[t]) \in Row /\ ErasedRow(row[t]).status = "erased"
        /\ ErasedRow(row[t]).turn = row[t].turn
    BY <1>1, ErasedFields
  <1>3. row[t].ver = purge.seen[t] => row[t].status \notin {"absent", "erased"}
    BY <1>1 DEF RowInv, IInv, ErasedOnce, Handled
  <1>4. QED
    BY <1>1, <1>2, <1>3, PutMoves DEF Allowed

LEMMA TickKept ==
    ASSUME IInv, Tick
    PROVE  Kept
  <1>1. \A t \in Task : row'[t].status = row[t].status /\ row'[t].turn = row[t].turn
    BY DEF IInv, TypeOK, Tick, Row
  <1>2. /\ [t \in Task |-> row[t].status]' = [t \in Task |-> row[t].status]
        /\ [t \in Task |-> row[t].turn]' = [t \in Task |-> row[t].turn]
        /\ starts' = starts
    BY <1>1 DEF Tick
  <1>3. QED
    BY <1>2 DEF Kept, Promise!svars

-----------------------------------------------------------------------------
LEMMA NextKept == IInv /\ [Next]_vars => Kept
  <1> SUFFICES ASSUME IInv, [Next]_vars PROVE Kept
    OBVIOUS
  <1>1. CASE UNCHANGED vars
    BY <1>1, Unseen DEF vars
  <1>2. CASE Api
    <2>1. ASSUME NEW t \in Task, (\E op \in Op : Admit(op, t)) \/ SendTask(t) PROVE Kept
      BY <2>1, Unseen DEF Admit, SendTask
    <2>2. ASSUME NEW c \in call, CallEnds(c) PROVE Kept
      BY <2>2, Unseen DEF CallEnds
    <2>3. QED
      BY <1>2, <2>1, <2>2, CreateKept, ContinueKept, CancelKept DEF Api
  <1>3. ASSUME NEW w \in Worker, NEW t \in Task, StartTask(w, t) \/ SweepTask(w, t) PROVE Kept
    BY <1>3, Unseen DEF StartTask, SweepTask
  <1>4. ASSUME NEW w \in Worker, Crash(w) PROVE Kept
    BY <1>4, Unseen DEF Crash
  <1>5. CASE Deletion
    <2>1. ASSUME DeleteAgent \/ ListRows \/ AgentDeleted \/ DeleteFails PROVE Kept
      BY <2>1, Unseen DEF DeleteAgent, ListRows, AgentDeleted, DeleteFails
    <2>2. QED
      BY <1>5, <2>1, EraseKept DEF Deletion
  <1>6. ASSUME NEW t \in Task, DropMessage(t) PROVE Kept
    BY <1>6, Unseen DEF DropMessage
  <1>7. QED
    BY <1>1, <1>2, <1>3, <1>4, <1>5, <1>6, WorkerKept, TickKept DEF Next

\* The table, the queue and the invocations keep the promise, for any number of
\* tasks, turns, invocations and crashes.
THEOREM Refinement == Spec => ImplementsTaskSpec
  <1>1. Init => Promise!Init
    BY DEF Init, Promise!Init, NoRow, Turn, Promise!Turn
  <1>2. IInv /\ [Next]_vars => [Promise!Next]_(Promise!svars)
    BY NextKept DEF Kept
  <1>3. QED
    BY <1>1, <1>2, Invariance, PTL DEF Spec, ImplementsTaskSpec, Promise!Spec
=============================================================================
