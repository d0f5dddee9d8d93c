-------------------------- MODULE SubmissionProofs --------------------------
(***************************************************************************)
(* Submission.tla keeps its promises for every set of requests, keys and   *)
(* bodies.  The inductive invariant ties each receipt to the one place its *)
(* message went (Recorded), and says of a request what it may still        *)
(* believe: a request that is about to commit, and still holds the version *)
(* of its task, knows the task (CallInv).  Receipts never change once they *)
(* are there, so what a request was told stays true.  The last part shows  *)
(* that receipts, tasks and answers implement SubmissionSpec.tla.          *)
(***************************************************************************)
EXTENDS Submission, FiniteSetTheorems, SequenceTheorems, TLAPS

Row     == [ver : Nat, status : {"absent", "queued", "input_required", "completed"},
            messages : Seq(Key)]
Receipt == [ver : {Absent, 1}, body : Body \cup {Nobody}, task : TaskId \cup {Nobody}]
Request == [pc : Pc, key : Key \cup {Nobody}, body : Body \cup {Nobody},
            target : Call \cup {New, Nobody}, seen : Row, known : BOOLEAN,
            task : TaskId \cup {Nobody}]

\* A row that does not exist holds nothing.
MissingRows == \A t \in TaskId : row[t].ver = Absent => row[t] = NoRow

\* A receipt and the one place that holds its message come together.
Recorded(k) ==
    IF receipt[k].ver = Absent THEN Places(k) = {}
    ELSE \E p \in Places(k) : p[1] = receipt[k].task /\ Places(k) = {p}

\* The task that request c, in local state j, is to write.
Wanted(c, j) ==
    IF j.target # New THEN j.target ELSE IF j.key \in ApiKey THEN j.key ELSE c

CallInv(c, j, rw, rc) ==
    /\ j.pc # "idle" => j.key \in Key /\ j.target \in Call \cup {New} /\ j.body \in Body
    /\ j.pc \in {"receipt", "skills", "task"} => j.seen = NoRow
    /\ j.pc = "commit" =>
          LET r == rw[Wanted(c, j)]
          IN  /\ j.seen.ver <= r.ver /\ (j.seen.ver = r.ver => j.seen = r)
              /\ j.seen.status = IF j.target = New THEN "absent" ELSE "input_required"
    /\ j.pc = "answered" =>
          rc[j.key].ver # Absent /\ rc[j.key].body = j.body /\ rc[j.key].task = j.task
    /\ j.known => /\ j.pc \in {"receipt", "answered", "failed"}
                  /\ rc[j.key].ver # Absent /\ rc[j.key].body = j.body

IInv == /\ TypeOK
        /\ call \in [Call -> Request]
        /\ MissingRows
        /\ \A k \in Key : Recorded(k)
        /\ \A c \in Call : CallInv(c, call[c], row, receipt)

-----------------------------------------------------------------------------
(* Where the message of a key is. *)

Held(rw, k) ==
    UNION {{<<t, i>> : i \in {n \in DOMAIN rw[t].messages : rw[t].messages[n] = k}} : t \in TaskId}

LEMMA PlacesHeld == \A k : Places(k) = Held(row, k) /\ Places(k)' = Held(row', k)
  BY DEF Places, Held

LEMMA HeldMeaning ==
    ASSUME NEW rw, NEW k
    PROVE  \A p : p \in Held(rw, k) <=>
               \E t \in TaskId : \E n \in DOMAIN rw[t].messages :
                   rw[t].messages[n] = k /\ p = <<t, n>>
  BY DEF Held

LEMMA SameMessages ==
    ASSUME NEW rw, NEW new, NEW k, \A t \in TaskId : new[t].messages = rw[t].messages
    PROVE  Held(new, k) = Held(rw, k)
  BY DEF Held

\* One message more, in one place.
Appended(rw, new, u, m) ==
    /\ rw[u].messages \in Seq(Key) /\ new[u].messages = Append(rw[u].messages, m)
    /\ \A t \in TaskId \ {u} : new[t].messages = rw[t].messages

LEMMA MessageAppended ==
    ASSUME NEW rw, NEW new, NEW u \in TaskId, NEW m \in Key, NEW k, Appended(rw, new, u, m)
    PROVE  Held(new, k) = IF k = m THEN Held(rw, k) \cup {<<u, Len(rw[u].messages) + 1>>}
                                   ELSE Held(rw, k)
  <1> DEFINE old == rw[u].messages
             l == Len(old) + 1
  <1>1. /\ DOMAIN new[u].messages = DOMAIN old \cup {l} /\ l \notin DOMAIN old
        /\ new[u].messages[l] = m /\ \A n \in DOMAIN old : new[u].messages[n] = old[n]
        /\ \A t \in TaskId \ {u} : new[t].messages = rw[t].messages
    BY DEF Appended
  <1> HIDE DEF l
  <1>2. ASSUME NEW p
        PROVE  p \in Held(new, k) <=> p \in Held(rw, k) \/ (k = m /\ p = <<u, l>>)
    <2>1. p \in Held(rw, k) <=> \E t \in TaskId : \E n \in DOMAIN rw[t].messages :
                                    rw[t].messages[n] = k /\ p = <<t, n>>
      BY HeldMeaning
    <2>2. p \in Held(new, k) <=> \E t \in TaskId : \E n \in DOMAIN new[t].messages :
                                     new[t].messages[n] = k /\ p = <<t, n>>
      BY HeldMeaning
    <2>3. ASSUME NEW t \in TaskId, NEW n \in DOMAIN new[t].messages,
                 new[t].messages[n] = k, p = <<t, n>>
          PROVE  p \in Held(rw, k) \/ (k = m /\ p = <<u, l>>)
      <3>1. CASE t # u
        BY <1>1, <2>1, <2>3, <3>1
      <3>2. CASE t = u /\ n = l
        BY <1>1, <2>3, <3>2
      <3>3. CASE t = u /\ n # l
        BY <1>1, <2>1, <2>3, <3>3
      <3>4. QED
        BY <3>1, <3>2, <3>3
    <2>4. ASSUME NEW t \in TaskId, NEW n \in DOMAIN rw[t].messages,
                 rw[t].messages[n] = k, p = <<t, n>>
          PROVE  p \in Held(new, k)
      <3>1. CASE t # u
        BY <1>1, <2>2, <2>4, <3>1
      <3>2. CASE t = u
        BY <1>1, <2>2, <2>4, <3>2
      <3>3. QED
        BY <3>1, <3>2
    <2>5. k = m /\ p = <<u, l>> => p \in Held(new, k)
      BY <1>1, <2>2
    <2>6. QED
      BY <2>1, <2>2, <2>3, <2>4, <2>5
  <1>3. QED
    BY <1>2 DEF l

-----------------------------------------------------------------------------
(* What does not disturb the others. *)

\* Rows and receipts only grow: a write makes a new version, and a receipt that
\* is there stays as it is.
Grows(rw, rc, newRow, newReceipt) ==
    /\ \A t \in TaskId : newRow[t] = rw[t] \/ newRow[t].ver > rw[t].ver
    /\ \A k \in Key : newReceipt[k] = rc[k] \/ rc[k].ver = Absent

LEMMA WantedTyped ==
    ASSUME NEW c \in Call, NEW j \in Request, j.key \in Key, j.target \in Call \cup {New}
    PROVE  Wanted(c, j) \in TaskId
  BY DEF Wanted, TaskId, Key

LEMMA GrowthKeeps ==
    ASSUME NEW c \in Call, NEW j \in Request, NEW rw \in [TaskId -> Row], NEW rc,
           NEW newRow \in [TaskId -> Row], NEW newReceipt,
           CallInv(c, j, rw, rc), Grows(rw, rc, newRow, newReceipt)
    PROVE  CallInv(c, j, newRow, newReceipt)
  <1>1. CASE j.pc = "idle"
    BY <1>1 DEF CallInv
  <1>2. CASE j.pc # "idle"
    <2>1. j.key \in Key /\ j.target \in Call \cup {New} /\ Wanted(c, j) \in TaskId
      BY <1>2, WantedTyped DEF CallInv
    <2>2. j.seen.ver \in Nat /\ \A t \in TaskId : rw[t].ver \in Nat /\ newRow[t].ver \in Nat
      BY DEF Request, Row
    <2>3. QED
      BY <1>2, <2>1, <2>2 DEF CallInv, Grows
  <1>3. QED
    BY <1>1, <1>2

LEMMA NoRowTyped ==
    NoRow \in Row /\ NoRow.ver = Absent /\ NoRow.messages = << >> /\ NoRow.status = "absent"
  BY DEF NoRow, Row, Absent

\* What a request knows of itself.
LEMMA CallTyped ==
    ASSUME IInv, NEW c \in Call
    PROVE  /\ call[c] \in Request /\ CallInv(c, call[c], row, receipt)
           /\ call[c].pc # "idle" => /\ call[c].key \in Key /\ call[c].body \in Body
                                     /\ call[c].target \in Call \cup {New}
  BY DEF IInv, CallInv

\* A request in another state, as Goto and End leave it.
LEMMA GotoJob ==
    ASSUME IInv, NEW c \in Call, NEW pc \in Pc, Goto(c, pc)
    PROVE  LET j == [call[c] EXCEPT !.pc = pc]
           IN  /\ call' = [call EXCEPT ![c] = j] /\ j \in Request /\ j.pc = pc
               /\ j.key = call[c].key /\ j.body = call[c].body /\ j.target = call[c].target
               /\ j.seen = call[c].seen /\ j.known = call[c].known /\ j.task = call[c].task
  BY DEF IInv, Goto, Request

LEMMA EndJob ==
    ASSUME IInv, NEW c \in Call, NEW pc \in Done, NEW task \in TaskId \cup {Nobody},
           End(c, pc, task)
    PROVE  \E j \in Request :
               /\ call' = [call EXCEPT ![c] = j] /\ j.pc = pc
               /\ j.key = call[c].key /\ j.body = call[c].body /\ j.target = call[c].target
               /\ j.seen = NoRow /\ j.known = call[c].known /\ j.task = task
  <1> DEFINE j == [call[c] EXCEPT !.pc = pc, !.task = task, !.seen = NoRow]
  <1>1. call' = [call EXCEPT ![c] = j]
    BY DEF End
  <1>2. /\ j \in Request /\ j.pc = pc
        /\ j.key = call[c].key /\ j.body = call[c].body /\ j.target = call[c].target
        /\ j.seen = NoRow /\ j.known = call[c].known /\ j.task = task
    BY NoRowTyped DEF IInv, Request, Pc
  <1> HIDE DEF j
  <1>3. QED
    BY <1>1, <1>2

\* A step that changes one request and no row.
LEMMA RequestKeeps ==
    ASSUME IInv, NEW c \in Call, NEW j \in Request, call' = [call EXCEPT ![c] = j],
           CallInv(c, j, row, receipt), UNCHANGED <<row, receipt, skills, changes>>
    PROVE  IInv'
  <1>1. TypeOK'
    <2>1. call'[c].pc \in Pc /\ \A d \in Call : call'[d].pc \in Pc
      BY DEF IInv, Request
    <2>2. QED
      BY <2>1 DEF IInv, TypeOK
  <1>2. MissingRows' /\ \A k \in Key : Recorded(k)'
    BY DEF IInv, MissingRows, Recorded, Places
  <1>3. call' \in [Call -> Request] /\ \A d \in Call : CallInv(d, call'[d], row, receipt)
    BY DEF IInv
  <1>4. QED
    BY <1>1, <1>2, <1>3 DEF IInv

\* A request ends: with the task of its receipt, or without an answer.
LEMMA EndKeeps ==
    ASSUME IInv, NEW c \in Call, NEW pc \in Done, NEW task \in TaskId \cup {Nobody},
           call[c].pc # "idle", End(c, pc, task), UNCHANGED <<row, receipt, skills, changes>>,
           pc = "answered" => /\ receipt[call[c].key].ver # Absent
                              /\ receipt[call[c].key].body = call[c].body
                              /\ receipt[call[c].key].task = task,
           call[c].known => pc \in {"answered", "failed"}
    PROVE  IInv'
  <1>1. PICK j \in Request :
            /\ call' = [call EXCEPT ![c] = j] /\ j.pc = pc
            /\ j.key = call[c].key /\ j.body = call[c].body /\ j.target = call[c].target
            /\ j.seen = NoRow /\ j.known = call[c].known /\ j.task = task
    BY EndJob
  <1>2. /\ j.key \in Key /\ j.target \in Call \cup {New} /\ j.body \in Body
        /\ CallInv(c, call[c], row, receipt)
    BY <1>1, CallTyped
  <1>3. j.pc \notin {"idle", "receipt", "skills", "task", "commit"}
    BY <1>1 DEF Done
  <1>4. j.known => /\ j.pc \in {"answered", "failed"}
                   /\ receipt[j.key].ver # Absent /\ receipt[j.key].body = j.body
    BY <1>1, <1>2 DEF CallInv
  <1>5. CallInv(c, j, row, receipt)
    BY <1>1, <1>2, <1>3, <1>4 DEF CallInv
  <1>6. QED
    BY <1>1, <1>5, RequestKeeps

\* previous_idempotent_task and receipt: an answer, a refusal, or on.
LEMMA LookupKeeps ==
    ASSUME IInv, NEW c \in Call, NEW otherwise, Lookup(c, otherwise), call[c].pc # "idle",
           UNCHANGED <<row, receipt, skills, changes>>,
           receipt[call[c].key].ver = Absent /\ ~call[c].known /\ otherwise => IInv'
    PROVE  IInv'
  <1> DEFINE r == receipt[call[c].key]
  <1>1. /\ call[c].key \in Key /\ CallInv(c, call[c], row, receipt) /\ r \in Receipt
        /\ call[c].known \in BOOLEAN
    BY CallTyped DEF IInv, TypeOK, Receipt, Request
  <1>2. call[c].known => r.ver # Absent /\ r.body = call[c].body
    BY <1>1 DEF CallInv
  <1>3. CASE r.ver = Absent
    BY <1>2, <1>3 DEF Lookup
  <1>4. CASE r.ver # Absent /\ r.body = call[c].body
    <2>1. End(c, "answered", r.task) /\ r.task \in TaskId \cup {Nobody}
      BY <1>1, <1>4 DEF Lookup, Same, Receipt
    <2>2. QED
      BY <1>4, <2>1, EndKeeps DEF Done
  <1>5. CASE r.ver # Absent /\ r.body # call[c].body
    <2>1. End(c, "refused", Nobody)
      BY <1>5 DEF Lookup, Same
    <2>2. QED
      BY <1>2, <1>5, <2>1, EndKeeps DEF Done
  <1>6. QED
    BY <1>3, <1>4, <1>5

-----------------------------------------------------------------------------
(* The steps of a request that write nothing. *)

LEMMA SubmitStep ==
    ASSUME IInv, NEW c \in Call, NEW k \in Key, NEW body \in Body, NEW target \in Call \cup {New},
           Submit(c, k, body, target)
    PROVE  IInv'
  <1> DEFINE known == receipt[k].ver # Absent /\ receipt[k].body = body
             j == [Idle EXCEPT !.pc = "receipt", !.key = k, !.body = body, !.target = target,
                               !.known = known]
  <1>1. call' = [call EXCEPT ![c] = j] /\ UNCHANGED <<row, receipt, skills, changes>>
    BY DEF Submit
  <1>2. known \in BOOLEAN /\ (known => receipt[k].ver # Absent /\ receipt[k].body = body)
    OBVIOUS
  <1> HIDE DEF known
  <1>3. /\ j \in Request /\ j.pc = "receipt" /\ j.key = k /\ j.body = body /\ j.target = target
        /\ j.seen = NoRow /\ j.known = known
    BY <1>2, NoRowTyped DEF Idle, Request, Pc
  <1> HIDE DEF j
  <1>4. CallInv(c, j, row, receipt)
    BY <1>2, <1>3 DEF CallInv
  <1>5. QED
    BY <1>1, <1>3, <1>4, RequestKeeps

\* A step to the next state of a request whose key had no receipt.
LEMMA GotoKeeps ==
    ASSUME IInv, NEW c \in Call, NEW pc \in {"skills", "task", "recheck"}, Goto(c, pc),
           call[c].pc # "idle", ~call[c].known, pc # "recheck" => call[c].seen = NoRow,
           UNCHANGED <<row, receipt, skills, changes>>
    PROVE  IInv'
  <1> DEFINE j == [call[c] EXCEPT !.pc = pc]
  <1>1. /\ call' = [call EXCEPT ![c] = j] /\ j \in Request /\ j.pc = pc
        /\ j.key = call[c].key /\ j.body = call[c].body /\ j.target = call[c].target
        /\ j.seen = call[c].seen /\ j.known = call[c].known
    BY GotoJob DEF Pc
  <1> HIDE DEF j
  <1>2. CallInv(c, j, row, receipt)
    BY <1>1, CallTyped DEF CallInv
  <1>3. QED
    BY <1>1, <1>2, RequestKeeps

LEMMA ReadReceiptStep ==
    ASSUME IInv, NEW c \in Call, ReadReceipt(c)
    PROVE  IInv'
  <1>1. /\ call[c].pc = "receipt" /\ Lookup(c, Goto(c, "skills")) /\ call[c].seen = NoRow
        /\ UNCHANGED <<row, receipt, skills, changes>>
    BY CallTyped DEF ReadReceipt, At, CallInv
  <1>2. ~call[c].known /\ Goto(c, "skills") => IInv'
    BY <1>1, GotoKeeps
  <1>3. QED
    BY <1>1, <1>2, LookupKeeps

LEMMA ReadSkillsStep ==
    ASSUME IInv, NEW c \in Call, ReadSkills(c)
    PROVE  IInv'
  <1>1. /\ call[c].pc = "skills" /\ call[c].seen = NoRow /\ ~call[c].known
        /\ UNCHANGED <<row, receipt, skills, changes>>
        /\ Goto(c, "task") \/ End(c, "refused", Nobody)
    BY CallTyped DEF ReadSkills, At, CallInv
  <1>2. QED
    BY <1>1, GotoKeeps, EndKeeps DEF Done

LEMMA ReadTaskStep ==
    ASSUME IInv, NEW c \in Call, ReadTask(c)
    PROVE  IInv'
  <1> DEFINE t == call[c].target
  <1>1. /\ call[c].pc = "task" /\ call[c].seen = NoRow /\ ~call[c].known
        /\ call[c].key \in Key /\ t \in Call \cup {New} /\ call[c] \in Request
        /\ UNCHANGED <<row, receipt, skills, changes>> /\ CallInv(c, call[c], row, receipt)
    BY CallTyped DEF ReadTask, At, CallInv
  <1>2. /\ Wanted(c, call[c]) \in TaskId /\ row \in [TaskId -> Row]
        /\ \A u \in TaskId : row[u].ver \in Nat
    BY <1>1, WantedTyped DEF IInv, TypeOK, Row
  <1>3. CASE t = New
    <2> DEFINE j == [call[c] EXCEPT !.pc = "commit"]
    <2>1. /\ call' = [call EXCEPT ![c] = j] /\ j \in Request /\ j.pc = "commit"
          /\ j.key = call[c].key /\ j.body = call[c].body /\ j.target = t
          /\ j.seen = NoRow /\ j.known = call[c].known
      BY <1>1, <1>3, GotoJob DEF ReadTask, Pc
    <2> HIDE DEF j
    <2>2. Wanted(c, j) = Wanted(c, call[c])
      BY <2>1 DEF Wanted
    <2>3. CallInv(c, j, row, receipt)
      BY <1>1, <1>2, <1>3, <2>1, <2>2, NoRowTyped DEF CallInv, IInv, MissingRows, Absent
    <2>4. QED
      BY <1>1, <2>1, <2>3, RequestKeeps
  <1>4. CASE t # New /\ Waits(t)
    <2> DEFINE j == [call[c] EXCEPT !.pc = "commit", !.seen = row[t]]
    <2>1. t \in TaskId /\ row[t] \in Row
      BY <1>1, <1>2, <1>4 DEF TaskId
    <2>2. call' = [call EXCEPT ![c] = j]
      BY <1>4 DEF ReadTask
    <2>3. /\ j \in Request /\ j.pc = "commit"
          /\ j.key = call[c].key /\ j.body = call[c].body /\ j.target = t
          /\ j.seen = row[t] /\ j.known = call[c].known
      BY <1>1, <2>1 DEF Request, Pc
    <2> HIDE DEF j
    <2>4. CallInv(c, j, row, receipt)
      BY <1>1, <1>2, <1>4, <2>1, <2>3 DEF CallInv, Wanted, Waits
    <2>5. QED
      BY <1>1, <2>2, <2>3, <2>4, RequestKeeps
  <1>5. CASE t # New /\ ~Waits(t)
    <2>1. End(c, "refused", Nobody)
      BY <1>5 DEF ReadTask
    <2>2. QED
      BY <1>1, <2>1, EndKeeps DEF Done
  <1>6. QED
    BY <1>3, <1>4, <1>5

LEMMA RecheckStep ==
    ASSUME IInv, NEW c \in Call, Recheck(c)
    PROVE  IInv'
  <1>1. /\ call[c].pc = "recheck" /\ Lookup(c, End(c, "conflict", Nobody))
        /\ UNCHANGED <<row, receipt, skills, changes>>
    BY DEF Recheck, At
  <1>2. ~call[c].known /\ End(c, "conflict", Nobody) => IInv'
    BY <1>1, EndKeeps DEF Done
  <1>3. QED
    BY <1>1, <1>2, LookupKeeps

LEMMA CollideStep ==
    ASSUME IInv, NEW c \in Call, Collide(c)
    PROVE  IInv'
  <1>1. /\ call[c].pc = "commit" /\ ~call[c].known /\ Goto(c, "recheck")
        /\ UNCHANGED <<row, receipt, skills, changes>>
    BY CallTyped DEF Collide, At, CallInv
  <1>2. QED
    BY <1>1, GotoKeeps

LEMMA FailStep ==
    ASSUME IInv, NEW c \in Call, Fail(c)
    PROVE  IInv'
  <1>1. /\ call[c].pc # "idle" /\ End(c, "failed", Nobody)
        /\ UNCHANGED <<row, receipt, skills, changes>>
    BY DEF Fail
  <1>2. QED
    BY <1>1, EndKeeps DEF Done

-----------------------------------------------------------------------------
(* The steps that write. *)

LEMMA StoredRow ==
    ASSUME NEW r \in Row, NEW k \in Key
    PROVE  LET new == Stored([r EXCEPT !.status = "queued", !.messages = Append(@, k)], r.ver)
           IN  /\ new \in Row /\ new.ver = r.ver + 1 /\ new.status = "queued"
               /\ new.messages = Append(r.messages, k)
  <1> DEFINE d == [r EXCEPT !.status = "queued", !.messages = Append(@, k)]
  <1>1. r.messages \in Seq(Key) /\ r.ver \in Nat /\ Append(r.messages, k) \in Seq(Key)
    BY DEF Row
  <1>2. d \in Row /\ d.messages = Append(r.messages, k) /\ d.status = "queued"
    BY <1>1 DEF Row
  <1> HIDE DEF d
  <1>3. /\ Stored(d, r.ver) \in Row /\ Stored(d, r.ver).ver = r.ver + 1
        /\ Stored(d, r.ver).messages = d.messages /\ Stored(d, r.ver).status = d.status
    BY <1>1, <1>2 DEF Stored, Row
  <1>4. QED
    BY <1>2, <1>3 DEF d

LEMMA StoredReceipt ==
    ASSUME NEW body \in Body, NEW t \in TaskId
    PROVE  LET new == Stored([NoReceipt EXCEPT !.body = body, !.task = t], Absent)
           IN  new \in Receipt /\ new.ver = 1 /\ new.body = body /\ new.task = t
  <1> DEFINE d == [NoReceipt EXCEPT !.body = body, !.task = t]
  <1>1. d \in Receipt /\ d.body = body /\ d.task = t
    BY DEF NoReceipt, Receipt, Absent
  <1> HIDE DEF d
  <1>2. /\ Stored(d, Absent) \in Receipt /\ Stored(d, Absent).ver = 1
        /\ Stored(d, Absent).body = d.body /\ Stored(d, Absent).task = d.task
    BY <1>1 DEF Stored, Receipt, Absent
  <1>3. QED
    BY <1>1, <1>2 DEF d

\* What the transaction of the task and the receipt writes.
LEMMA WriteEffect ==
    ASSUME IInv, NEW c \in Call, call[c].pc = "commit", Fits(c), Write(c)
    PROVE  LET k == call[c].key
               t == Target(c)
           IN  /\ k \in Key /\ t \in TaskId /\ t = Wanted(c, call[c])
               /\ row \in [TaskId -> Row] /\ receipt \in [Key -> Receipt]
               /\ call[c].seen = row[t] /\ receipt[k].ver = Absent
               /\ row' \in [TaskId -> Row] /\ \A u \in TaskId \ {t} : row'[u] = row[u]
               /\ row'[t].ver = row[t].ver + 1 /\ row'[t].status = "queued"
               /\ row'[t].messages = Append(row[t].messages, k)
               /\ receipt' \in [Key -> Receipt] /\ \A l \in Key \ {k} : receipt'[l] = receipt[l]
               /\ receipt'[k].ver = 1 /\ receipt'[k].body = call[c].body
               /\ receipt'[k].task = t
  <1> DEFINE k == call[c].key
             t == Target(c)
             new == Stored(NewRow(c), call[c].seen.ver)
             rec == Stored(NewReceipt(c), Absent)
  <1>1. /\ k \in Key /\ call[c].body \in Body
        /\ CallInv(c, call[c], row, receipt) /\ t = Wanted(c, call[c]) /\ t \in TaskId
    BY CallTyped, WantedTyped DEF CallInv, Wanted, Target
  <1>2. row \in [TaskId -> Row] /\ receipt \in [Key -> Receipt]
    BY DEF IInv, TypeOK, Row, Receipt
  <1>3. /\ call[c].seen = row[t] /\ receipt[k].ver = Absent
        /\ row' = [row EXCEPT ![t] = new] /\ receipt' = [receipt EXCEPT ![k] = rec]
    BY <1>1 DEF Fits, Write, Matches, CallInv, ReceiptExpects
  <1>4. /\ new \in Row /\ new.ver = row[t].ver + 1 /\ new.status = "queued"
        /\ new.messages = Append(row[t].messages, k)
    <2>1. new = Stored([row[t] EXCEPT !.status = "queued", !.messages = Append(@, k)], row[t].ver)
      BY <1>3 DEF NewRow
    <2>2. row[t] \in Row
      BY <1>1, <1>2
    <2> HIDE DEF new
    <2>3. QED
      BY <1>1, <2>1, <2>2, StoredRow DEF Row
  <1>5. rec \in Receipt /\ rec.ver = 1 /\ rec.body = call[c].body /\ rec.task = t
    BY <1>1, StoredReceipt DEF NewReceipt
  <1> HIDE DEF k, t, new, rec
  <1>6. /\ row' \in [TaskId -> Row] /\ row'[t] = new
        /\ \A u \in TaskId \ {t} : row'[u] = row[u]
    BY <1>1, <1>2, <1>3, <1>4
  <1>7. /\ receipt' \in [Key -> Receipt] /\ receipt'[k] = rec
        /\ \A l \in Key \ {k} : receipt'[l] = receipt[l]
    BY <1>1, <1>2, <1>3, <1>5
  <1>8. QED
    BY <1>1, <1>2, <1>3, <1>4, <1>5, <1>6, <1>7 DEF k, t

\* The transaction, whoever hears of it.
LEMMA WriteKeeps ==
    ASSUME IInv, NEW c \in Call, call[c].pc = "commit", Fits(c), Write(c),
           NEW pc \in {"answered", "failed"}, NEW task \in TaskId \cup {Nobody},
           pc = "answered" => task = Target(c), End(c, pc, task), UNCHANGED <<skills, changes>>
    PROVE  IInv'
  <1> DEFINE k == call[c].key
             t == Target(c)
  <1>1. /\ k \in Key /\ call[c].body \in Body /\ ~call[c].known /\ t \in TaskId
    BY CallTyped, WriteEffect DEF CallInv
  <1>2. row \in [TaskId -> Row] /\ receipt \in [Key -> Receipt]
    BY WriteEffect
  <1>3. call[c].seen = row[t] /\ receipt[k].ver = Absent
    BY WriteEffect
  <1>4. /\ row[t].ver \in Nat /\ row[t].messages \in Seq(Key)
        /\ row'[t].ver = row[t].ver + 1 /\ row'[t].messages = Append(row[t].messages, k)
    <2>1. row[t] \in Row
      BY <1>1, <1>2
    <2>2. row'[t].ver = row[t].ver + 1 /\ row'[t].messages = Append(row[t].messages, k)
      BY WriteEffect
    <2>3. QED
      BY <2>1, <2>2 DEF Row
  <1>5. receipt'[k].ver = 1 /\ receipt'[k].body = call[c].body /\ receipt'[k].task = t
    BY WriteEffect
  <1>6. row' \in [TaskId -> Row] /\ \A u \in TaskId \ {t} : row'[u] = row[u]
    BY WriteEffect
  <1>7. receipt' \in [Key -> Receipt] /\ \A l \in Key \ {k} : receipt'[l] = receipt[l]
    BY WriteEffect
  <1> HIDE DEF k, t
  <1>8. Grows(row, receipt, row', receipt')
    BY <1>3, <1>4, <1>6, <1>7 DEF Grows
  <1>9. PICK j \in Request :
            /\ call' = [call EXCEPT ![c] = j] /\ j.pc = pc
            /\ j.key = call[c].key /\ j.body = call[c].body /\ j.target = call[c].target
            /\ j.seen = NoRow /\ j.known = call[c].known /\ j.task = task
    BY EndJob DEF Done
  <1>10. call' \in [Call -> Request]
    BY <1>9 DEF IInv
  <1>11. ASSUME NEW d \in Call
         PROVE  CallInv(d, call'[d], row', receipt')
    <2>1. CASE d = c
      <3>1. call'[d] = j
        BY <1>9, <2>1 DEF IInv
      <3>2. CallInv(c, j, row', receipt')
        <4>1. /\ j.key = k /\ j.target \in Call \cup {New} /\ j.body \in Body /\ ~j.known
          BY <1>1, <1>9, CallTyped DEF k
        <4>2. pc = "answered" => receipt'[k].ver # Absent /\ receipt'[k].body = j.body
                                 /\ receipt'[k].task = j.task
          BY <1>5, <1>7, <1>9 DEF Absent, t
        <4>3. QED
          BY <1>1, <1>9, <4>1, <4>2 DEF CallInv
      <3>3. QED
        BY <2>1, <3>1, <3>2
    <2>2. CASE d # c
      <3>1. call'[d] = call[d] /\ CallInv(d, call[d], row, receipt) /\ call[d] \in Request
        BY <1>9, <2>2 DEF IInv
      <3>2. QED
        BY <1>2, <1>6, <1>8, <3>1, GrowthKeeps
    <2>3. QED
      BY <2>1, <2>2
  <1>12. TypeOK'
    <2>1. \A d \in Call : call'[d].pc \in Pc
      BY <1>10 DEF Request
    <2>2. QED
      BY <1>6, <1>7, <2>1 DEF IInv, TypeOK, Row, Receipt
  <1>13. MissingRows'
    BY <1>4, <1>6 DEF IInv, MissingRows, Absent
  <1>14. ASSUME NEW l \in Key
         PROVE  Recorded(l)'
    <2>1. Held(row', l) = IF l = k THEN Held(row, l) \cup {<<t, Len(row[t].messages) + 1>>}
                                   ELSE Held(row, l)
      <3>1. \A u \in TaskId \ {t} : row'[u].messages = row[u].messages
        BY <1>6
      <3>2. row'[t].messages = Append(row[t].messages, k)
        BY <1>4, <1>6
      <3>3. Appended(row, row', t, k)
        BY <1>4, <3>1, <3>2 DEF Appended
      <3>4. QED
        BY <1>1, <3>3, MessageAppended
    <2>2. Recorded(l)
      BY DEF IInv
    <2>3. CASE l # k
      BY <1>7, <2>1, <2>2, <2>3, PlacesHeld DEF Recorded
    <2>4. CASE l = k
      <3>1. Held(row, l) = {} /\ receipt'[l].ver # Absent /\ receipt'[l].task = t
        BY <1>3, <1>5, <1>7, <2>2, <2>4, PlacesHeld DEF Recorded, Absent
      <3>2. Held(row', l) = {<<t, Len(row[t].messages) + 1>>}
        BY <2>1, <2>4, <3>1
      <3>3. QED
        BY <3>1, <3>2, PlacesHeld DEF Recorded
    <2>5. QED
      BY <2>3, <2>4
  <1>15. QED
    BY <1>10, <1>11, <1>12, <1>13, <1>14 DEF IInv

LEMMA CommitStep ==
    ASSUME IInv, NEW c \in Call, Commit(c)
    PROVE  IInv'
  <1>1. /\ call[c].pc = "commit" /\ ~call[c].known /\ UNCHANGED <<skills, changes>>
        /\ Target(c) \in TaskId
    BY CallTyped, WantedTyped DEF Commit, At, CallInv, Wanted, Target
  <1>2. CASE Fits(c)
    BY <1>1, <1>2, WriteKeeps DEF Commit
  <1>3. CASE ~Fits(c)
    BY <1>1, <1>3, GotoKeeps DEF Commit
  <1>4. QED
    BY <1>2, <1>3

LEMMA LoseCommitStep ==
    ASSUME IInv, NEW c \in Call, LoseCommit(c)
    PROVE  IInv'
  BY WriteKeeps DEF LoseCommit, At

LEMMA TurnEndsStep ==
    ASSUME IInv, NEW t \in TaskId, NEW status \in {"input_required", "completed"},
           TurnEnds(t, status)
    PROVE  IInv'
  <1> DEFINE d == [row[t] EXCEPT !.status = status]
             new == Stored(d, row[t].ver)
  <1>1. /\ row' = [row EXCEPT ![t] = new] /\ UNCHANGED <<receipt, skills, changes, call>>
        /\ row \in [TaskId -> Row]
    BY DEF TurnEnds, IInv, TypeOK, Row
  <1>2. row[t] \in Row /\ row[t].ver \in Nat
    BY <1>1 DEF Row
  <1>3. d \in Row /\ d.messages = row[t].messages
    BY <1>2 DEF Row
  <1> HIDE DEF d
  <1>4. new \in Row /\ new.ver = row[t].ver + 1 /\ new.messages = row[t].messages
    BY <1>2, <1>3 DEF Stored, Row
  <1> HIDE DEF new
  <1>5. /\ row' \in [TaskId -> Row] /\ row'[t] = new
        /\ \A u \in TaskId \ {t} : row'[u] = row[u]
    BY <1>1, <1>4
  <1>6. Grows(row, receipt, row', receipt')
    BY <1>1, <1>2, <1>4, <1>5 DEF Grows
  <1>7. \A c \in Call : CallInv(c, call[c], row', receipt')
    BY <1>1, <1>5, <1>6, GrowthKeeps DEF IInv
  <1>8. \A u \in TaskId : row'[u].messages = row[u].messages
    BY <1>4, <1>5
  <1>9. \A k \in Key : Recorded(k)'
    <2>1. \A k \in Key : Held(row', k) = Held(row, k)
      BY <1>8, SameMessages
    <2>2. QED
      BY <1>1, <2>1, PlacesHeld DEF IInv, Recorded
  <1>10. TypeOK' /\ MissingRows'
    BY <1>1, <1>2, <1>4, <1>5 DEF IInv, TypeOK, Row, MissingRows, Absent
  <1>11. QED
    BY <1>1, <1>7, <1>9, <1>10 DEF IInv

LEMMA ChangeSkillsStep ==
    ASSUME IInv, ChangeSkills
    PROVE  IInv'
  <1>1. TypeOK'
    BY SubmissionAssumption DEF IInv, ChangeSkills, TypeOK
  <1>2. QED
    BY <1>1 DEF IInv, ChangeSkills, MissingRows, Recorded, Places

-----------------------------------------------------------------------------
(* The theorems. *)

LEMMA InitIInv == Init => IInv
  <1> SUFFICES ASSUME Init PROVE IInv
    OBVIOUS
  <1>1. TypeOK
    BY SubmissionAssumption, NoRowTyped
       DEF Init, TypeOK, Row, NoReceipt, Receipt, Idle, Pc, Absent
  <1>2. call \in [Call -> Request]
    BY NoRowTyped DEF Init, Request, Idle, Pc
  <1>3. MissingRows
    BY DEF Init, MissingRows
  <1>4. ASSUME NEW k \in Key
        PROVE  Recorded(k)
    <2>1. \A t \in TaskId : row[t].messages = << >>
      BY NoRowTyped DEF Init
    <2>2. Held(row, k) = {}
      BY <2>1, HeldMeaning
    <2>3. receipt[k].ver = Absent
      BY DEF Init, NoReceipt
    <2>4. QED
      BY <2>2, <2>3, PlacesHeld DEF Recorded
  <1>5. \A c \in Call : CallInv(c, call[c], row, receipt)
    BY DEF Init, CallInv, Idle
  <1>6. QED
    BY <1>1, <1>2, <1>3, <1>4, <1>5 DEF IInv

LEMMA NextKeeps == IInv /\ [Next]_vars => IInv'
  <1> SUFFICES ASSUME IInv, [Next]_vars PROVE IInv'
    OBVIOUS
  <1>1. ASSUME NEW c \in Call, Handle(c)
        PROVE  IInv'
    <2>1. ASSUME NEW k \in Key, NEW body \in Body, NEW target \in Call \cup {New},
                 Submit(c, k, body, target)
          PROVE  IInv'
      BY <2>1, SubmitStep
    <2>2. CASE ReadReceipt(c) \/ ReadSkills(c) \/ ReadTask(c)
      BY <2>2, ReadReceiptStep, ReadSkillsStep, ReadTaskStep
    <2>3. CASE Commit(c) \/ Collide(c) \/ LoseCommit(c) \/ Recheck(c) \/ Fail(c)
      BY <2>3, CommitStep, CollideStep, LoseCommitStep, RecheckStep, FailStep
    <2>4. QED
      BY <1>1, <2>1, <2>2, <2>3 DEF Handle
  <1>2. ASSUME NEW t \in TaskId, NEW status \in {"input_required", "completed"}, TurnEnds(t, status)
        PROVE  IInv'
    BY <1>2, TurnEndsStep
  <1>3. CASE ChangeSkills
    BY <1>3, ChangeSkillsStep
  <1>4. CASE UNCHANGED vars
    BY <1>4 DEF vars, IInv, TypeOK, MissingRows, Recorded, Places
  <1>5. QED
    BY <1>1, <1>2, <1>3, <1>4 DEF Next

THEOREM Inductive == Spec => []IInv
  <1>1. Init => IInv
    BY InitIInv
  <1>2. IInv /\ [Next]_vars => IInv'
    BY NextKeeps
  <1>3. QED
    BY <1>1, <1>2, PTL DEF Spec

\* However often a request is repeated, it adds one message to one task or none
\* (the receipt is inserted in the transaction of the task).
THEOREM RepeatsAddOnce == Spec => []OncePerKey
  <1>1. ASSUME IInv, NEW k \in Key
        PROVE  Cardinality(Places(k)) <= 1
    <2>1. CASE Places(k) = {}
      BY <2>1, FS_EmptySet
    <2>2. ASSUME NEW p, Places(k) = {p}
          PROVE  Cardinality(Places(k)) <= 1
      BY <2>2, FS_Singleton
    <2>3. QED
      BY <1>1, <2>1, <2>2 DEF IInv, Recorded
  <1>2. IInv => OncePerKey
    BY <1>1 DEF OncePerKey
  <1>3. QED
    BY <1>2, Inductive, PTL

\* A receipt and its accepted message exist together.
THEOREM ReceiptMeansAccepted == Spec => []ReceiptIffAccepted
  <1>1. IInv => ReceiptIffAccepted
    BY DEF IInv, Recorded, ReceiptIffAccepted
  <1>2. QED
    BY <1>1, Inductive, PTL

\* All who are answered under a key are told the same task for the same body
\* (previous_idempotent_task, receipt).
THEOREM AnswersNeverDiffer == Spec => []AnswersAgree
  <1>1. IInv => AnswersAgree
    BY DEF IInv, CallInv, AnswersAgree, At
  <1>2. QED
    BY <1>1, Inductive, PTL

\* A request that repeats an accepted one is never refused.
THEOREM AcceptedStaysAccepted == Spec => []RetryIsAnswered
  <1>1. IInv => RetryIsAnswered
    BY DEF IInv, CallInv, RetryIsAnswered
  <1>2. QED
    BY <1>1, Inductive, PTL

-----------------------------------------------------------------------------
(* The refinement of SubmissionSpec. *)

Answer(c, j) == [call |-> c, key |-> j.key, body |-> j.body, task |-> j.task]

\* A request without an answer comes to state j: it is told something or not.
LEMMA OneAnswer ==
    ASSUME IInv, NEW c \in Call, NEW j, call' = [call EXCEPT ![c] = j], call[c].pc # "answered"
    PROVE  /\ \A u \in Told : u.call # c
           /\ Told' = IF j.pc = "answered" THEN Told \cup {Answer(c, j)} ELSE Told
  <1>1. \A u : u \in Told <=> \E d \in Call : call[d].pc = "answered" /\ u = Answer(d, call[d])
    BY DEF Told, At, Answer
  <1>2. \A u : u \in Told' <=> \E d \in Call : call'[d].pc = "answered" /\ u = Answer(d, call'[d])
    BY DEF Told, At, Answer
  <1>3. call'[c] = j /\ \A d \in Call \ {c} : call'[d] = call[d]
    BY DEF IInv
  <1>4. \A d \in Call : Answer(d, call[d]).call = d
    BY DEF Answer
  <1>5. CASE j.pc = "answered"
    BY <1>1, <1>2, <1>3, <1>4, <1>5
  <1>6. CASE j.pc # "answered"
    BY <1>1, <1>2, <1>3, <1>4, <1>6
  <1>7. QED
    BY <1>5, <1>6

LEMMA SameTables ==
    /\ receipt' = receipt => Accepted' = Accepted
    /\ row' = row => Work' = Work
    /\ call' = call => Told' = Told
  BY DEF Accepted, Work, Told, At

\* Steps that tell nobody anything and write nothing.
LEMMA SilentStep ==
    ASSUME IInv, NEW c \in Call, UNCHANGED <<row, receipt>>, call[c].pc # "answered",
           \E j : call' = [call EXCEPT ![c] = j] /\ j.pc # "answered"
    PROVE  UNCHANGED <<Accepted, Told, Work>>
  <1>1. PICK j : call' = [call EXCEPT ![c] = j] /\ j.pc # "answered"
    OBVIOUS
  <1>2. Told' = Told
    BY <1>1, OneAnswer
  <1>3. QED
    BY <1>2, SameTables

LEMMA EndIsQuiet ==
    ASSUME IInv, NEW c \in Call, UNCHANGED <<row, receipt>>, call[c].pc # "answered",
           NEW pc \in Done \ {"answered"}, End(c, pc, Nobody)
    PROVE  UNCHANGED <<Accepted, Told, Work>>
  <1>1. PICK j \in Request : call' = [call EXCEPT ![c] = j] /\ j.pc = pc
    BY EndJob
  <1>2. QED
    BY <1>1, SilentStep

LEMMA GotoIsQuiet ==
    ASSUME IInv, NEW c \in Call, UNCHANGED <<row, receipt>>, call[c].pc # "answered",
           NEW pc \in Pc \ {"answered"}, Goto(c, pc)
    PROVE  UNCHANGED <<Accepted, Told, Work>>
  <1> DEFINE j == [call[c] EXCEPT !.pc = pc]
  <1>1. call' = [call EXCEPT ![c] = j] /\ j.pc = pc
    BY GotoJob
  <1> HIDE DEF j
  <1>2. QED
    BY <1>1, SilentStep

\* An answer that names the task of a receipt tells what was accepted.
LEMMA AnswerIsTold ==
    ASSUME IInv, NEW c \in Call, call[c].pc # "answered", NEW task \in TaskId \cup {Nobody},
           End(c, "answered", task), call[c].key \in Key,
           receipt'[call[c].key].ver # Absent, receipt'[call[c].key].body = call[c].body,
           receipt'[call[c].key].task = task
    PROVE  Promise!Tell(c)
  <1>1. PICK j \in Request :
            /\ call' = [call EXCEPT ![c] = j] /\ j.pc = "answered"
            /\ j.key = call[c].key /\ j.body = call[c].body /\ j.task = task
    BY EndJob DEF Done
  <1>2. (\A u \in Told : u.call # c) /\ Told' = Told \cup {Answer(c, j)}
    BY <1>1, OneAnswer
  <1> DEFINE a == [key |-> call[c].key, body |-> call[c].body, task |-> task]
  <1>3. a \in Accepted'
    BY DEF Accepted
  <1>4. Told' = Told \cup {[call |-> c, key |-> a.key, body |-> a.body, task |-> a.task]}
    BY <1>1, <1>2 DEF Answer
  <1> HIDE DEF a
  <1>5. QED
    BY <1>2, <1>3, <1>4 DEF Promise!Tell

\* A lookup tells what the receipt holds, or nothing.
LEMMA LookupRefines ==
    ASSUME IInv, NEW c \in Call, NEW otherwise, Lookup(c, otherwise),
           UNCHANGED <<row, receipt>>, call[c].pc \in {"receipt", "recheck"}
    PROVE  \/ UNCHANGED <<Accepted, Told, Work>>
           \/ Promise!Tell(c) /\ UNCHANGED <<Accepted, Work>>
           \/ otherwise
  <1> DEFINE r == receipt[call[c].key]
  <1>1. call[c].key \in Key /\ r \in Receipt
    BY CallTyped DEF IInv, TypeOK, Receipt
  <1>2. CASE r.ver # Absent /\ r.body = call[c].body
    <2>1. End(c, "answered", r.task) /\ r.task \in TaskId \cup {Nobody}
      BY <1>1, <1>2 DEF Lookup, Same, Receipt
    <2>2. Promise!Tell(c)
      BY <1>1, <1>2, <2>1, AnswerIsTold
    <2>3. QED
      BY <2>2, SameTables
  <1>3. CASE r.ver # Absent /\ r.body # call[c].body
    <2>1. End(c, "refused", Nobody)
      BY <1>3 DEF Lookup, Same
    <2>2. QED
      BY <2>1, EndIsQuiet DEF Done
  <1>4. CASE r.ver = Absent
    BY <1>4 DEF Lookup
  <1>5. QED
    BY <1>2, <1>3, <1>4

\* The transaction accepts the message of a new task, or of one that waits.
LEMMA WriteAccepts ==
    ASSUME IInv, NEW c \in Call, call[c].pc = "commit", Fits(c), Write(c)
    PROVE  Promise!Accept(call[c].key, call[c].body, Target(c))
  <1> DEFINE k == call[c].key
             t == Target(c)
             entry == [status |-> "queued", messages |-> Append(Work[t].messages, k)]
  <1>1. /\ k \in Key /\ t \in TaskId /\ call[c].seen = row[t] /\ receipt[k].ver = Absent
        /\ \A u \in TaskId \ {t} : row'[u] = row[u]
        /\ row'[t].status = "queued" /\ row'[t].messages = Append(row[t].messages, k)
        /\ \A l \in Key \ {k} : receipt'[l] = receipt[l]
        /\ receipt'[k].ver = 1 /\ receipt'[k].body = call[c].body /\ receipt'[k].task = t
    BY WriteEffect
  <1>2. call[c].seen.status \in {"absent", "input_required"}
    BY CallTyped DEF CallInv
  <1>3. Work[t].status \in {"absent", "input_required"} /\ Work[t].messages = row[t].messages
    BY <1>1, <1>2 DEF Work
  <1> HIDE DEF k, t
  <1>4. \A a : a \in Accepted <=> \E l \in Key : /\ receipt[l].ver # Absent
                 /\ a = [key |-> l, body |-> receipt[l].body, task |-> receipt[l].task]
    BY DEF Accepted
  <1>5. \A a : a \in Accepted' <=> \E l \in Key : /\ receipt'[l].ver # Absent
                 /\ a = [key |-> l, body |-> receipt'[l].body, task |-> receipt'[l].task]
    BY DEF Accepted
  <1>6. \A a \in Accepted : a.key # k
    BY <1>1, <1>4
  <1>7. Accepted' = Accepted \cup {[key |-> k, body |-> call[c].body, task |-> t]}
    BY <1>1, <1>4, <1>5 DEF Absent
  <1>8. Work' = [Work EXCEPT ![t] = entry]
    <2>1. Work' = [u \in TaskId |-> [status |-> row'[u].status, messages |-> row'[u].messages]]
      BY DEF Work
    <2>2. [Work EXCEPT ![t] = entry] = [u \in TaskId |-> IF u = t THEN entry ELSE Work[u]]
      BY DEF Work
    <2>3. entry = [status |-> row'[t].status, messages |-> row'[t].messages]
      BY <1>1, <1>3
    <2>4. \A u \in TaskId \ {t} :
              Work[u] = [status |-> row'[u].status, messages |-> row'[u].messages]
      BY <1>1 DEF Work
    <2> HIDE DEF entry
    <2>5. QED
      BY <2>1, <2>2, <2>3, <2>4
  <1>9. QED
    BY <1>3, <1>6, <1>7, <1>8 DEF Promise!Accept, k, t

LEMMA CommitRefines ==
    ASSUME IInv, NEW c \in Call, Commit(c) \/ LoseCommit(c)
    PROVE  \/ UNCHANGED <<Accepted, Told, Work>>
           \/ /\ call[c].key \in Key /\ call[c].body \in Body /\ Target(c) \in TaskId
              /\ Promise!Accept(call[c].key, call[c].body, Target(c))
              /\ UNCHANGED Told \/ Promise!Tell(c)
  <1>1. call[c].pc = "commit" /\ call[c].body \in Body
    BY CallTyped DEF Commit, LoseCommit, At
  <1>2. CASE Commit(c) /\ ~Fits(c)
    BY <1>1, <1>2, GotoIsQuiet DEF Commit, Pc
  <1>3. CASE Commit(c) /\ Fits(c)
    <2>1. Write(c) /\ End(c, "answered", Target(c))
      BY <1>3 DEF Commit
    <2>2. /\ Target(c) \in TaskId /\ call[c].key \in Key /\ receipt'[call[c].key].ver # Absent
          /\ receipt'[call[c].key].body = call[c].body /\ receipt'[call[c].key].task = Target(c)
      BY <1>1, <1>3, <2>1, WriteEffect DEF Absent
    <2>3. Promise!Tell(c)
      BY <1>1, <2>1, <2>2, AnswerIsTold
    <2>4. QED
      BY <1>1, <1>3, <2>1, <2>2, <2>3, WriteAccepts
  <1>4. CASE LoseCommit(c)
    <2>1. Fits(c) /\ Write(c) /\ End(c, "failed", Nobody)
      BY <1>4 DEF LoseCommit
    <2>2. Told' = Told
      BY <1>1, <2>1, EndJob, OneAnswer DEF Done
    <2>3. Target(c) \in TaskId /\ call[c].key \in Key
      BY <1>1, <2>1, WriteEffect
    <2>4. QED
      BY <1>1, <2>1, <2>2, <2>3, WriteAccepts
  <1>5. QED
    BY <1>2, <1>3, <1>4

LEMMA TurnRefines ==
    ASSUME IInv, NEW t \in TaskId, NEW status \in {"input_required", "completed"},
           TurnEnds(t, status)
    PROVE  Promise!TurnEnds(t, status)
  <1> DEFINE new == Stored([row[t] EXCEPT !.status = status], row[t].ver)
             entry == [Work[t] EXCEPT !.status = status]
  <1>1. /\ row[t].status = "queued" /\ row' = [row EXCEPT ![t] = new] /\ row \in [TaskId -> Row]
        /\ UNCHANGED <<receipt, call>>
    BY DEF TurnEnds, IInv, TypeOK, Row
  <1>2. new.status = status /\ new.messages = row[t].messages
    <2>1. row[t] \in Row
      BY <1>1
    <2>2. QED
      BY <2>1 DEF Stored, Row
  <1> HIDE DEF new
  <1>3. row'[t] = new /\ \A u \in TaskId \ {t} : row'[u] = row[u]
    BY <1>1
  <1>4. entry = [status |-> row'[t].status, messages |-> row'[t].messages]
    <2>1. Work[t] = [status |-> row[t].status, messages |-> row[t].messages]
      BY DEF Work
    <2>2. QED
      BY <1>2, <1>3, <2>1
  <1>5. Work' = [Work EXCEPT ![t] = entry]
    <2>1. Work' = [u \in TaskId |-> [status |-> row'[u].status, messages |-> row'[u].messages]]
      BY DEF Work
    <2>2. [Work EXCEPT ![t] = entry] = [u \in TaskId |-> IF u = t THEN entry ELSE Work[u]]
      BY DEF Work
    <2>3. \A u \in TaskId \ {t} :
              Work[u] = [status |-> row'[u].status, messages |-> row'[u].messages]
      BY <1>3 DEF Work
    <2> HIDE DEF entry
    <2>4. QED
      BY <1>4, <2>1, <2>2, <2>3
  <1>6. Work[t].status = "queued"
    BY <1>1 DEF Work
  <1>7. Accepted' = Accepted /\ Told' = Told
    BY <1>1, SameTables
  <1>8. QED
    BY <1>5, <1>6, <1>7 DEF Promise!TurnEnds

\* Every step of a request is a step of the promise, or none.
LEMMA HandleRefines ==
    ASSUME IInv, NEW c \in Call, Handle(c)
    PROVE  \/ UNCHANGED <<Accepted, Told, Work>>
           \/ Promise!Tell(c) /\ UNCHANGED <<Accepted, Work>>
           \/ /\ call[c].key \in Key /\ call[c].body \in Body /\ Target(c) \in TaskId
              /\ Promise!Accept(call[c].key, call[c].body, Target(c))
              /\ UNCHANGED Told \/ Promise!Tell(c)
  <1>1. ASSUME NEW k \in Key, NEW body \in Body, NEW target \in Call \cup {New},
               Submit(c, k, body, target)
        PROVE  UNCHANGED <<Accepted, Told, Work>>
    <2> DEFINE j == [Idle EXCEPT !.pc = "receipt", !.key = k, !.body = body, !.target = target,
                        !.known = receipt[k].ver # Absent /\ receipt[k].body = body]
    <2>1. /\ call[c].pc = "idle" /\ UNCHANGED <<row, receipt>>
          /\ call' = [call EXCEPT ![c] = j] /\ j.pc = "receipt"
      BY <1>1 DEF Submit, At, Idle
    <2> HIDE DEF j
    <2>2. QED
      BY <2>1, SilentStep
  <1>2. CASE ReadReceipt(c)
    <2>1. /\ call[c].pc = "receipt" /\ UNCHANGED <<row, receipt>>
          /\ Lookup(c, Goto(c, "skills"))
      BY <1>2 DEF ReadReceipt, At
    <2>2. Goto(c, "skills") => UNCHANGED <<Accepted, Told, Work>>
      BY <2>1, GotoIsQuiet DEF Pc
    <2>3. QED
      BY <2>1, <2>2, LookupRefines
  <1>3. CASE ReadSkills(c)
    <2>1. /\ call[c].pc = "skills" /\ UNCHANGED <<row, receipt>>
          /\ Goto(c, "task") \/ End(c, "refused", Nobody)
      BY <1>3 DEF ReadSkills, At
    <2>2. QED
      BY <2>1, GotoIsQuiet, EndIsQuiet DEF Pc, Done
  <1>4. CASE ReadTask(c)
    <2>1. call[c].pc = "task" /\ UNCHANGED <<row, receipt>>
      BY <1>4 DEF ReadTask, At
    <2>2. CASE Goto(c, "commit") \/ End(c, "refused", Nobody)
      BY <2>1, <2>2, GotoIsQuiet, EndIsQuiet DEF Pc, Done
    <2>3. CASE call' = [call EXCEPT ![c].pc = "commit", ![c].seen = row[call[c].target]]
      <3> DEFINE j == [call[c] EXCEPT !.pc = "commit", !.seen = row[call[c].target]]
      <3>1. call' = [call EXCEPT ![c] = j] /\ j.pc = "commit"
        BY <2>3, CallTyped DEF Request
      <3> HIDE DEF j
      <3>2. QED
        BY <2>1, <3>1, SilentStep
    <2>4. QED
      BY <1>4, <2>2, <2>3 DEF ReadTask
  <1>5. CASE Commit(c) \/ LoseCommit(c)
    BY <1>5, CommitRefines
  <1>6. CASE Collide(c)
    BY <1>6, GotoIsQuiet DEF Collide, At, Pc
  <1>7. CASE Recheck(c)
    <2>1. /\ call[c].pc = "recheck" /\ UNCHANGED <<row, receipt>>
          /\ Lookup(c, End(c, "conflict", Nobody))
      BY <1>7 DEF Recheck, At
    <2>2. End(c, "conflict", Nobody) => UNCHANGED <<Accepted, Told, Work>>
      BY <2>1, EndIsQuiet DEF Done
    <2>3. QED
      BY <2>1, <2>2, LookupRefines
  <1>8. CASE Fail(c)
    BY <1>8, EndIsQuiet DEF Fail, Done
  <1>9. QED
    BY <1>1, <1>2, <1>3, <1>4, <1>5, <1>6, <1>7, <1>8 DEF Handle

LEMMA StepRefines ==
    ASSUME IInv, [Next]_vars
    PROVE  [Promise!Next]_<<Accepted, Told, Work>>
  <1>1. ASSUME NEW c \in Call, Handle(c)
        PROVE  Promise!Next \/ UNCHANGED <<Accepted, Told, Work>>
    <2>1. CASE Promise!Tell(c) /\ UNCHANGED <<Accepted, Work>>
      BY <2>1 DEF Promise!Next
    <2>2. CASE /\ call[c].key \in Key /\ call[c].body \in Body /\ Target(c) \in TaskId
               /\ Promise!Accept(call[c].key, call[c].body, Target(c))
               /\ UNCHANGED Told \/ Promise!Tell(c)
      BY <2>2 DEF Promise!Next
    <2>3. QED
      BY <1>1, <2>1, <2>2, HandleRefines
  <1>2. ASSUME NEW t \in TaskId, NEW status \in {"input_required", "completed"}, TurnEnds(t, status)
        PROVE  Promise!Next
    BY <1>2, TurnRefines DEF Promise!Next
  <1>3. CASE ChangeSkills \/ UNCHANGED vars
    BY <1>3, SameTables DEF ChangeSkills, vars
  <1>4. QED
    BY <1>1, <1>2, <1>3 DEF Next

\* The rows and the answers keep the promise of SubmissionSpec: each key is
\* accepted once, by a task that is new or asked for it, and clients are told
\* what was accepted and nothing else (create_task, send_message).
THEOREM SubmissionRefinement == Spec => ImplementsSubmissionSpec
  <1>1. Init => Promise!Init
    <2> SUFFICES ASSUME Init PROVE Promise!Init
      OBVIOUS
    <2>1. Accepted = {}
      BY DEF Init, Accepted, NoReceipt
    <2>2. Told = {}
      BY DEF Init, Told, At, Idle
    <2>3. Work = [t \in TaskId |-> [status |-> "absent", messages |-> << >>]]
      BY DEF Init, Work, NoRow
    <2>4. QED
      BY <2>1, <2>2, <2>3 DEF Promise!Init
  <1>2. IInv /\ [Next]_vars => [Promise!Next]_<<Accepted, Told, Work>>
    BY StepRefines
  <1>3. QED
    BY <1>1, <1>2, Inductive, PTL DEF Spec, ImplementsSubmissionSpec, Promise!Spec, Promise!vars
=============================================================================
