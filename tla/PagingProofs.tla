---------------------------- MODULE PagingProofs ----------------------------
(***************************************************************************)
(* Proofs about TaskListing.tla.  A task that stands still keeps its place *)
(* in the order, and every other task moves forward only: so what a page   *)
(* leaves out stays behind the last task the page shows, wherever that     *)
(* task is when the next page is cut.  At the end of the module the same   *)
(* for the pages of Backlog.tla: a run that was not shown every row that   *)
(* is due says so before it ends.                                          *)
(***************************************************************************)
EXTENDS TaskListing, Backlog, FiniteSetTheorems, WellFoundedInduction, TLAPS

-----------------------------------------------------------------------------
(* The inductive invariant. *)

Stored == [caller : Caller \cup {Owner}, state : State \cup {"none"}, at : 0 .. MaxTime]
Listed    == [id : Id, task : Stored]

Scanning == [pc : {"scan"}, query : Query, after : Id \cup {NoId}, upto : 0 .. MaxTasks,
             scanned : Nat, results : SUBSET Listed]
Paging   == [pc : {"page"}, query : Query, after : Id \cup {NoId}, results : SUBSET Listed]
Between  == [pc : {"next"}, query : Query, after : Id]
Over     == [pc : {"done"}, query : Query]

\* A task as it is now.
Current(i) == [id |-> i, task |-> task[i]]

TaskInv ==
    /\ clock \in 0 .. MaxTime
    /\ task \in [Id -> Stored]
    /\ \A i \in Id : task[i].at <= clock
    /\ steady \subseteq Id /\ \A i \in steady : Exists(i)

\* What a page has read: once each, perhaps older than the task is now.
ListInv ==
    /\ list \in {Idle} \cup Scanning \cup Paging \cup Between \cup Over
    /\ list.pc \in {"scan", "page"} => \A row \in list.results :
           /\ list.pc = "scan" => row.id <= list.upto
           /\ Selects(list.query, row.task)
           /\ Exists(row.id) /\ task[row.id].caller = row.task.caller
           /\ row.task.at <= task[row.id].at
           /\ row.id \in steady => row = Current(row.id)
           /\ \A other \in list.results : other.id = row.id => other = row

\* The tasks that stand still and that the listing has to show.
Wanted == {i \in steady : Selects(list.query, task[i])}

\* The page has read them as far as it has come.
ReadInv ==
    /\ list.pc = "scan" => \A i \in Wanted : i <= list.upto => Current(i) \in list.results
    /\ list.pc = "page" => \A i \in Wanted : Current(i) \in list.results

\* Those not shown come after the task the token names, as it is and as it was
\* read.
TokenInv ==
    list.pc \in {"scan", "page", "next"} /\ list.after # NoId =>
        \A i \in Wanted \ shown :
            /\ Before(Current(list.after), Current(i))
            /\ list.pc # "next" => \A row \in list.results :
                   row.id = list.after => Before(row, Current(i))

ShownInv ==
    /\ list.pc = "idle" => shown = {}
    /\ \A i \in shown : /\ i \in Id /\ Exists(i)
                        /\ list.query.principal \in {Owner, task[i].caller}

IInv == TaskInv /\ ListInv /\ ReadInv /\ TokenInv /\ ShownInv /\ NothingSkipped
-----------------------------------------------------------------------------
(* The order of a listing. *)

LEMMA Numbers ==
    /\ MaxTasks \in Nat /\ MaxTime \in Nat /\ ScanLimit \in Nat
    /\ QueryLimit \in Nat \ {0} /\ PageSize \in Nat \ {0}
    /\ Id \subseteq Nat /\ NoId \notin Id /\ \A i \in Id : i > 0 /\ i <= MaxTasks
  BY ListingAssumption DEF Id, NoId

LEMMA Times ==
    ASSUME NEW row \in Listed
    PROVE  row.id \in Nat /\ row.id <= MaxTasks /\ row.task.at \in Nat
<1>1. row.id \in Id /\ row.task \in Stored
  BY DEF Listed
<1>2. row.task.at \in 0 .. MaxTime
  BY <1>1 DEF Stored
<1>3. row.task.at \in Nat
  BY <1>2
<1>4. row.id \in Nat /\ row.id <= MaxTasks
  BY <1>1, Numbers
<1> QED  BY <1>3, <1>4

\* A set of naturals has a least one.
LEMMA Least ==
    ASSUME NEW T \in SUBSET Nat, T # {}
    PROVE  \E n \in T : \A m \in T : n <= m
<1>1. \E n \in T : \A m \in T : ~ (<<m, n>> \in OpToRel(<, Nat))
  BY WFMin, NatLessThanWellFounded, Zenon
<1>2. \A m, n \in T : <<m, n>> \in OpToRel(<, Nat) <=> m < n
  BY DEF OpToRel
<1>3. PICK n \in T : \A m \in T : ~ (<<m, n>> \in OpToRel(<, Nat))
  BY <1>1
<1>4. \A m \in T : ~(m < n)
  BY <1>2, <1>3, Zenon
<1>5. \A m \in T : m \in Nat /\ n \in Nat
  OBVIOUS
<1> QED  BY <1>4, <1>5

LEMMA CurrentFacts ==
    ASSUME IInv, NEW i \in Id
    PROVE  /\ task[i] \in Stored /\ Current(i) \in Listed
           /\ Current(i).id = i /\ Current(i).task = task[i]
           /\ task[i].at \in Nat /\ task[i].at <= clock
<1>1. task[i] \in Stored /\ task[i].at <= clock
  BY DEF IInv, TaskInv
<1>2. task[i].at \in 0 .. MaxTime
  BY <1>1 DEF Stored
<1> QED  BY <1>1, <1>2, Numbers DEF Current, Listed

\* Before orders all rows, by what it looks at.
LEMMA Order ==
    ASSUME NEW a \in Listed, NEW b \in Listed, NEW c \in Listed
    PROVE  /\ Before(a, b) /\ Before(b, c) => Before(a, c)
           /\ a.id # b.id => Before(a, b) \/ Before(b, a)
           /\ ~Before(a, a)
           /\ Before(a, b) => ~Before(b, a)
<1>1. /\ a.id \in Nat /\ b.id \in Nat /\ c.id \in Nat
      /\ a.task.at \in Nat /\ b.task.at \in Nat /\ c.task.at \in Nat
  BY Times
<1> QED  BY <1>1 DEF Before

\* What moves goes to the front.
LEMMA Forward ==
    ASSUME NEW a \in Listed, NEW b \in Listed, NEW c \in Listed,
           Before(a, c), b.id = a.id, b.task.at >= a.task.at
    PROVE  Before(b, c)
<1>1. /\ a.id \in Nat /\ b.id \in Nat /\ c.id \in Nat
      /\ a.task.at \in Nat /\ b.task.at \in Nat /\ c.task.at \in Nat
  BY Times
<1> QED  BY <1>1 DEF Before

\* A page has a last task: the oldest, and of those the one with the highest
\* identifier.
LEMMA LastOfPage ==
    ASSUME NEW page \in SUBSET Listed, page # {},
           \A a, b \in page : a.id = b.id => a = b
    PROVE  \E row \in page : \A other \in page \ {row} : Before(other, row)
<1> DEFINE Ages == {row.task.at : row \in page}
<1>1. Ages \subseteq Nat /\ Ages # {}
  BY Times
<1>2. PICK age \in Ages : \A x \in Ages : age <= x
  <2> HIDE DEF Ages
  <2> QED  BY <1>1, Least
<1> DEFINE Ranks == {MaxTasks - row.id : row \in {r \in page : r.task.at = age}}
<1>3. Ranks \subseteq Nat /\ Ranks # {}
  <2>1. \A row \in page : MaxTasks - row.id \in Nat
    BY Times, Numbers
  <2>2. \E row \in page : row.task.at = age
    BY <1>2
  <2> QED  BY <2>1, <2>2
<1>4. PICK rank \in Ranks : \A x \in Ranks : rank <= x
  <2> HIDE DEF Ranks
  <2> QED  BY <1>3, Least
<1>5. PICK row \in page : row.task.at = age /\ MaxTasks - row.id = rank
  BY <1>4
<1>6. ASSUME NEW other \in page \ {row}
      PROVE  Before(other, row)
  <2>1. /\ other.id \in Nat /\ row.id \in Nat /\ other.task.at \in Nat /\ row.task.at \in Nat
        /\ other.id # row.id
    BY <1>6, Times
  <2>2. age <= other.task.at
    BY <1>2
  <2>3. CASE other.task.at = age
    <3>1. rank <= MaxTasks - other.id
      BY <1>4, <2>3
    <3>2. other.id < row.id
      BY <1>5, <2>1, <3>1, Numbers
    <3> QED  BY <1>5, <2>3, <3>2 DEF Before
  <2>4. CASE other.task.at # age
    BY <1>5, <2>1, <2>2, <2>4 DEF Before
  <2> QED  BY <2>3, <2>4
<1> QED  BY <1>5, <1>6
-----------------------------------------------------------------------------
(* The tasks move. *)

LEMMA ListTypes ==
    ASSUME IInv
    PROVE  /\ list.pc = "idle" => list = Idle
           /\ list.pc = "scan" => list \in Scanning
           /\ list.pc = "page" => list \in Paging
           /\ list.pc = "next" => list \in Between
           /\ list.pc = "done" => list \in Over
           /\ list.pc \in {"scan", "page"} => list.results \subseteq Listed
           /\ list.pc \in {"scan", "page", "next"} => list.after \in Id \cup {NoId}
           /\ list.pc # "idle" => list.query \in Query
           /\ list.pc \in {"idle", "scan", "page", "next", "done"}
<1>1. list \in {Idle} \cup Scanning \cup Paging \cup Between \cup Over
  BY DEF IInv, ListInv
<1>2. CASE list = Idle
  BY <1>2 DEF Idle
<1>3. CASE list \in Scanning
  BY <1>3 DEF Scanning
<1>4. CASE list \in Paging
  BY <1>4 DEF Paging
<1>5. CASE list \in Between
  BY <1>5 DEF Between
<1>6. CASE list \in Over
  BY <1>6 DEF Over
<1> QED  BY <1>1, <1>2, <1>3, <1>4, <1>5, <1>6

\* Whatever happens to the tasks while the listing waits.
LEMMA WorldKeeps ==
    ASSUME IInv, TaskInv', list' = list, shown' = shown, steady' \subseteq steady,
           \A i \in Id : Exists(i) => Exists(i)' /\ task'[i].caller = task[i].caller,
           \A i \in Id : task'[i].at >= task[i].at,
           \A i \in steady' : task'[i] = task[i]
    PROVE  IInv'
<1> USE Numbers
<1>1. \A i \in steady' : i \in Id /\ i \in steady /\ Current(i)' = Current(i)
  BY DEF IInv, TaskInv, Current
<1>2. ListInv'
  <2>1. ASSUME NEW row \in list.results, list.pc \in {"scan", "page"}
        PROVE  /\ Exists(row.id)' /\ task'[row.id].caller = row.task.caller
               /\ row.task.at <= task'[row.id].at
               /\ row.id \in steady' => row = Current(row.id)'
    <3>1. /\ Exists(row.id) /\ task[row.id].caller = row.task.caller
          /\ row.task.at <= task[row.id].at
          /\ row.id \in steady => row = Current(row.id)
      BY <2>1 DEF IInv, ListInv
    <3>2. row \in Listed /\ row.id \in Id
      BY <2>1, ListTypes DEF Listed
    <3>3. /\ row.task.at \in Nat /\ task[row.id].at \in Nat /\ task'[row.id].at \in Nat
          /\ task'[row.id].at >= task[row.id].at
      <4>1. task'[row.id] \in Stored
        BY <3>2 DEF TaskInv
      <4>2. task'[row.id].at \in 0 .. MaxTime
        BY <4>1 DEF Stored
      <4>3. task'[row.id].at \in Nat
        BY <4>2
      <4> QED  BY <3>2, <4>3, Times, CurrentFacts
    <3>4. row.task.at <= task'[row.id].at
      BY <3>1, <3>3
    <3>5. Exists(row.id)' /\ task'[row.id].caller = row.task.caller
      BY <3>1, <3>2
    <3>6. row.id \in steady' => row = Current(row.id)'
      BY <1>1, <3>1
    <3> QED  BY <3>4, <3>5, <3>6
  <2>2. /\ list \in {Idle} \cup Scanning \cup Paging \cup Between \cup Over
        /\ list.pc \in {"scan", "page"} => \A row \in list.results :
               /\ list.pc = "scan" => row.id <= list.upto
               /\ Selects(list.query, row.task)
               /\ \A other \in list.results : other.id = row.id => other = row
    BY DEF IInv, ListInv
  <2>3. \A row : Selects(list.query, row)' <=> Selects(list.query, row)
    BY DEF Selects, MayRead
  <2> QED  BY <2>1, <2>2, <2>3 DEF ListInv, Selects, MayRead
<1>3. Wanted' \subseteq Wanted
  BY <1>1 DEF Wanted, Selects, MayRead
<1>4. \A i \in Wanted' : i \in steady'
  BY DEF Wanted
<1>5. ReadInv'
  BY <1>1, <1>3, <1>4 DEF IInv, ReadInv
<1>6. TokenInv'
  <2> SUFFICES ASSUME list.pc \in {"scan", "page", "next"}, list.after # NoId,
                      NEW i \in Wanted' \ shown
               PROVE  /\ Before(Current(list.after)', Current(i)')
                      /\ list.pc # "next" => \A row \in list.results :
                             row.id = list.after => Before(row, Current(i)')
    BY DEF TokenInv, Before
  <2>1. i \in Wanted \ shown /\ i \in Id /\ i \in steady' /\ Current(i)' = Current(i)
    BY <1>1, <1>3, <1>4
  <2>2. list.after \in Id
    BY ListTypes
  <2>3. /\ Before(Current(list.after), Current(i))
        /\ list.pc # "next" => \A row \in list.results :
               row.id = list.after => Before(row, Current(i))
    BY <2>1 DEF IInv, TokenInv
  <2>4. Current(list.after)' \in Listed
    BY <2>2 DEF TaskInv, Current, Listed
  <2>5. /\ Current(list.after)'.id = list.after /\ Current(list.after)'.task = task'[list.after]
        /\ Current(list.after).id = list.after /\ Current(list.after).task = task[list.after]
        /\ Current(list.after) \in Listed /\ Current(i) \in Listed
    BY <2>1, <2>2, CurrentFacts DEF Current
  <2>6. task'[list.after].at >= task[list.after].at
    BY <2>2
  <2>7. Before(Current(list.after)', Current(i))
    BY <2>3, <2>4, <2>5, <2>6, Forward
  <2> QED  BY <2>1, <2>3, <2>7
<1>7. ShownInv'
  BY DEF IInv, ShownInv
<1>8. NothingSkipped'
  BY <1>1 DEF IInv, NothingSkipped, Selects, MayRead
<1> QED  BY <1>2, <1>5, <1>6, <1>7, <1>8 DEF IInv

LEMMA CreateKeeps ==
    ASSUME IInv, NEW i \in Id, NEW caller \in Caller, Create(i, caller)
    PROVE  IInv'
<1> DEFINE new == [caller |-> caller, state |-> "working", at |-> clock]
<1>1. /\ ~Exists(i) /\ task' = [task EXCEPT ![i] = new]
      /\ UNCHANGED <<clock, list, shown, steady>>
  BY DEF Create, history
<1>2. new \in Stored /\ new.at = clock /\ new.state # "none"
  BY DEF IInv, TaskInv, Stored, State
<1> HIDE DEF new
<1>3. /\ task' \in [Id -> Stored] /\ task'[i] = new
      /\ \A j \in Id : j # i => task'[j] = task[j]
  BY <1>1, <1>2 DEF IInv, TaskInv
<1>4. clock \in Nat
  BY Numbers DEF IInv, TaskInv
<1>5. \A j \in Id : task[j].at \in Nat /\ task[j].at <= clock
  BY CurrentFacts
<1>6. \A j \in Id : Exists(j) => j # i
  BY <1>1
<1>7. TaskInv'
  BY <1>1, <1>2, <1>3, <1>4, <1>6 DEF IInv, TaskInv, Exists
<1>8. \A j \in Id : Exists(j) => Exists(j)' /\ task'[j].caller = task[j].caller
  BY <1>3, <1>6 DEF Exists
<1>9. \A j \in Id : task'[j].at >= task[j].at
  BY <1>2, <1>3, <1>4, <1>5
<1>10. \A j \in steady' : task'[j] = task[j]
  BY <1>1, <1>3, <1>6 DEF IInv, TaskInv
<1> QED  BY <1>1, <1>7, <1>8, <1>9, <1>10, WorldKeeps

LEMMA UpdateKeeps ==
    ASSUME IInv, NEW i \in Id, Update(i)
    PROVE  IInv'
<1>1. PICK s \in State : task' = [task EXCEPT ![i].state = s, ![i].at = clock]
  BY DEF Update
<1>2. Exists(i) /\ steady' = steady \ {i} /\ UNCHANGED <<clock, list, shown>>
  BY DEF Update
<1> DEFINE new == [task[i] EXCEPT !.state = s, !.at = clock]
<1>3. clock \in Nat /\ clock \in 0 .. MaxTime /\ task \in [Id -> Stored] /\ task[i] \in Stored
  BY Numbers DEF IInv, TaskInv
<1>4. /\ new \in Stored /\ new.at = clock /\ new.state = s /\ s # "none"
      /\ new.caller = task[i].caller
  BY <1>3 DEF Stored, State
<1>5. task' = [task EXCEPT ![i] = new]
  BY <1>1
<1> HIDE DEF new
<1>6. /\ task' \in [Id -> Stored] /\ task'[i] = new
      /\ \A j \in Id : j # i => task'[j] = task[j]
  BY <1>3, <1>4, <1>5
<1>7. \A j \in Id : task[j].at \in Nat /\ task[j].at <= clock
  BY CurrentFacts
<1>8. TaskInv'
  BY <1>2, <1>3, <1>4, <1>6 DEF IInv, TaskInv, Exists
<1>9. \A j \in Id : Exists(j) => Exists(j)' /\ task'[j].caller = task[j].caller
  BY <1>4, <1>6 DEF Exists
<1>10. \A j \in Id : task'[j].at >= task[j].at
  BY <1>3, <1>4, <1>6, <1>7
<1>11. \A j \in steady' : task'[j] = task[j]
  BY <1>2, <1>6 DEF IInv, TaskInv
<1> QED  BY <1>2, <1>8, <1>9, <1>10, <1>11, WorldKeeps

LEMMA TickKeeps ==
    ASSUME IInv, Tick
    PROVE  IInv'
<1>1. clock < MaxTime /\ clock' = clock + 1 /\ UNCHANGED <<task, list, shown, steady>>
  BY DEF Tick, history
<1>2. clock \in 0 .. MaxTime /\ \A j \in Id : task[j].at \in Nat /\ task[j].at <= clock
  BY CurrentFacts DEF IInv, TaskInv
<1>3. clock' \in 0 .. MaxTime /\ \A j \in Id : task[j].at <= clock' /\ task[j].at >= task[j].at
  BY <1>1, <1>2, Numbers
<1>4. TaskInv'
  BY <1>1, <1>3 DEF IInv, TaskInv, Exists
<1>5. \A j \in Id : Exists(j)' = Exists(j)
  BY <1>1 DEF Exists
<1> QED  BY <1>1, <1>3, <1>4, <1>5, WorldKeeps
-----------------------------------------------------------------------------
(* The listing. *)

LEMMA InitIInv == Init => IInv
<1> SUFFICES ASSUME Init PROVE IInv
  OBVIOUS
<1> USE Numbers DEF Init
<1>1. list.pc = "idle" /\ list = Idle
  BY DEF Idle
<1>2. TaskInv
  <2>1. NoTask \in Stored /\ NoTask.at = 0
    BY DEF NoTask, Stored
  <2> QED  BY <2>1 DEF TaskInv
<1>3. ListInv
  BY <1>1 DEF ListInv
<1> QED  BY <1>1, <1>2, <1>3 DEF IInv, ReadInv, TokenInv, ShownInv, NothingSkipped

\* The listing is given up.
LEMMA StopKeeps ==
    ASSUME IInv, Stop
    PROVE  IInv'
<1>1. list' = Idle /\ list'.pc = "idle" /\ shown' = {} /\ steady' = {} /\ UNCHANGED <<clock, task>>
  BY DEF Stop, Idle
<1>2. TaskInv'
  BY <1>1 DEF IInv, TaskInv, Exists
<1>3. ListInv'
  BY <1>1 DEF ListInv, Idle
<1> QED  BY <1>1, <1>2, <1>3 DEF IInv, ReadInv, TokenInv, ShownInv, NothingSkipped

LEMMA ScanFacts ==
    ASSUME NEW query \in Query, NEW after \in Id \cup {NoId}
    PROVE  /\ Scan(query, after) \in Scanning
           /\ Scan(query, after).pc = "scan" /\ Scan(query, after).query = query
           /\ Scan(query, after).after = after /\ Scan(query, after).results = {}
           /\ Scan(query, after).upto = 0
<1>1. 0 \in 0 .. MaxTasks /\ 0 \in Nat /\ {} \subseteq Listed
  BY Numbers
<1> QED  BY <1>1 DEF Scan, Scanning

LEMMA FirstPageKeeps ==
    ASSUME IInv, NEW query \in Query, FirstPage(query)
    PROVE  IInv'
<1>1. /\ list.pc = "idle" /\ list' = Scan(query, NoId) /\ steady' = {i \in Id : Exists(i)}
      /\ UNCHANGED <<clock, task, shown>>
  BY DEF FirstPage
<1>2. /\ list' \in Scanning /\ list'.pc = "scan" /\ list'.after = NoId /\ list'.results = {}
      /\ list'.upto = 0
  BY <1>1, ScanFacts
<1>3. shown = {}
  BY <1>1 DEF IInv, ShownInv
<1>4. TaskInv'
  BY <1>1 DEF IInv, TaskInv, Exists
<1>5. ReadInv'
  <2>1. \A i \in Wanted' : i \in Id /\ ~(i <= 0)
    BY <1>1, Numbers DEF Wanted
  <2> QED  BY <1>2, <2>1 DEF ReadInv
<1>6. ListInv' /\ TokenInv' /\ ShownInv' /\ NothingSkipped'
  BY <1>1, <1>2, <1>3 DEF ListInv, TokenInv, ShownInv, NothingSkipped
<1> QED  BY <1>4, <1>5, <1>6 DEF IInv

LEMMA NextPageKeeps ==
    ASSUME IInv, NextPage
    PROVE  IInv'
<1>1. /\ list.pc = "next" /\ list' = Scan(list.query, list.after)
      /\ UNCHANGED <<clock, task, shown, steady>>
  BY DEF NextPage, history
<1>2. list.query \in Query /\ list.after \in Id \cup {NoId}
  BY <1>1, ListTypes
<1>3. /\ list' \in Scanning /\ list'.pc = "scan" /\ list'.after = list.after
      /\ list'.query = list.query /\ list'.results = {} /\ list'.upto = 0
  BY <1>1, <1>2, ScanFacts
<1>4. TaskInv'
  BY <1>1 DEF IInv, TaskInv, Exists
<1>5. Wanted' = Wanted /\ \A i : Current(i)' = Current(i)
  BY <1>1, <1>3 DEF Wanted, Selects, MayRead, Current
<1>6. ReadInv'
  <2>1. \A i \in Wanted : i \in Id /\ ~(i <= 0)
    BY Numbers DEF Wanted, IInv, TaskInv
  <2> QED  BY <1>3, <1>5, <2>1 DEF ReadInv
<1>7. TokenInv'
  BY <1>1, <1>3, <1>5 DEF IInv, TokenInv
<1>8. ListInv' /\ ShownInv' /\ NothingSkipped'
  BY <1>1, <1>3 DEF IInv, ListInv, ShownInv, NothingSkipped, Exists
<1> QED  BY <1>4, <1>6, <1>7, <1>8 DEF IInv
LEMMA Greatest ==
    ASSUME NEW T \in SUBSET (0 .. MaxTasks), T # {}
    PROVE  Max(T) \in T /\ \A x \in T : x <= Max(T)
<1> DEFINE Ranks == {MaxTasks - x : x \in T}
<1>1. Ranks \subseteq Nat /\ Ranks # {}
  <2>1. \A x \in T : MaxTasks - x \in Nat
    <3>1. \A x \in T : x \in 0 .. MaxTasks
      OBVIOUS
    <3> QED  BY <3>1, Numbers
  <2> QED  BY <2>1
<1>2. \E rank \in Ranks : \A r \in Ranks : rank <= r
  <2> HIDE DEF Ranks
  <2> QED  BY <1>1, Least
<1>3. PICK rank \in Ranks : \A r \in Ranks : rank <= r
  BY <1>2
<1>4. PICK x \in T : rank = MaxTasks - x
  BY <1>3
<1>5. \A y \in T : x >= y
  <2> SUFFICES ASSUME NEW y \in T PROVE x >= y
    OBVIOUS
  <2>1. rank <= MaxTasks - y
    BY <1>3
  <2>2. x \in Nat /\ y \in Nat
    OBVIOUS
  <2> QED  BY <1>4, <2>1, <2>2, Numbers
<1>6. Max(T) \in T /\ \A y \in T : Max(T) >= y
  BY <1>5 DEF Max
<1> QED  BY <1>6, Numbers

\* One query reads an interval of the identifiers.
LEMMA NextRowsFacts ==
    ASSUME IInv, list.pc = "scan", NEW last, last = Max(NextRows \cup {list.upto})
    PROVE  /\ list.upto \in 0 .. MaxTasks /\ last \in 0 .. MaxTasks /\ list.upto <= last
           /\ NextRows \subseteq Id
           /\ \A i \in NextRows : Exists(i) /\ i > list.upto /\ i <= last
           /\ \A i \in Id : Exists(i) /\ i > list.upto /\ i <= last => i \in NextRows
           /\ Cardinality(NextRows) \in Nat
<1> DEFINE after == {i \in Id : Exists(i) /\ i > list.upto}
<1>1. list.upto \in 0 .. MaxTasks
  BY ListTypes DEF Scanning
<1>2. IsFiniteSet(after)
  <2>1. IsFiniteSet(1 .. MaxTasks)
    BY FS_Interval, Numbers
  <2> QED  BY <2>1, FS_Subset DEF Id
<1>3. NextRows = {i \in after : Cardinality({j \in after : j < i}) < QueryLimit}
  BY DEF NextRows
<1> HIDE DEF after
<1>4. NextRows \subseteq after
  BY <1>3
<1>5. \A i : i \in after <=> i \in Id /\ Exists(i) /\ i > list.upto
  BY DEF after
<1>6. NextRows \cup {list.upto} \subseteq 0 .. MaxTasks
  <2>1. \A i \in NextRows : i \in 1 .. MaxTasks
    BY <1>4, <1>5 DEF Id
  <2>2. \A i \in 1 .. MaxTasks : i \in 0 .. MaxTasks
    BY Numbers
  <2> QED  BY <1>1, <2>1, <2>2
<1>7. last \in NextRows \cup {list.upto} /\ \A i \in NextRows \cup {list.upto} : i <= last
  BY <1>6, Greatest
<1>8. \A i \in Id : Exists(i) /\ i > list.upto /\ i <= last => i \in NextRows
  <2> SUFFICES ASSUME NEW i \in Id, Exists(i), i > list.upto, i <= last PROVE i \in NextRows
    OBVIOUS
  <2>1. i \in after
    BY <1>5
  <2>2. last \in NextRows
    BY <1>1, <1>6, <1>7, Numbers
  <2> DEFINE before(k) == {j \in after : j < k}
  <2>3. before(i) \subseteq before(last) /\ IsFiniteSet(before(last))
    <3>1. \A j \in after : j < i => j < last
      <4>1. last \in 0 .. MaxTasks
        BY <1>6, <1>7
      <4>2. \A j \in after : j \in Nat
        BY <1>5, Numbers
      <4>3. i \in Nat /\ last \in Nat
        BY <4>1, Numbers
      <4> QED  BY <4>2, <4>3
    <3>2. before(last) \subseteq after
      OBVIOUS
    <3> QED  BY <1>2, <3>1, <3>2, FS_Subset
  <2> HIDE DEF before
  <2>4. /\ Cardinality(before(i)) <= Cardinality(before(last))
        /\ Cardinality(before(i)) \in Nat /\ Cardinality(before(last)) \in Nat
    BY <2>3, FS_Subset, FS_CardinalityType
  <2>5. Cardinality(before(last)) < QueryLimit
    BY <1>3, <2>2 DEF before
  <2>6. Cardinality(before(i)) < QueryLimit
    BY <2>4, <2>5, Numbers
  <2> QED  BY <1>3, <2>1, <2>6 DEF before
<1>9. Cardinality(NextRows) \in Nat
  BY <1>2, <1>4, FS_Subset, FS_CardinalityType
<1>10. \A i \in NextRows : i \in Id /\ Exists(i) /\ i > list.upto /\ i <= last
  BY <1>4, <1>5, <1>7
<1> QED  BY <1>1, <1>6, <1>7, <1>8, <1>9, <1>10

\* What a page has after one more query.
Read == {[id |-> i, task |-> task[i]] : i \in NextRows}
More == list.results \cup {row \in Read : Selects(list.query, row.task)}

LEMMA MoreFacts ==
    ASSUME IInv, list.pc = "scan", NEW last, last = Max(NextRows \cup {list.upto})
    PROVE  /\ More \subseteq Listed
           /\ \A row \in More :
                  /\ row.id <= last
                  /\ Selects(list.query, row.task)
                  /\ Exists(row.id) /\ task[row.id].caller = row.task.caller
                  /\ row.task.at <= task[row.id].at
                  /\ row.id \in steady => row = Current(row.id)
                  /\ \A other \in More : other.id = row.id => other = row
           /\ \A i \in Wanted : i <= last => Current(i) \in More
           /\ \A row \in More \ list.results : row = Current(row.id) /\ row.id \in Id
<1>1. /\ list.upto \in 0 .. MaxTasks /\ last \in 0 .. MaxTasks /\ list.upto <= last
      /\ NextRows \subseteq Id
      /\ \A i \in NextRows : Exists(i) /\ i > list.upto /\ i <= last
      /\ \A i \in Id : Exists(i) /\ i > list.upto /\ i <= last => i \in NextRows
  BY NextRowsFacts
<1>2. \A row \in Read : /\ row = Current(row.id) /\ row.id \in NextRows /\ row.id \in Id
                        /\ row \in Listed /\ row.task = task[row.id]
  BY <1>1, CurrentFacts DEF Read, Current
<1>3. \A row \in list.results :
          /\ row \in Listed /\ row.id <= list.upto
          /\ Selects(list.query, row.task)
          /\ Exists(row.id) /\ task[row.id].caller = row.task.caller
          /\ row.task.at <= task[row.id].at
          /\ row.id \in steady => row = Current(row.id)
          /\ \A other \in list.results : other.id = row.id => other = row
  BY ListTypes DEF IInv, ListInv
<1>4. ASSUME NEW row \in list.results PROVE row.id <= last /\ row.id \in Nat
  BY <1>1, <1>3, Times
<1>5. ASSUME NEW row \in list.results, NEW other \in Read PROVE row.id # other.id
  <2>1. row.id <= list.upto /\ row.id \in Nat /\ other.id > list.upto /\ other.id \in Nat
    BY <1>1, <1>2, <1>3, Times
  <2> QED  BY <1>1, <2>1
<1>6. ASSUME NEW row \in Read PROVE row.task.at <= task[row.id].at
  <2>1. row.task = task[row.id] /\ row.task.at \in Nat
    BY <1>2, Times
  <2> QED  BY <2>1
<1>7. \A row \in Read : \A other \in Read : other.id = row.id => other = row
  BY <1>2
<1>8. ASSUME NEW i \in Wanted, i <= last PROVE Current(i) \in More
  <2>1. i \in Id /\ Exists(i) /\ Selects(list.query, task[i])
    BY DEF Wanted, IInv, TaskInv
  <2>2. CASE i <= list.upto
    BY <2>2 DEF IInv, ReadInv, More
  <2>3. CASE ~(i <= list.upto)
    <3>1. i > list.upto
      BY <1>1, <2>1, <2>3, Numbers
    <3>2. i \in NextRows
      BY <1>1, <1>8, <2>1, <3>1
    <3>3. Current(i) \in Read
      BY <3>2 DEF Read, Current
    <3> QED  BY <2>1, <3>3, CurrentFacts DEF More
  <2> QED  BY <2>2, <2>3
<1>9. More \subseteq list.results \cup Read
  BY DEF More
<1>10. \A row \in More : Selects(list.query, row.task)
  BY <1>3 DEF More
<1>11. \A row \in More : row \in Listed /\ row.id <= last
  BY <1>1, <1>2, <1>3, <1>4, <1>9
<1>12. \A row \in More : /\ Exists(row.id) /\ task[row.id].caller = row.task.caller
                         /\ row.task.at <= task[row.id].at
                         /\ row.id \in steady => row = Current(row.id)
  BY <1>1, <1>2, <1>3, <1>6, <1>9
<1>13. \A row \in More : \A other \in More : other.id = row.id => other = row
  BY <1>3, <1>5, <1>7, <1>9
<1>14. \A row \in More \ list.results : row = Current(row.id) /\ row.id \in Id
  BY <1>2, <1>9
<1> QED  BY <1>8, <1>10, <1>11, <1>12, <1>13, <1>14

LEMMA ReadRowsKeeps ==
    ASSUME IInv, ReadRows
    PROVE  IInv'
<1> DEFINE last    == Max(NextRows \cup {list.upto})
           scanned == list.scanned + Cardinality(NextRows)
           more    == \E i \in Id : Exists(i) /\ i > last
<1>1. /\ list.pc = "scan" /\ list \in Scanning
      /\ list.after \in Id \cup {NoId} /\ list.query \in Query
  BY ListTypes DEF ReadRows
<1>2. /\ last \in 0 .. MaxTasks /\ scanned \in Nat
  BY <1>1, NextRowsFacts DEF Scanning
<1>3. /\ More \subseteq Listed
      /\ \A row \in More :
             /\ row.id <= last
             /\ Selects(list.query, row.task)
             /\ Exists(row.id) /\ task[row.id].caller = row.task.caller
             /\ row.task.at <= task[row.id].at
             /\ row.id \in steady => row = Current(row.id)
             /\ \A other \in More : other.id = row.id => other = row
      /\ \A i \in Wanted : i <= last => Current(i) \in More
      /\ \A row \in More \ list.results : row = Current(row.id) /\ row.id \in Id
  BY <1>1, MoreFacts
<1>4. \/ Stop
      \/ /\ list' = [list EXCEPT !.upto = last, !.scanned = scanned, !.results = More]
         /\ UNCHANGED <<clock, task, shown, steady>>
      \/ /\ ~more
         /\ list' = [pc |-> "page", query |-> list.query, after |-> list.after, results |-> More]
         /\ UNCHANGED <<clock, task, shown, steady>>
  BY DEF ReadRows, More, Read, history
<1>5. ~more => \A i \in Id : Exists(i) => i <= last
  BY <1>2, Numbers
<1> HIDE DEF last, scanned, more
<1>6. CASE ~Stop
  <2>1. UNCHANGED <<clock, task, shown, steady>>
    BY <1>4, <1>6
  <2>2. /\ list'.query = list.query /\ list'.after = list.after /\ list'.results = More
        /\ \/ list' \in Scanning /\ list'.pc = "scan" /\ list'.upto = last
           \/ list' \in Paging /\ list'.pc = "page" /\ ~more
    <3>1. CASE list' = [list EXCEPT !.upto = last, !.scanned = scanned, !.results = More]
      BY <1>1, <1>2, <1>3, <3>1 DEF Scanning
    <3>2. CASE /\ list' = [pc |-> "page", query |-> list.query, after |-> list.after, results |-> More]
               /\ ~more
      BY <1>1, <1>3, <3>2 DEF Paging
    <3> QED  BY <1>4, <1>6, <3>1, <3>2
  <2>3. list'.pc \in {"scan", "page"} /\ list' \in {Idle} \cup Scanning \cup Paging \cup Between \cup Over
    BY <2>2
  <2>4. TaskInv'
    BY <2>1 DEF IInv, TaskInv, Exists
  <2>5. ListInv'
    BY <1>3, <2>1, <2>2, <2>3 DEF ListInv, Selects, MayRead, Exists, Current
  <2>6. Wanted' = Wanted /\ \A i : Current(i)' = Current(i)
    BY <2>1, <2>2 DEF Wanted, Selects, MayRead, Current
  <2>7. ReadInv'
    <3>1. \A i \in Wanted : i \in Id /\ Exists(i)
      BY DEF Wanted, IInv, TaskInv
    <3> QED  BY <1>3, <1>5, <2>2, <2>6, <3>1 DEF ReadInv
  <2>8. TokenInv'
    <3> SUFFICES ASSUME list.after # NoId, NEW i \in Wanted \ shown
                 PROVE  /\ Before(Current(list.after), Current(i))
                        /\ \A row \in More : row.id = list.after => Before(row, Current(i))
      BY <2>1, <2>2, <2>3, <2>6 DEF TokenInv
    <3>1. /\ Before(Current(list.after), Current(i))
          /\ \A row \in list.results : row.id = list.after => Before(row, Current(i))
      BY <1>1 DEF IInv, TokenInv
    <3> QED  BY <1>3, <3>1
  <2>9. ShownInv' /\ NothingSkipped'
    BY <1>1, <2>1, <2>2, <2>3 DEF IInv, ShownInv, NothingSkipped, Exists
  <2> QED  BY <2>4, <2>5, <2>7, <2>8, <2>9 DEF IInv
<1>7. CASE Stop
  BY <1>7, StopKeeps
<1> QED  BY <1>6, <1>7
\* What is cut off comes after the last task of the page.
LEMMA DeliverKeeps ==
    ASSUME IInv, Deliver
    PROVE  IInv'
<1>1. /\ list.pc = "page" /\ list \in Paging /\ list.results \subseteq Listed
      /\ list.after \in Id \cup {NoId} /\ list.query \in Query
  BY ListTypes DEF Deliver
<1>2. PICK page \in SUBSET Rest :
          /\ page = {} => Rest = {}
          /\ \A row \in page, other \in Rest \ page : Before(row, other)
          /\ list' = IF page = Rest
                        THEN [pc |-> "done", query |-> list.query]
                        ELSE [pc |-> "next", query |-> list.query,
                              after |-> (CHOOSE row \in page :
                                            \A other \in page \ {row} : Before(other, row)).id]
          /\ shown' = shown \cup {row.id : row \in page}
  BY DEF Deliver
<1>3. UNCHANGED <<clock, task, steady>>
  BY DEF Deliver
<1>4. /\ Rest \subseteq list.results /\ page \subseteq Listed
      /\ \A row \in Rest : /\ row \in Listed /\ row.id \in Id /\ Exists(row.id)
                           /\ Selects(list.query, row.task)
                           /\ task[row.id].caller = row.task.caller
                           /\ row.task.at <= task[row.id].at
                           /\ \A other \in Rest : other.id = row.id => other = row
  <2>1. Rest \subseteq list.results
    BY DEF Rest
  <2> QED  BY <1>1, <2>1 DEF IInv, ListInv, Listed
\* Wanted tasks that were not shown are in the rest.
<1>5. \A i \in Wanted \ shown : i \in Id /\ Current(i) \in Rest /\ Current(i).id = i
  <2> SUFFICES ASSUME NEW i \in Wanted \ shown
               PROVE  i \in Id /\ Current(i) \in Rest /\ Current(i).id = i
    OBVIOUS
  <2>1. i \in Id /\ Current(i) \in list.results /\ Current(i).id = i
    BY <1>1, CurrentFacts DEF IInv, ReadInv, TaskInv, Wanted
  <2>2. list.after # NoId =>
            \E row \in list.results : row.id = list.after /\ Before(row, Current(i))
    <3>1. list.after # NoId => \E row \in list.results : row.id = list.after
      BY DEF Deliver
    <3>2. list.after # NoId =>
              \A row \in list.results : row.id = list.after => Before(row, Current(i))
      BY <1>1 DEF IInv, TokenInv
    <3> QED  BY <3>1, <3>2
  <2> QED  BY <2>1, <2>2 DEF Rest
<1>6. \A i : Current(i)' = Current(i)
  BY <1>3 DEF Current
<1>7. TaskInv'
  BY <1>3 DEF IInv, TaskInv, Exists
<1>8. list'.query = list.query /\ list'.pc \in {"done", "next"}
  BY <1>2
<1>9. Wanted' = Wanted
  BY <1>3, <1>8 DEF Wanted, Selects, MayRead
<1>10. ShownInv'
  <2>1. \A i \in shown' : i \in shown \/ \E row \in Rest : row.id = i
    BY <1>2
  <2>2. \A row \in Rest : list.query.principal \in {Owner, task[row.id].caller}
    BY <1>4 DEF Selects, MayRead
  <2>3. ASSUME NEW i \in shown'
        PROVE  i \in Id /\ Exists(i) /\ list.query.principal \in {Owner, task[i].caller}
    BY <1>1, <1>4, <2>1, <2>2 DEF IInv, ShownInv
  <2> QED  BY <1>3, <1>8, <2>3 DEF ShownInv, Exists
<1>11. ListInv' /\ TokenInv' /\ NothingSkipped'
  <2>1. CASE page = Rest
    <3>1. list' = [pc |-> "done", query |-> list.query] /\ list'.pc = "done" /\ list' \in Over
      BY <1>1, <1>2, <2>1 DEF Over
    <3>2. Wanted \subseteq shown'
      BY <1>2, <1>5, <2>1
    <3>3. NothingSkipped'
      BY <1>9, <3>2 DEF NothingSkipped, Wanted
    <3> QED  BY <3>1, <3>3 DEF ListInv, TokenInv
  <2>2. CASE page # Rest
    <3> DEFINE Hindmost(row) == \A other \in page \ {row} : Before(other, row)
               last == CHOOSE row \in page : Hindmost(row)
    <3>1. page # {}
      BY <1>2, <2>2
    <3>2. \A a, b \in page : a.id = b.id => a = b
      BY <1>4
    <3>3. last \in page /\ Hindmost(last)
      <4>1. \E row \in page : Hindmost(row)
        BY <1>4, <3>1, <3>2, LastOfPage
      <4> QED  BY <4>1
    <3>4. /\ list' = [pc |-> "next", query |-> list.query, after |-> last.id]
          /\ list'.pc = "next" /\ list'.after = last.id
      BY <1>2, <2>2
    <3> HIDE DEF last
    <3>5. last \in Rest /\ last \in Listed /\ last.id \in Id
      BY <1>4, <3>3
    <3>6. list' \in Between
      BY <1>1, <3>4, <3>5 DEF Between
    <3>7. ASSUME NEW i \in Wanted \ shown'
          PROVE  Before(Current(last.id), Current(i))
      <4>1. /\ i \in Id /\ Current(i) \in Rest /\ Current(i).id = i
            /\ Current(i) \notin page
        <5>1. i \in Wanted \ shown /\ ~\E row \in page : row.id = i
          BY <1>2, <3>7
        <5> QED  BY <1>5, <5>1
      <4>2. Before(last, Current(i))
        BY <1>2, <3>3, <4>1
      <4>3. /\ Current(last.id) \in Listed /\ Current(last.id).id = last.id
            /\ Current(last.id).task = task[last.id]
        BY <3>5, CurrentFacts
      <4>4. Current(last.id).task.at >= last.task.at
        <5>1. last.task.at \in Nat /\ Current(last.id).task.at \in Nat
          BY <3>5, <4>3, Times
        <5> QED  BY <1>4, <3>5, <4>3, <5>1
      <4> QED  BY <1>4, <3>5, <4>1, <4>2, <4>3, <4>4, Forward
    <3>8. TokenInv'
      BY <1>6, <1>9, <3>4, <3>7 DEF TokenInv, Before
    <3> QED  BY <3>4, <3>6, <3>8 DEF ListInv, NothingSkipped
  <2> QED  BY <2>1, <2>2
<1>12. ReadInv'
  BY <1>8 DEF ReadInv
<1> QED  BY <1>7, <1>10, <1>11, <1>12 DEF IInv

LEMMA StutterKeeps ==
    ASSUME IInv, UNCHANGED vars
    PROVE  IInv'
<1>1. UNCHANGED <<clock, task, list, shown, steady>>
  BY DEF vars, history
<1>2. TaskInv' /\ \A i \in Id : Exists(i)' = Exists(i) /\ task[i].at >= task[i].at
  BY <1>1, CurrentFacts DEF IInv, TaskInv, Exists
<1> QED  BY <1>1, <1>2, WorldKeeps

LEMMA NextKeeps ==
    ASSUME IInv, [Next]_vars
    PROVE  IInv'
  BY CreateKeeps, UpdateKeeps, TickKeeps, FirstPageKeeps, ReadRowsKeeps, StopKeeps, DeliverKeeps,
     NextPageKeeps, StutterKeeps DEF Next, GiveUp, TokenGone

THEOREM Inductive == Spec => []IInv
<1>1. IInv /\ [Next]_vars => IInv'
  BY NextKeeps
<1> QED  BY InitIInv, <1>1, PTL DEF Spec

-----------------------------------------------------------------------------
(* What it means for the code. *)

\* Nobody is shown a task that may_read denies, in any state of the listing.
THEOREM TypeCorrect == Spec => []TypeOK
<1>1. ASSUME IInv PROVE TypeOK
  <2>1. \A i \in shown \cup steady : Exists(i)
    BY <1>1 DEF IInv, TaskInv, ShownInv
  <2> QED  BY <1>1, <2>1 DEF IInv, TaskInv, ShownInv, TypeOK, Stored
<1> QED  BY Inductive, <1>1, PTL

\* A listing that comes to its last page has shown every task that stood still,
\* for any number of tasks, callers, rows a query and tasks a page
\* (list_tasks, src/a2a.rs, goes on after the task the token names).
THEOREM ListingIsComplete == Spec => []NothingSkipped
<1>1. IInv => NothingSkipped
  BY DEF IInv
<1> QED  BY Inductive, <1>1, PTL
-----------------------------------------------------------------------------
(***************************************************************************)
(* The pages of the rows that are due (Backlog.tla): a run that was not    *)
(* shown them all says so before it ends.                                  *)
(***************************************************************************)
Reading == [pc : {"page"}, left : SUBSET Row, full : BOOLEAN]
Sending == [pc : {"send"}, left : SUBSET Row, full : BOOLEAN, row : Row]

DueTypes ==
    /\ status \in [Row -> {"later", "due", "claimed", "served"}]
    /\ run \in [Run -> {NoRun} \cup Reading \cup Sending]
    /\ next \in BOOLEAN
    /\ ghost \subseteq Row

\* Somebody is to look after a row: a message to go on will find it, or a run
\* has it in its page or knows that the page was not all.
Attended(r) ==
    \/ next
    \/ \E p \in Run :
           run[p].pc # "idle" /\ (run[p].full \/ r \in run[p].left)

\* The row of a message is claimed and not due.
DueInv ==
    /\ DueTypes
    /\ \A p \in Run : run[p].pc = "send" => status[run[p].row] # "due"
    /\ \A r \in waiting : r \in Visible /\ Attended(r)

\* A row that the index shows as due stands in every page that is not full.
LEMMA PageOrFull ==
    ASSUME DueInv, NEW p \in Run, ReadPage(p)
    PROVE  \E page \in SUBSET Row : \E full \in BOOLEAN :
               /\ run' = [run EXCEPT ![p] = [pc |-> "page", left |-> page, full |-> full]]
               /\ full \/ Visible \subseteq page
<1>1. PICK page \in Pages :
          Become(p, [pc |-> "page", left |-> page, full |-> Cardinality(page) >= DueLimit])
  BY DEF ReadPage
<1>2. page \subseteq Visible \cup ghost /\ Visible \cup ghost \subseteq Row
  BY <1>1 DEF Pages, Visible, DueInv, DueTypes
<1>3. Cardinality(page) \in Nat
  BY <1>2, BacklogAssumption, FS_Subset, FS_CardinalityType
<1>4. Cardinality(page) < DueLimit => page = Visible \cup ghost
  BY <1>1 DEF Pages
<1> DEFINE full == Cardinality(page) >= DueLimit
<1>5. full \in BOOLEAN /\ (full \/ Visible \subseteq page)
  BY <1>3, <1>4, BacklogAssumption
<1>6. run' = [run EXCEPT ![p] = [pc |-> "page", left |-> page, full |-> full]]
  BY <1>1 DEF Become
<1> HIDE DEF full
<1> QED  BY <1>2, <1>5, <1>6

\* A run that reads a page leaves no row unattended that the index shows, also
\* when it takes the message to go on out of the queue.
LEMMA QueryAttends ==
    ASSUME DueInv, NEW p \in Run,
           run[p].pc = "idle", ReadPage(p), next' \in BOOLEAN,
           UNCHANGED <<status, ghost, hidden>>,
           waiting' \subseteq Visible
    PROVE  DueInv'
<1>1. PICK page \in SUBSET Row : \E full \in BOOLEAN :
          /\ run' = [run EXCEPT ![p] = [pc |-> "page", left |-> page, full |-> full]]
          /\ full \/ Visible \subseteq page
  BY PageOrFull
<1>2. PICK full \in BOOLEAN :
          /\ run' = [run EXCEPT ![p] = [pc |-> "page", left |-> page, full |-> full]]
          /\ full \/ Visible \subseteq page
  BY <1>1
<1> DEFINE job == [pc |-> "page", left |-> page, full |-> full]
<1>3. job \in Reading /\ job.pc # "idle" /\ job.left = page /\ job.full = full
  BY DEF Reading
<1> HIDE DEF job
<1>4. run' = [run EXCEPT ![p] = job] /\ run'[p] = job
  BY <1>2 DEF job, DueInv, DueTypes
<1>5. DueTypes'
  BY <1>3, <1>4 DEF DueInv, DueTypes
<1>6. Visible' = Visible
  BY DEF Visible
<1>7. \A r \in Visible : Attended(r)'
  BY <1>2, <1>3, <1>4 DEF Attended
<1>8. \A q \in Run : run'[q].pc = "send" => run'[q] = run[q]
  BY <1>3, <1>4 DEF DueInv, DueTypes, Reading
<1> QED  BY <1>5, <1>6, <1>7, <1>8 DEF DueInv

\* Rows that stay as they are, or leave the rows that wait; a run that keeps
\* what it knows of them.
Stays(r) ==
    /\ r \in Visible'
    /\ next => next'
    /\ \A p \in Run : run[p].pc # "idle" /\ (run[p].full \/ r \in run[p].left) =>
           next' \/ (run'[p].pc # "idle" /\ (run'[p].full \/ r \in run'[p].left))

LEMMA WaitingStays ==
    ASSUME DueInv, next \in BOOLEAN, NEW r \in waiting, Stays(r)
    PROVE  r \in Visible' /\ Attended(r)'
<1>1. Attended(r)
  BY DEF DueInv
<1>2. CASE next
  BY <1>2 DEF Stays, Attended
<1>3. ASSUME NEW p \in Run, run[p].pc # "idle" /\ (run[p].full \/ r \in run[p].left)
      PROVE  Attended(r)'
  BY <1>3 DEF Stays, Attended
<1> QED  BY <1>1, <1>2, <1>3 DEF Stays, Attended

\* A run that is done with a row, in its page or on its way to a message.
LEMMA RowDone ==
    ASSUME DueInv, NEW p \in Run, NEW r \in Row, NEW job \in Reading \cup Sending,
           run[p].pc # "idle", run' = [run EXCEPT ![p] = job],
           job.left = run[p].left \ {r}, job.full = run[p].full,
           job.pc = "send" => job.row = r /\ status'[r] # "due",
           next' = next, status' \in [Row -> {"later", "due", "claimed", "served"}],
           status'[r] # "due", \A s \in Row \ {r} : status'[s] = status[s],
           ghost' \subseteq Row, hidden' \subseteq hidden,
           waiting' \subseteq waiting \ {r}
    PROVE  DueInv'
<1>1. run \in [Run -> {NoRun} \cup Reading \cup Sending] /\ run'[p] = job
  BY DEF DueInv, DueTypes
<1>2. job.pc # "idle" /\ DueTypes'
  BY <1>1 DEF DueInv, DueTypes, Reading, Sending
<1>3. ASSUME NEW s \in waiting'
      PROVE  s \in Visible' /\ Attended(s)'
  <2>1. s \in Visible /\ s # r /\ s \in waiting /\ next \in BOOLEAN
    BY DEF DueInv, DueTypes
  <2>2. s \in Visible'
    BY <2>1 DEF Visible
  <2>3. Stays(s)
    BY <1>1, <1>2, <2>1, <2>2 DEF Stays
  <2> QED  BY <2>1, <2>3, WaitingStays
<1>4. ASSUME NEW q \in Run, run'[q].pc = "send"
      PROVE  status'[run'[q].row] # "due"
  <2>1. CASE q = p
    BY <1>1, <1>4, <2>1
  <2>2. CASE q # p
    <3>1. run'[q] = run[q] /\ status[run[q].row] # "due" /\ run[q].row \in Row
      BY <1>1, <1>4, <2>2 DEF DueInv, Reading, Sending, NoRun
    <3> QED  BY <3>1
  <2> QED  BY <2>1, <2>2
<1> QED  BY <1>2, <1>3, <1>4 DEF DueInv

\* A run that ends, or a row whose due time is set or comes.
LEMMA OthersKeep ==
    ASSUME DueInv, DueTypes', \A r \in waiting' : r \in waiting /\ Stays(r),
           \A p \in Run : run'[p].pc = "send" => run'[p] = run[p],
           \A p \in Run : run[p].pc = "send" /\ status[run[p].row] # "due" =>
               status'[run[p].row] # "due"
    PROVE  DueInv'
<1>1. \A r \in waiting' : r \in Visible' /\ Attended(r)'
  BY WaitingStays DEF DueInv, DueTypes
<1> QED  BY <1>1 DEF DueInv

LEMMA DueFacts ==
    ASSUME DueInv, NEW p \in Run
    PROVE  /\ run \in [Run -> {NoRun} \cup Reading \cup Sending]
           /\ run[p].pc = "idle" => run[p] = NoRun
           /\ run[p].pc = "page" => run[p] \in Reading
           /\ run[p].pc = "send" => run[p] \in Sending
           /\ Visible \subseteq Row
           /\ status \in [Row -> {"later", "due", "claimed", "served"}]
           /\ ghost \subseteq Row /\ next \in BOOLEAN
           /\ waiting \subseteq Visible
  BY DEF DueInv, DueTypes, NoRun, Reading, Sending, Visible

LEMMA StartKeeps ==
    ASSUME DueInv, NEW p \in Run,
           StartScheduled(p) \/ StartNext(p)
    PROVE  DueInv'
<1>1. /\ run[p].pc = "idle" /\ ReadPage(p) /\ next' \in BOOLEAN
      /\ UNCHANGED <<status, ghost, hidden>>
      /\ waiting' \subseteq Visible
  BY DueFacts DEF StartScheduled, StartNext, At, index
<1> QED  BY <1>1, QueryAttends

LEMMA SkipKeeps ==
    ASSUME DueInv, NEW p \in Run, NEW r \in Row, Skip(p, r)
    PROVE  DueInv'
<1> DEFINE job == [run[p] EXCEPT !.left = @ \ {r}]
<1>1. run[p].pc = "page" /\ run' = [run EXCEPT ![p] = job] /\ status[r] # "due"
  BY DEF Skip, At, Become
<1>2. job \in Reading /\ job.pc = "page" /\ job.left = run[p].left \ {r}
      /\ job.full = run[p].full
  BY <1>1, DueFacts DEF Reading
<1> HIDE DEF job
<1>3. waiting \subseteq waiting \ {r}
  BY <1>1 DEF DueInv, Visible
<1>4. UNCHANGED <<status, ghost, hidden, next, waiting>>
  BY DEF Skip, index
<1> QED  BY <1>1, <1>2, <1>3, <1>4, DueFacts, RowDone

LEMMA SettleKeeps ==
    ASSUME DueInv, NEW p \in Run, NEW r \in Row, Settle(p, r)
    PROVE  DueInv'
<1> DEFINE job == [run[p] EXCEPT !.left = @ \ {r}]
<1>1. /\ run[p].pc = "page" /\ run' = [run EXCEPT ![p] = job]
      /\ status' = [status EXCEPT ![r] = "served"] /\ next' = next
      /\ waiting' = waiting \ {r} /\ hidden' = hidden \ {r}
      /\ ghost' = ghost \cup {r}
  BY DEF Settle, Leaves, At, Become
<1>2. job \in Reading /\ job.pc = "page" /\ job.left = run[p].left \ {r}
      /\ job.full = run[p].full
  BY <1>1, DueFacts DEF Reading
<1> HIDE DEF job
<1>3. /\ status' \in [Row -> {"later", "due", "claimed", "served"}]
      /\ status'[r] # "due" /\ \A s \in Row \ {r} : status'[s] = status[s]
      /\ ghost' \subseteq Row
  BY <1>1, DueFacts
<1> QED  BY <1>1, <1>2, <1>3, RowDone

LEMMA ClaimKeeps ==
    ASSUME DueInv, NEW p \in Run, NEW r \in Row, Claim(p, r)
    PROVE  DueInv'
<1> DEFINE job == [pc |-> "send", left |-> run[p].left \ {r}, full |-> run[p].full,
                   row |-> r]
<1>1. /\ run[p].pc = "page" /\ run' = [run EXCEPT ![p] = job]
      /\ status' = [status EXCEPT ![r] = "claimed"] /\ next' = next
      /\ waiting' = waiting \ {r} /\ hidden' = hidden \ {r}
      /\ ghost' = ghost \cup {r}
  BY DEF Claim, Leaves, At, Become
<1>2. job \in Sending /\ job.row = r /\ job.left = run[p].left \ {r}
      /\ job.full = run[p].full
  BY <1>1, DueFacts DEF Reading, Sending
<1> HIDE DEF job
<1>3. /\ status' \in [Row -> {"later", "due", "claimed", "served"}]
      /\ status'[r] # "due" /\ \A s \in Row \ {r} : status'[s] = status[s]
      /\ ghost' \subseteq Row
  BY <1>1, DueFacts
<1> QED  BY <1>1, <1>2, <1>3, RowDone

LEMMA SendKeeps ==
    ASSUME DueInv, NEW p \in Run, Send(p)
    PROVE  DueInv'
<1> DEFINE r == run[p].row
           job == [pc |-> "page", left |-> run[p].left, full |-> run[p].full]
<1>1. /\ run[p].pc = "send" /\ run' = [run EXCEPT ![p] = job]
      /\ status' = [status EXCEPT ![r] = "served"]
      /\ UNCHANGED <<ghost, hidden, next, waiting>>
  BY DEF Send, At, Become, index
<1>2. /\ r \in Row /\ job \in Reading /\ job.pc = "page"
      /\ job.left = run[p].left /\ job.full = run[p].full
  BY <1>1, DueFacts DEF Reading, Sending
<1>3. status[r] # "due"
  BY <1>1 DEF DueInv
<1> HIDE DEF r, job
<1>4. run'[p] = job /\ \A q \in Run \ {p} : run'[q] = run[q]
  BY <1>1, DueFacts
<1>5. \A s \in Row : status[s] # "due" => status'[s] # "due"
  BY <1>1, <1>2, DueFacts
<1>6. DueTypes'
  BY <1>1, <1>2, DueFacts DEF DueTypes
<1>7. ASSUME NEW s \in waiting
      PROVE  Stays(s)
  <2>1. s \in Visible /\ s # r
    BY <1>3, DueFacts DEF Visible
  <2>2. s \in Visible'
    BY <1>1, <2>1, DueFacts DEF Visible
  <2> QED  BY <1>1, <1>2, <1>4, <2>2 DEF Stays
<1>8. \A q \in Run : run[q].pc = "send" => run[q].row \in Row
  BY DueFacts DEF Sending
<1>9. \A q \in Run : run'[q].pc = "send" => run'[q] = run[q]
  BY <1>2, <1>4
<1> QED  BY <1>1, <1>5, <1>6, <1>7, <1>8, <1>9, OthersKeep

\* A run that ends: after its page, which was perhaps not all, or halfway.
LEMMA EndKeeps ==
    ASSUME DueInv, NEW p \in Run, Finish(p) \/ Fail(p)
    PROVE  DueInv'
<1>1. run' = [run EXCEPT ![p] = NoRun] /\ UNCHANGED <<status, ghost, hidden>>
  BY DEF Finish, Fail, Become, index
<1>2. NoRun.pc = "idle" /\ Visible' = Visible
  BY <1>1 DEF NoRun, Visible
<1>3. run'[p] = NoRun /\ \A q \in Run \ {p} : run'[q] = run[q]
  BY <1>1, DueFacts
<1>4. next' \in BOOLEAN
  <2>1. CASE Finish(p)
    <3>1. run[p] \in Reading
      BY <2>1, DueFacts DEF Finish, At
    <3> QED  BY <2>1, <3>1, DueFacts DEF Finish, GoesOn, Reading
  <2>2. CASE Fail(p)
    BY <2>2, DueFacts DEF Fail
  <2> QED  BY <2>1, <2>2
<1>5. DueTypes'
  BY <1>1, <1>4, DueFacts DEF DueTypes
<1>6. ASSUME NEW s \in waiting'
      PROVE  s \in waiting /\ Stays(s)
  <2>1. CASE Finish(p)
    <3>1. /\ run[p].pc = "page" /\ run[p].left = {} /\ waiting' = waiting
          /\ next' = (next \/ run[p].full)
      BY <2>1 DEF Finish, At, GoesOn
    <3>2. s \in Visible'
      BY <1>2, <3>1, DueFacts
    <3> QED  BY <1>3, <3>1, <3>2 DEF Stays
  <2>2. CASE Fail(p)
    BY <2>2 DEF Fail
  <2> QED  BY <2>1, <2>2
<1>7. \A q \in Run : run'[q].pc = "send" => run'[q] = run[q]
  BY <1>2, <1>3
<1> QED  BY <1>1, <1>5, <1>6, <1>7, OthersKeep

\* The rows and the index move on their own.
LEMMA RowsKeep ==
    ASSUME DueInv, NEW r \in Row, Ripen(r) \/ Again(r) \/ Propagate(r)
    PROVE  DueInv'
<1>1. UNCHANGED <<run, next, waiting>> /\ ghost' \subseteq ghost
  BY DEF Ripen, Again, Propagate, index
<1>2. DueTypes'
  BY <1>1, DueFacts DEF Ripen, Again, Propagate, index, DueTypes, DueInv
<1>3. Visible \subseteq Visible'
  <2>1. CASE Ripen(r)
    <3>1. status[r] # "due"
      BY <2>1 DEF Ripen, Dated
    <3> QED  BY <2>1, <3>1 DEF Ripen, Visible, DueInv, DueTypes
  <2>2. CASE Again(r)
    <3>1. status[r] # "due"
      BY <2>2 DEF Again
    <3> QED  BY <2>2, <3>1 DEF Again, index, Visible, DueInv, DueTypes
  <2>3. CASE Propagate(r)
    BY <2>3 DEF Propagate, Visible
  <2> QED  BY <2>1, <2>2, <2>3
<1>4. \A s \in waiting' : s \in waiting /\ Stays(s)
  <2>1. waiting \subseteq Visible
    BY DEF DueInv
  <2> QED  BY <1>1, <1>3, <2>1 DEF Stays
<1>5. ASSUME NEW p \in Run, run[p].pc = "send", status[run[p].row] # "due"
      PROVE  status'[run[p].row] # "due"
  <2>1. run[p].row \in Row /\ run[p].row \in InHand(p)
    BY <1>5, DueFacts DEF Sending, InHand, At
  <2>2. CASE Ripen(r)
    <3>1. run[p].row # r /\ status' = [status EXCEPT ![r] = "due"]
      BY <2>1, <2>2 DEF Ripen
    <3> QED  BY <1>5, <2>1, <3>1, DueFacts
  <2>3. CASE Again(r) \/ Propagate(r)
    BY <1>5, <2>1, <2>3, DueFacts DEF Again, Propagate
  <2> QED  BY <2>2, <2>3
<1> QED  BY <1>1, <1>2, <1>4, <1>5, OthersKeep

\* The run a page was full for sends itself a message to go on: when nothing
\* runs and no message is left, every row that a scheduled run found due has
\* been handled, unless a run has failed (maintenance, dispatch_pending).
THEOREM PagesAreDrained == BacklogSpec => []DrainedWhenQuiet
<1>1. BacklogInit => DueInv
  <2> SUFFICES ASSUME BacklogInit PROVE DueInv
    OBVIOUS
  <2>1. \A p \in Run : run[p] = NoRun
    BY DEF BacklogInit
  <2>2. NoRun.pc = "idle"
    BY DEF NoRun
  <2>3. DueTypes
    BY DEF BacklogInit, DueTypes
  <2> QED  BY <2>1, <2>2, <2>3 DEF BacklogInit, DueInv
<1>2. DueInv /\ [BacklogNext]_backlogVars => DueInv'
  <2> SUFFICES ASSUME DueInv, [BacklogNext]_backlogVars PROVE DueInv'
    OBVIOUS
  <2>1. ASSUME NEW p \in Run, StartScheduled(p) \/ Work(p) \/ Fail(p)
        PROVE  DueInv'
    <3>1. CASE StartScheduled(p) \/ StartNext(p)
      BY <3>1, StartKeeps
    <3>2. CASE Send(p) \/ Finish(p) \/ Fail(p)
      BY <3>2, SendKeeps, EndKeeps
    <3>3. ASSUME NEW r \in Row, Skip(p, r) \/ Settle(p, r) \/ Claim(p, r)
          PROVE  DueInv'
      BY <3>3, SkipKeeps, SettleKeeps, ClaimKeeps
    <3> QED  BY <2>1, <3>1, <3>2, <3>3 DEF Work
  <2>2. ASSUME NEW r \in Row, Ripen(r) \/ Again(r) \/ Propagate(r)
        PROVE  DueInv'
    BY <2>2, RowsKeep
  <2>3. CASE UNCHANGED backlogVars
    BY <2>3 DEF backlogVars, index, DueInv, DueTypes, Visible, Attended
  <2> QED  BY <2>1, <2>2, <2>3 DEF BacklogNext
<1>3. DueInv => DrainedWhenQuiet
  BY DEF DueInv, Attended, DrainedWhenQuiet, NoRun
<1> QED  BY <1>1, <1>2, <1>3, PTL DEF BacklogSpec
=============================================================================
