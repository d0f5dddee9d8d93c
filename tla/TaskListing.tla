----------------------------- MODULE TaskListing -----------------------------
(***************************************************************************)
(* A client that lists its tasks page by page (list_tasks, src/a2a.rs)     *)
(* while the tasks move.  Every page scans the rows of the agent in the    *)
(* order of their identifiers, a few per query, and then shows a part of   *)
(* what the caller may read, the latest first.  The token of the next page *)
(* names the last task shown and no position, and a task that is updated   *)
(* moves to the front.  Tasks of the owner's REST API have no A2A data:     *)
(* nobody reads them here, and they are left out.                          *)
(***************************************************************************)
EXTENDS Integers, FiniteSets, FiniteSetsExt

CONSTANTS
    MaxTasks,   \* bound: tasks of the agent; a task is its place in the order
    Caller,     \* who may have sent a task
    Owner,      \* the principal that reads every task
    Principal,  \* who lists
    QueryLimit, \* rows of one query of the store
    ScanLimit,  \* rows at which a listing gives up
    PageSize,   \* tasks of one page
    MaxTime     \* bound: the clock

ASSUME ListingAssumption ==
    /\ {MaxTasks, ScanLimit, MaxTime} \subseteq Nat
    /\ {QueryLimit, PageSize} \subseteq Nat \ {0}
    /\ Owner \notin Caller /\ Principal \subseteq Caller \cup {Owner}

VARIABLES
    clock,
    task,    \* the rows: who sent the task, its state, when it was updated
    list,    \* the client and the page in progress
    shown,   \* history: the tasks of the listing delivered so far
    steady   \* history: those there when it began and not written since

history == <<shown, steady>>
vars == <<clock, task, list, history>>

Id     == 1 .. MaxTasks
NoId   == 0
State  == {"working", "completed"}
NoTask == [caller |-> Owner, state |-> "none", at |-> 0]
Exists(i) == task[i].state # "none"

\* The query, which the scope of a token binds: the principal, and no filter
\* or one that a task enters and leaves with its updates.
Query   == [principal : Principal, status : {State, {"completed"}}]
Idle    == [pc |-> "idle"]

Init ==
    /\ clock = 0
    /\ task = [i \in Id |-> NoTask]
    /\ list = Idle
    /\ shown = {} /\ steady = {}

-----------------------------------------------------------------------------
(* The tasks. *)

Create(i, caller) ==
    /\ ~Exists(i)
    /\ task' = [task EXCEPT ![i] = [caller |-> caller, state |-> "working", at |-> clock]]
    /\ UNCHANGED <<clock, list, history>>

\* A turn ends or a message continues the conversation.
Update(i) ==
    /\ Exists(i)
    /\ \E s \in State : task' = [task EXCEPT ![i].state = s, ![i].at = clock]
    /\ steady' = steady \ {i}
    /\ UNCHANGED <<clock, list, shown>>

Tick ==
    /\ clock < MaxTime
    /\ clock' = clock + 1
    /\ UNCHANGED <<task, list, history>>

-----------------------------------------------------------------------------
(* The listing. *)

\* may_read: the owner reads everything, a caller what it has sent.
MayRead(principal, t) == principal = Owner \/ t.caller = principal

\* The filter of the query.
Selects(query, t) == MayRead(query.principal, t) /\ t.state \in query.status

\* A page begins: nothing is scanned, and it goes on after a task or none.
Scan(query, after) ==
    [pc |-> "scan", query |-> query, after |-> after, upto |-> 0, scanned |-> 0,
     results |-> {}]

FirstPage(query) ==
    /\ list.pc = "idle"
    /\ list' = Scan(query, NoId)
    /\ steady' = {i \in Id : Exists(i)}
    /\ UNCHANGED <<clock, task, shown>>

\* An error, or the client stops.
Stop ==
    /\ list' = Idle
    /\ shown' = {} /\ steady' = {}
    /\ UNCHANGED <<clock, task>>

\* The rows after the last one read; the store answers with at most
\* QueryLimit, and with a key to go on when there are more or it cannot tell.
NextRows ==
    LET after == {i \in Id : Exists(i) /\ i > list.upto}
    IN  {i \in after : Cardinality({j \in after : j < i}) < QueryLimit}

\* One query.  What was read so far is as it was when it was read; only what
\* the query selects is kept, everything counts.
ReadRows ==
    LET last    == Max(NextRows \cup {list.upto})
        scanned == list.scanned + Cardinality(NextRows)
        read    == {[id |-> i, task |-> task[i]] : i \in NextRows}
        results == list.results \cup {row \in read : Selects(list.query, row.task)}
        more    == \E i \in Id : Exists(i) /\ i > last
        full    == Cardinality(NextRows) = QueryLimit
    IN  /\ list.pc = "scan"
        /\ \/ /\ scanned > ScanLimit \/ (scanned = ScanLimit /\ full)
              /\ Stop
           \/ /\ full /\ scanned < ScanLimit
              /\ list' = [list EXCEPT !.upto = last, !.scanned = scanned, !.results = results]
              /\ UNCHANGED <<clock, task, history>>
           \/ /\ ~more /\ scanned <= ScanLimit
              /\ list' = [pc |-> "page", query |-> list.query, after |-> list.after,
                          results |-> results]
              /\ UNCHANGED <<clock, task, history>>

\* The eight seconds are over, the store fails, or the client stops.
GiveUp == list.pc # "idle" /\ Stop

\* The latest first; tasks of the same second in the order of identifiers.
Before(a, b) == a.task.at > b.task.at \/ (a.task.at = b.task.at /\ a.id < b.id)

\* Mutant: the page goes on after as many tasks as were shown.
RestByOffset ==
    {row \in list.results : Cardinality({r \in list.results : Before(r, row)}) >= Cardinality(shown)}

\* What comes after the task the token names, where that task is now.
Rest ==
    {row \in list.results : list.after # NoId =>
        \E last \in list.results : last.id = list.after /\ Before(last, row)}

\* "pageToken task changed; restart listing"
TokenGone ==
    /\ list.pc = "page"
    /\ list.after # NoId /\ ~\E row \in list.results : row.id = list.after
    /\ Stop

\* The page is the front of the rest: PageSize tasks, fewer when they are
\* large, one at least.  Without a rest to come there is no token.
Deliver ==
    /\ list.pc = "page"
    /\ list.after = NoId \/ \E row \in list.results : row.id = list.after
    /\ \E page \in SUBSET Rest :
          /\ Cardinality(page) <= PageSize
          /\ page = {} => Rest = {}
          /\ \A row \in page, other \in Rest \ page : Before(row, other)
          /\ list' = IF page = Rest
                        THEN [pc |-> "done", query |-> list.query]
                        ELSE [pc |-> "next", query |-> list.query,
                              after |-> (CHOOSE row \in page :
                                            \A other \in page \ {row} : Before(other, row)).id]
          /\ shown' = shown \cup {row.id : row \in page}
    /\ UNCHANGED <<clock, task, steady>>

\* The client comes back with the token; another query is refused with it.
NextPage ==
    /\ list.pc = "next"
    /\ list' = Scan(list.query, list.after)
    /\ UNCHANGED <<clock, task, history>>

Next ==
    \/ \E i \in Id : Update(i) \/ \E caller \in Caller : Create(i, caller)
    \/ Tick
    \/ \E query \in Query : FirstPage(query)
    \/ ReadRows \/ GiveUp \/ TokenGone \/ Deliver \/ NextPage

Spec == Init /\ [][Next]_vars

-----------------------------------------------------------------------------
(* Properties. *)

\* A caller is shown its own tasks only, and the history is one of tasks that
\* exist.
TypeOK ==
    /\ clock \in 0 .. MaxTime
    /\ task \in [Id -> [caller : Caller \cup {Owner}, state : State \cup {"none"},
                        at : 0 .. MaxTime]]
    /\ \A i \in shown \cup steady : Exists(i)
    /\ \A i \in shown : list.query.principal \in {Owner, task[i].caller}

\* When the last page has come, every task that was there at the beginning,
\* that the query selects, and that nobody has written meanwhile was shown,
\* however the others moved between the queries and between the pages.
NothingSkipped ==
    list.pc = "done" => \A i \in steady : Selects(list.query, task[i]) => i \in shown
=============================================================================
