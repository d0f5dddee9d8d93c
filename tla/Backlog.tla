------------------------------- MODULE Backlog -------------------------------
(***************************************************************************)
(* How the daily maintenance and the dispatcher find the rows that are due *)
(* (maintenance and dispatch_pending, src/worker.rs; due, src/store.rs).   *)
(* A run asks an index for the rows due longest, gets one page of them,    *)
(* and sends itself a message to go on when the page was full.  The index  *)
(* follows the table later: it still shows rows that were handled, and     *)
(* does not show yet what has just become due.  Each row a run handles is  *)
(* read and swapped first, with nothing that others could see in between;  *)
(* then its message is sent, which may fail and end the run.  Some names   *)
(* say Backlog, so that PagingProofs can extend TaskListing beside it.     *)
(***************************************************************************)
EXTENDS Integers, Sequences, FiniteSets, SequencesExt

CONSTANTS
    Row,        \* connections, or tasks, of all agents
    Run,        \* invocations that maintain or dispatch
    DueLimit,   \* rows due() returns
    MaxFaults   \* bound: runs that end halfway

ASSUME BacklogAssumption ==
    IsFiniteSet(Row) /\ DueLimit \in Nat \ {0} /\ MaxFaults \in Nat

VARIABLES
    status,     \* of each row: due later, due, claimed by a run, served
    queue,      \* the rows that are due, the one due longest first
    ghost,      \* rows the index still shows although they are not due
    hidden,     \* rows the index does not show although they are due
    run,        \* the runs: what is left of their page
    next,       \* whether a message to go on is in the queue
    waiting,    \* history: rows a scheduled run found due and nobody handled
    faults      \* how many faults there were

index       == <<ghost, hidden>>
backlogVars == <<status, queue, index, run, next, waiting, faults>>

NoRun == [pc |-> "idle"]

BacklogInit ==
    /\ status = [r \in Row |-> "later"]
    /\ queue = <<>>
    /\ ghost = {} /\ hidden = {}
    /\ run = [p \in Run |-> NoRun]
    /\ next = FALSE
    /\ waiting = {}
    /\ faults = 0

At(p, pc) == run[p].pc = pc
Become(p, state) == run' = [run EXCEPT ![p] = state]

Visible == {r \in Row : status[r] = "due" /\ r \notin hidden}

\* due(): at most DueLimit entries of the index, among the rows that are due
\* those due longest.
Pages ==
    {page \in SUBSET (Visible \cup ghost) :
        /\ Cardinality(page) <= DueLimit
        /\ Cardinality(page) < DueLimit => page = Visible \cup ghost
        /\ \A r \in page \cap Visible, s \in Visible \ page :
               \E i, j \in DOMAIN queue : i < j /\ queue[i] = r /\ queue[j] = s}

ReadPage(p) ==
    \E page \in Pages :
        Become(p, [pc |-> "page", left |-> page, full |-> Cardinality(page) >= DueLimit])

\* The schedule.
StartScheduled(p) ==
    /\ At(p, "idle")
    /\ ReadPage(p)
    /\ waiting' = waiting \cup Visible
    /\ UNCHANGED <<status, queue, index, next, faults>>

\* The message of a full page, half a minute later.
StartNext(p) ==
    /\ At(p, "idle") /\ next
    /\ ReadPage(p)
    /\ next' = FALSE
    /\ UNCHANGED <<status, queue, index, waiting, faults>>

\* The row leaves the rows that are due; the index shows it a while longer.
Leaves(r) ==
    /\ queue' = SelectSeq(queue, LAMBDA s : s # r)
    /\ ghost' = ghost \cup {r}
    /\ hidden' = hidden \ {r}
    /\ waiting' = waiting \ {r}

\* The row was handled or claimed since the index showed it.
Skip(p, r) ==
    /\ At(p, "page") /\ r \in run[p].left
    /\ status[r] # "due"
    /\ Become(p, [run[p] EXCEPT !.left = @ \ {r}])
    /\ UNCHANGED <<status, queue, index, next, waiting, faults>>

\* Nothing to send: the task is over or its agent deleted, the connection is
\* not connected, the lease of a running task has run out.
Settle(p, r) ==
    /\ At(p, "page") /\ r \in run[p].left
    /\ status[r] = "due"
    /\ status' = [status EXCEPT ![r] = "served"]
    /\ Leaves(r)
    /\ Become(p, [run[p] EXCEPT !.left = @ \ {r}])
    /\ UNCHANGED <<next, faults>>

\* The row gets a due time five minutes away before its message is sent.
Claim(p, r) ==
    /\ At(p, "page") /\ r \in run[p].left
    /\ status[r] = "due"
    /\ status' = [status EXCEPT ![r] = "claimed"]
    /\ Leaves(r)
    /\ Become(p, [pc |-> "send", left |-> run[p].left \ {r}, full |-> run[p].full, row |-> r])
    /\ UNCHANGED <<next, faults>>

Send(p) ==
    /\ At(p, "send")
    /\ status' = [status EXCEPT ![run[p].row] = "served"]
    /\ Become(p, [pc |-> "page", left |-> run[p].left, full |-> run[p].full])
    /\ UNCHANGED <<queue, index, next, waiting, faults>>

\* Mutant: nothing is left to do after a page.
GoesOnNever(p) == next

\* A full page may not be all of them.
GoesOn(p) == next \/ run[p].full

Finish(p) ==
    /\ At(p, "page") /\ run[p].left = {}
    /\ next' = GoesOn(p)
    /\ Become(p, NoRun)
    /\ UNCHANGED <<status, queue, index, waiting, faults>>

\* A message cannot be sent, the store fails, or the process ends: the rest of
\* the page is lost, a claimed row was not sent.  What started the run may be
\* delivered again.
Fail(p) ==
    /\ faults < MaxFaults /\ faults' = faults + 1
    /\ ~At(p, "idle")
    /\ next' \in {next, TRUE}
    /\ waiting' = {}
    /\ Become(p, NoRun)
    /\ UNCHANGED <<status, queue, index>>

-----------------------------------------------------------------------------
(* The rows and the index. *)

\* Mutant: a claim takes the due time away.
DatedUnclaimed == {"later"}

\* The rows with a due time to come: a claim sets one, too.
Dated == {"later", "claimed"}

InHand(p) == CASE At(p, "idle") -> {} [] At(p, "page") -> run[p].left
               [] At(p, "send") -> run[p].left \cup {run[p].row}

\* The due time comes, later than that of all rows that are due already.  It
\* was set five minutes before: the index has caught up since, and the runs
\* that had the row in hand then are over.
Ripen(r) ==
    /\ status[r] \in Dated
    /\ r \notin ghost
    /\ \A p \in Run : r \notin InHand(p)
    /\ status' = [status EXCEPT ![r] = "due"]
    /\ queue' = Append(queue, r)
    /\ hidden' = hidden \cup {r}
    /\ UNCHANGED <<ghost, run, next, waiting, faults>>

\* A served row gets a new due time: a message was lost, another turn began,
\* the connection was refreshed.
Again(r) ==
    /\ status[r] = "served"
    /\ status' = [status EXCEPT ![r] = "later"]
    /\ UNCHANGED <<queue, index, run, next, waiting, faults>>

\* The index catches up with a row.
Propagate(r) ==
    /\ r \in ghost \cup hidden
    /\ ghost' = ghost \ {r} /\ hidden' = hidden \ {r}
    /\ UNCHANGED <<status, queue, run, next, waiting, faults>>

Work(p) ==
    \/ StartNext(p) \/ Send(p) \/ Finish(p)
    \/ \E r \in Row : Skip(p, r) \/ Settle(p, r) \/ Claim(p, r)

BacklogNext ==
    \/ \E p \in Run : StartScheduled(p) \/ Work(p) \/ Fail(p)
    \/ \E r \in Row : Ripen(r) \/ Again(r) \/ Propagate(r)

\* The schedule comes round, a run that has begun goes on, the index catches
\* up.  Faults end.
Fairness ==
    /\ \A p \in Run : WF_backlogVars(StartScheduled(p)) /\ WF_backlogVars(Work(p))
    /\ \A r \in Row : WF_backlogVars(Ripen(r)) /\ WF_backlogVars(Propagate(r))

BacklogSpec == BacklogInit /\ [][BacklogNext]_backlogVars
FairSpec == BacklogSpec /\ Fairness

-----------------------------------------------------------------------------
(* Properties. *)

\* The queue holds the rows that are due, once each, and the index is wrong
\* only about rows that it may be wrong about.
BacklogTypeOK ==
    /\ ToSet(queue) = {r \in Row : status[r] = "due"}
    /\ Len(queue) = Cardinality(ToSet(queue))
    /\ hidden \subseteq ToSet(queue) /\ ghost \cap ToSet(queue) = {}

\* When nothing runs and no message to go on is left, every row that was due
\* at a scheduled run has been handled, however many pages they filled, unless
\* a run has failed ("so later pages cannot starve behind the first 100
\* results or stale index entries", src/worker.rs, maintenance).
DrainedWhenQuiet == (\A p \in Run : run[p] = NoRun) /\ ~next => waiting = {}

\* Every row that is due is served in the end, also after runs that failed.
DueIsServed == \A r \in Row : status[r] = "due" ~> status[r] = "served"
=============================================================================
