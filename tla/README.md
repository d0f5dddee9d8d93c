# A2A agents: specifications, model checking and proofs

These modules describe the parts of the hosted agent service (`src/*.rs`) in
which several processes write the same rows, and what can be relied on whatever
order they run in and wherever they stop. TLC checks every module on small
instances; TLAPS proves their safety properties for every instance.

## 1. Inventory

The service is two Lambda functions, an API (30 s per request) and a worker
(300 s per invocation), which share nothing but one DynamoDB table and one SQS
queue. There is no lock: every write is conditional on the version of the row
its writer read (`store.rs`), and multi-row writes are transactions of such
conditions. All difficulty of the system comes from that: what was read may be
old when it is used, the queue delivers at least once, an invocation may die
between any two steps, and a request is repeated when its response is lost.

| Component | State | Operations | What makes it correct |
| --- | --- | --- | --- |
| Store (`store.rs`) | rows with a version, a due time, an expiry | get, put, transaction, list, due | compare-and-swap, all or nothing |
| Tasks (`api.rs`, `a2a.rs`, `worker.rs`, `app.rs`) | `TASK#` rows, the queue, `META.deleted` | create_task, send_message, cancel_task, run_task, finish_task, dispatch_pending, delete_agent | a turn runs at most once, nothing stays queued or running, a conversation keeps its shape |
| Receipts (`api.rs`, `a2a.rs`) | `IDEMPOTENCY#`, `A2AMESSAGE#` rows | create_task, send_message | a request is accepted once and its retries get the same answer |
| Budget (`budget.rs`, `engine.rs`) | `BUDGET` and `RESERVATION` rows | reserve, converse, settle | the ledger is the sum of its receipts and stays within the limit |
| Connections (`api.rs`, `worker.rs`, `oauth_store.rs`, `connectors/oauth.rs`) | `CONN#`, `CREDENTIALS#`, `LOCK#`, `OAUTH#` rows; the provider's grant | authorize, callback, disconnect, maintenance, refresh_connection, tasks that refresh | a disconnect is final, a rotated token is not lost, a stale refusal harms nothing |
| Agents, skills, cards (`api.rs`, `cards.rs`) | `META`, `SKILL#`, `CARD` rows | create, update, rotate_key, delete, save_skill, remove_skill, control_proof, republish | a proof is for the revision it names; the card follows the skills |
| Engine (`engine.rs`, `Executor` in `worker.rs`) | transcript, tool registry; server definitions, permissions | run, tool batches, rediscovery, questions, checkpoints | no tool call is repeated, lost from the transcript or sent to a changed definition |
| JWKS cache (`a2a_auth.rs`) | cached keys, time of the last attempt | key, verify | bounded traffic, withdrawn keys go, genuine callers are let in |
| Task listing (`a2a.rs`) | none; the token of the client | list_tasks | a task that stands still is not skipped |
| Backlog (`worker.rs`, `store.rs`) | due times, the index over them | maintenance, dispatch_pending, due | rows behind a full page are not forgotten |
| MCP sessions, network guard, Bedrock, crypto, Terraform | none that survives a request | I/O and pure functions | not modelled, see section 8 |

How they interact: `create_task` and `send_message` write a queued `TASK#` row
with its receipt and send a message; a worker claims the row, runs the engine
(which reserves and settles in the budget and opens the connections of the
task's skills), and records the outcome; `dispatch_pending` (every five
minutes) finds queued and abandoned tasks through the `due` index;
`maintenance` (daily) finds due connections and enqueues one refresh each.
Deleting an agent sets `META.deleted` and then nulls its other rows one by one.

The hard behaviours, line by line, are the hazards of `PROJECT.json`.

## 2. Modules

| Module | Kind | What it is |
| --- | --- | --- |
| `Store` | operators | the comparison of a conditional write, the row it leaves, a transaction |
| `TaskSpec` | abstract specification | the status machine of a task and "each turn starts at most once" |
| `Tasks` | component | task rows, API calls, worker invocations, dispatcher, deletion, queue |
| `BudgetSpec` | abstract specification | accounts that are reserved under a limit and settled once |
| `SubmissionSpec` | abstract specification | a key is accepted once, for one body and one task, and a client is told only what was accepted |
| `ConnectionSpec` | abstract specification | only the last tokens of flows that came back are stored, and they are given up only when refused |
| `AgentSpec` | abstract specification | configuration and card change in one step, receipts end with any change, a deletion leaves nothing |
| `Budget` | component | reserve, the paid call and settle of concurrent callers |
| `Submission` | component | receipts and tasks under repeated requests |
| `Connection` | component | one OAuth connection, its lease, its flows and its provider |
| `Engine` | component | the model and tool loop of a task over the turns of its conversation |
| `CardFence` | component | metadata, skills, signed card and control receipts of one agent |
| `JwksCache` | component | the cached keys of the token issuer in one runtime |
| `TaskListing` | component | a listing in pages over tasks that move |
| `Backlog` | component | how the scheduled runs work through the rows that are due |
| `TasksProofs`, `BudgetProofs`, `SubmissionProofs`, `ConnectionProofs`, `CardFenceProofs` | proofs | the inductive invariant, the safety properties, and the refinement of `TaskSpec`, `BudgetSpec`, `SubmissionSpec`, `ConnectionSpec` or `AgentSpec` |
| `EngineProofs`, `JwksCacheProofs` | proofs | the inductive invariant of the component and its safety properties |
| `PagingProofs` | proofs | the same for `TaskListing` and for `Backlog` |
| `MCTasks`, `MCBudget`, `MCSubmission`, `MCConnection`, `MCEngine`, `MCCardFence`, `MCJwksCache`, `MCTaskListing`, `MCBacklog` | instances | constants and symmetry for TLC |

`Tasks`, `Budget`, `Submission`, `Connection` and `CardFence` all build their
writes from `Store`, so a change of what a conditional write means is seen by all of them.

### How the modules correspond to the code

* A handler is a sequence of actions, cut where another process can make a
  difference. A read followed by a compare-and-swap of the *same* row is one
  action: if another write comes in between, the swap fails, and a failed swap
  changes nothing. Reads of *other* rows stay separate actions (META in
  `Tasks!CheckAgent`, the skills in `Submission!ReadSkills`, the credentials
  in `Connection!ReadCredentials`), because their result may be stale when
  the write succeeds.
* `[ver |-> 0]` is the missing row (`Absent`), so `put(row, None)` and
  `put(row, Some(v))` are one operator.
* Data is reduced to what decides: a conversation is the number of its
  messages, a fingerprint is a model value, tokens are the flow they came from
  and how often they were rotated, an instant is a countdown or one of
  "now"/"later".
* An ambiguous write (the store wrote, the caller saw an error) is `Crash` in
  `Tasks` and `Connection`, `LoseReservation`/`LoseSettlement` in `Budget`,
  `LoseCommit` in `Submission`. A transaction cancelled by another one in
  flight (`TransactionConflict`) is `Submission!Collide` and the second
  alternative of the two commits of `Budget`.
* `Tasks`: an API handler reads META and then its task row; only META can be
  stale when the write succeeds, hence `Admit` and one conditional write. The
  queue is a set from which messages vanish at any time (`DropMessage`) and to
  which reception does not remove (at least once). `due` is read from an
  eventually consistent index, but the dispatcher reads every candidate again,
  so any row may be a candidate and the guard is on the row. `starts` and
  `late` record which turns were executed and which were queued after the
  deletion; they steer nothing.
* `Submission` gives one course to both handlers: with an API key the task is
  named by the key, with a message id it is named by the request. The agent is
  alive; deletion is in `Tasks`. `create_task` without a key is not retried
  and is covered by `Tasks!CreateTask`.
* `Connection` is one OAuth connection with refresh tokens, of a living agent.
  Bearer and open connections have no protocol: one put each. Discovery may
  fail anywhere, which is the `Abort`, `Fails` and `Refreshed(p, "transient")`
  alternatives. The local mutex of a cloned store serialises one process only
  and every process here is its own. `list_tools` behaves like a task that
  records no refusal.
* `Engine` follows `Engine::run` of one task, turn after turn. One request with
  its reservation, response and settlement is one action, because nothing the
  loop uses can change meanwhile (`registry` is local); the ledger is in
  `Budget`. A call is three steps that others interleave with: the checks of
  the loop and of `Executor::execute` (`Permit`, `Refuse`), the call itself
  (`Execute`, `LoseCall`) and the rediscovery (`Discover`, `List`, `Grant`),
  with the permissions read again after the list. A definition is a number, a
  response is a sequence of calls, a message the identifiers it uses and
  answers. An empty identifier is refused like a repeated one. All limits in
  bytes, tokens, tools and money are outcomes (`ModelFails`,
  `DiscoveryFails`), except the size of a transcript, which `MaxMessages`
  stands for. A deleted agent refuses like a lost connection. `turn` moves on
  when the question is asked; the code does so when the user replies
  (`send_message`), and in between nothing reads it. `tools` is what
  the next request shows (`ModelRequest.tools`), `offered` the copy a batch
  is checked against. `executed`, `told`, `shown`, `latest`, `reserved`
  and `uncertain` record what reached the outside and steer nothing.
* `CardFence`: a handler reads META, then what it needs row by row (the pages
  of a list are no snapshot), waits for its signature and writes in one
  transaction (`Publish`, `Issue`). `rotate_key` and the first write of a
  deletion are a read and a swap of META alone, hence one action; the deletion
  then lists and clears like the one in `Tasks`. A text is a model value, a key
  the number of rotations; a receipt keeps the revision it names, the version
  of the card it digested and the key it was issued under. `publish-cards` may
  start at any time. Agents from before cards were signed have META only.
* `JwksCache`: the mutex is held from the decision to fetch to the end of the
  fetch, so a request that needs no fetch is a function of the cache
  (`Answer`), and time does not pass the time limit of a fetch. The issuer's
  answer and the moment it is stored are two steps. Another runtime has its own
  cache.
* `TaskListing`: rows are queried in the order of identifiers, each query is a
  step, and what was read stays as it was read. Pages follow the order of
  update times. The byte limits end a page early (any part of the rest, one
  task at least) or the listing (`Stop`); contexts and time filters select like
  states.
* `Backlog` sees only whether a row is due, claimed or served; the rows are
  tasks or connections. `ghost` and `hidden` are the two ways the index is
  late. A run reads and swaps each row in one action and sends in another.
  `Ripen` says that a due time is minutes away when it is set: by then the
  index shows the row as it was, and runs that had it in hand are over.

## 3. What is checked

| Run | Instance | Properties |
| --- | --- | --- |
| `tasks` | one conversation of two turns, two invocations, one API call at a time, one crash, versions to 8 | see below |
| `tasks_live` | one task without a conversation, two invocations, one crash, versions to 3, under `FairSpec` and without symmetry | `QueuedIsTaken`, `RunningEnds` |
| `tasks_delete` | one task, one worker | finding `DeletionClearsRecords` |
| `budget` | three callers, two with the same reservation id, two months, two amounts, two costs, two attempts | see below |
| `submission` | three requests, one idempotency key, two message ids, two bodies, two skill changes | see below |
| `connection` | two invocations of any kind, two flows, two rotations, one fault, connection versions to 5, lease versions to 6 | see below |
| `engine` | two turns of three requests each, batches of up to two calls with three identifiers, two tools on two connectors with two definitions each, transcripts to seven messages, one change of definition, permission or connection; also as an API task | see below |
| `card_fence` | two handlers, two skills, two texts, two receipts, META to version 3 | see below |
| `jwks_cache` | two requests, two key identifiers, one key at a time, a life of three ticks, a cool-down of two, a time limit of one, seven ticks | see below |
| `task_listing` | three tasks of two callers, listed by one of them or the owner, one row a query, one task a page, two instants | see below |
| `backlog` | three rows, pages of one row, two runs, one that fails, under `FairSpec` | see below |
| `connection_flow` | the same as `connection` | finding `CallbackOfNewFlow` |

**Tasks.** `OneStartPerTurn`: no turn of a task is executed twice, whatever
the queue delivers and whoever dies. `SweepableIffLive`: the maintenance index
holds exactly the queued and running tasks, so an abandoned one is found and
`clear_due` never has work on a task row. `HistoryFollowsTurn`: the messages of
a conversation alternate and leave room for the answer. `LateTurnsNeverStart`:
a turn that a handler or a sweep admitted before the deletion queues, or queues
again, after it is never executed. The claim compares the task row only, so
this rests on the order in which the worker reads: the task row, then META.
A turn that was queued before may still run; the code allows that.
`ImplementsTaskSpec`: only documented status changes, an ended task stays as it
ended. `QueuedIsTaken`, `RunningEnds`: nothing is stuck.

**Budget.** `LedgerBalances`: the ledger of a month is the sum of its receipts
in every state. `WithinLimit`: it passes the limit only by what calls cost more
than they reserved. `OneCallPerReservation`: an id authorizes one call.
`UncertainKeepsReservation`: a call without an answer is never refunded.
`ImplementsBudgetSpec`: together they behave like accounts that are reserved
under the limit and settled once, in their own month.

**Submission.** `OncePerKey`: a repeated request adds one message to one task
or none. `ReceiptIffAccepted`: receipt and message exist together.
`AnswersAgree`: everybody answered under a key asked for the same and is told
the same task. `RetryIsAnswered`: a repetition of an accepted request is never
refused, whatever happened to the skills or the task since.
`ImplementsSubmissionSpec`: seen from outside, a key is accepted once, in the
step that puts its message into a task that is new or asked for one, and every
answer names what was accepted by then under the key that was sent.

**Connection.** `DisconnectForgets`: after a disconnect was answered no refresh
or callback in flight restores credentials. `ConnectedIsKept`: status and
credentials change together, and a connected connection has a maintenance date. `RotationStored`: without faults the last
token of the provider is stored, or in the hands of the owner of the lease.
`RefusalClearsRefused`: while connected, good credentials are never cleared by
a refusal of older ones. `ImplementsConnectionSpec`: with the provider in view,
what is stored is always the last token of a flow that came back, no matter how
refreshes, callbacks and a disconnect overlap or die; tokens that work are
given up, together with the status, only when the provider refuses them.

**Engine.** `SendsWhatWasShown`: a call is sent only with the definition that
the last request to the model contained, and only while it is the one its
server listed last, although earlier calls of its batch rediscover tools,
replace definitions and permissions, or lose a connector. `ExecutedOnce`: no identifier reaches a server twice over
all turns of the conversation. `CheckpointKeepsActions`: the transcript a
conversation waits with is one the next run accepts, and has the result of
every action taken. `UncertaintyStops`: after an unknown outcome, or a failed
rediscovery after an action, nothing is called, requested or stored.
`NothingUnreported`: a run that ends by its last turn, a question or an answer
has told the model every result; a run stopped by a size limit may not have.
`ReservedOnce`: requests never share a reservation id.

**CardFence.** `CardMatchesConfiguration`: the card of a living agent shows its
name and skills as they are stored now, whichever handlers overlapped.
`ActiveProofAttests`: an active control receipt is for the card that is served
and the key that is valid, and is the only one. `DeletionUnpublishes`: after a
deletion was answered no handler admitted before brings a card, a skill or a
receipt back; this component is free of the loss that `tasks_delete` shows,
because every one of its writers compares META. `KeyHoldsAtCommit`: nothing is
written under a key that was rotated or revoked meanwhile.
`ImplementsAgentSpec`: readers of the card and of a receipt's status cannot
tell the handlers apart from ones that change configuration and card in one
step and end every active receipt with it.

**JwksCache.** `FetchesBounded`: of three fetches in a row the last starts a
cool-down after the first, whatever the callers send. `AcceptedWasPublished`: a withdrawn key is accepted
no longer than a cache lives and a fetch lasts. `RefusalsHaveCause`: a good
token is refused only right after its key was published or a fetch failed; the
misses of others do not shut it out, and the request that fetched is refused on
what it brought only for a key published while its fetch was in flight.

**TaskListing.** `NothingSkipped`: a listing that reaches its last page has
shown every task that matched throughout, although others were created,
changed and moved between queries and pages, the one the token names included.

**Backlog.** `DrainedWhenQuiet`: when a scheduled run and the messages it sent
to itself are over, every row it could see is handled, however many pages they
filled. `DueIsServed`: every row that is due is served in the end, also when a
run fails after its claim.

### Findings

* `tasks_delete`: `delete_agent` ignores the conflict of each put
  (`api.rs:319`), so a record written between the list and its put survives a
  deletion that answers 204. `docs/api.md:136` says the deletion "clears
  private records".
* `connection_flow`: a second `authorize` leaves the state of the first flow in
  force; its callback is finished with the second flow's configuration and the
  connection is reported connected with the first grant. The comment in
  `connectors/oauth.rs:155-156` says the checks "bind this callback to the new
  flow".

### Bounds, and why they are enough

`MaxVersion`, `MaxCalls`, `MaxCrashes`, `MaxTurn` (`Tasks`), `LastMonth`,
`MaxTries` (`Budget`), `MaxChanges` (`Submission`), `MaxFlows`, `MaxTurns`,
`MaxVersion`, `MaxLease`, `MaxFaults` (`Connection`), `MaxBatch`, `MaxTurns`,
`MaxVersion`, `MaxChanges` (`Engine`), `MaxVersion` (`CardFence`), `MaxTime`
(`JwksCache`, `TaskListing`), `MaxTasks` (`TaskListing`), `MaxFaults`
(`Backlog`) only stop new work from starting. Two invocations and one crash are what the races need: a stale
holder and whoever replaced it. Two turns show a completion of an old turn
against a new one. Two months show a rollover between reserve and settle; two
attempts show a retry and its exhaustion (the code has twenty). Three callers
are a pair with the same reservation and an independent competitor. Two flows
are a superseded one and its successor; two rotations a stale token and its
two successors. `Lease` and `Retry` are counted down in single ticks; only
their order matters. Three requests per run leave room for two batches and
their report; two calls in a batch are one that changes the definitions and one
made before; three identifiers are two used and a fresh one. `MaxMessages` is
odd, so that an answer can be the message too many, as it can with the code's
limit in bytes.
Two handlers are a stale one and the one that overtook it; two skills are a read
before and a read after a change; two receipts a superseded one and its
successor. Seven ticks are two lives of the key cache and a cool-down. Three
tasks in pages of one are a task shown, the one skipped and the one that moves;
`ScanLimit` is reached by three. Three rows in pages of one are two pages after
the first; `DueLimit` is 100 in the code, and only whether a page is full matters.
`Tasks!Replaceable` keeps the version bound from creating a loss the code does
not have: at the bound a queued task keeps its message.

`CHECK_DEADLOCK FALSE` is set where the system stops: tasks have ended, calls
are answered, bounds are reached. No component waits for another: a lease that
is held makes an acquirer give up after three seconds and runs out after 120 s.

### Fairness

`MCTasksLive` and `MCBacklog` assume fairness. In `MCTasksLive`, `WF(Steps(w))`: an invocation takes its
next step unless it crashes, and it crashes at most `MaxCrashes` times; the
Lambda timeout ends one that hangs, which is a crash too. `WF(Tick)`: time
passes. `SF(StartTask)`: SQS delivers a message that is there until a receiver
succeeds, and the event source retries when the function is busy.
`SF(SweepTask)`: EventBridge fires every five minutes for ever and each run
queries the due rows from the oldest. Nothing is assumed of clients, of the
owner, or of the message still being there. In `MCBacklog`,
`WF(StartScheduled)`: the schedules fire for ever; `WF(Work)`: a run that has
begun goes on unless it fails, which happens `MaxFaults` times; `WF(Ripen)`:
due times come; `WF(Propagate)`: the index catches up.

## 4. What is proved

Every safety property of a passing run is proved for all values of the constants:
any number of tasks, callers, invocations, keys, skills, tools and rows, and any
bounds. All five refinements are proved step by step.

| Module | Theorems | Properties |
| --- | --- | --- |
| `TasksProofs` | `TypeCorrect`, `AtMostOnce`, `IndexedIffLive`, `HistoryComplete`, `LateTurnsStayUnrun` | `TypeOK`, `OneStartPerTurn`, `SweepableIffLive`, `HistoryFollowsTurn`, `LateTurnsNeverStart` |
| | `Refinement` | `ImplementsTaskSpec` |
| `SubmissionProofs` | `RepeatsAddOnce`, `ReceiptMeansAccepted`, `AnswersNeverDiffer`, `AcceptedStaysAccepted` | `OncePerKey`, `ReceiptIffAccepted`, `AnswersAgree`, `RetryIsAnswered` |
| | `SubmissionRefinement` | `ImplementsSubmissionSpec` |
| `BudgetProofs` | `PaidOnce`, `UncertainIsCharged`, `LedgerIsSum`, `LimitHolds` | `OneCallPerReservation`, `UncertainKeepsReservation`, `LedgerBalances`, `WithinLimit` |
| | `BudgetRefinement` | `ImplementsBudgetSpec` |
| `ConnectionProofs` | `DisconnectIsFinal`, `ConnectedHasCredentials`, `RotationIsNeverLost`, `RefusalIsOfRefused` | `DisconnectForgets`, `ConnectedIsKept`, `RotationStored`, `RefusalClearsRefused` |
| | `ConnectionRefinement` | `ImplementsConnectionSpec` |
| `CardFenceProofs` | `CardIsCurrent`, `ActiveProofIsSound`, `DeletionIsFinal`, `CommitsUnderItsKey` | `CardMatchesConfiguration`, `ActiveProofAttests`, `DeletionUnpublishes`, `KeyHoldsAtCommit` |
| | `AgentRefinement` | `ImplementsAgentSpec` |
| `EngineProofs` | `ShownIsSent`, `NothingTwice`, `ActionsAreKept`, `ResultsAreTold`, `EachRequestIsReserved`, `UncertainIsFinal` | `SendsWhatWasShown`, `ExecutedOnce`, `CheckpointKeepsActions`, `NothingUnreported`, `ReservedOnce`, `UncertaintyStops` |
| `JwksCacheProofs` | `IssuerIsNotFlooded`, `OldKeysGo`, `GenuineCallersGetIn` | `FetchesBounded`, `AcceptedWasPublished`, `RefusalsHaveCause` |
| `PagingProofs` | `ListingIsComplete`, `PagesAreDrained` | `NothingSkipped`, `DrainedWhenQuiet` |

`Budget`, `Connection`, `CardFence`, `Engine`, `JwksCache` and `TaskListing` also
have a theorem `TypeCorrect` about a `TypeOK` that is in no run. In every module
`IInv` is the inductive invariant and `Inductive` (`Invariance` in `TasksProofs`)
the theorem `Spec => []IInv`; `TasksProofs` adds `LateInv`, `EngineProofs`
`ShownInv` and `ConnectionProofs` `TokensInv`, each inductive together with
`IInv`, and `PagingProofs` has `DueInv` for `Backlog`. TLC has
checked each of them on the instance of the component's run.

### Assumptions

Each module's one `ASSUME`, and nothing else: bounds are naturals; different
kinds of keys are different (`Submission`); amounts are positive and the
reservation ids finitely many (`Budget`); a tool belongs to one of the
connectors (`Engine`); the time limit of a fetch is shorter than the cool-down
and that shorter than a key's life (`JwksCache`: 5, 30 and 300 s in the code);
a query and a page take one row at least (`TaskListing`); a page takes one row
at least and the rows are finitely many (`Backlog`); the delays are
positive and the A2A tasks are tasks (`Tasks`).

### The arguments

The store gives one thing only: a version that still fits. So most invariants
say what an invocation may believe of the rows it has read *for as long as
their versions are the ones it read*, and that it has never read a version from
the future.

* **Tasks.** `OneStartPerTurn` is not inductive: nothing in it says why a second
  claim fails. `IInv` adds that while the row still has the version an
  invocation remembers, the invocation knows its status and turn, and that a
  turn which was started belongs to a row that is past it. A claim that succeeds
  then finds its row queued at a turn never started. `LateInv` says of an
  invocation whose claim would still succeed that its turn is not late: every
  write that makes a turn late moves the version on, and whoever reads the row
  after that reads META after the deletion. Every successful write is
  one step of `TaskSpec`, everything else a stutter.
* **Submission.** A receipt is tied to the single place of its message, a pair
  of a task and a position (`Recorded`): an insert adds both or neither, and
  nothing is ever removed. So what a request was told stays true, and a
  repetition finds the receipt before it looks at skills or tasks. `accepted` of
  `SubmissionSpec` is the set of receipts, `told` the set of answered calls,
  `work` the rows without versions: a commit is `Accept` (and `Tell`, when its
  answer arrives), a lookup that answers is `Tell`, everything else a stutter.
* **Budget.** A receipt goes from nothing to reserved to settled, and only the
  caller that inserted it calls or settles (`Exclusive`). The copy of the
  ledger a caller holds is the ledger as long as its version fits, so each
  transaction changes one term of the sum over receipts and the ledger by the
  same amount. The theory of such sums (`Adds`, `Total`) is part of the module;
  it rests on induction over a finite set, obtained from the well-foundedness
  of the naturals, since the ready-made induction theorems take an operator.
* **Connection.** A lease version has one owner. A callback or disconnect owns
  its lease until it lets go of it (30 s of 120); only a worker may lose one.
  `disconnect` disables the connection while it owns the lease, so whoever
  could still store tokens has lost it, and a disconnected connection is
  frozen. A refusal counts only against the version of the credentials it was
  given for, and spent tokens stay spent. `RotationStored` needs the invariant
  of the calm (`CalmInv`): without faults the owner of the lease is the only
  one that rotates or stores. The refinement needs `TokensInv`, which holds with
  faults too. Whoever is about to store tokens has the last of their flow, and
  nobody else has them, not even the row, so nobody can make them old before
  they are stored (`FreshInv`): a rotation makes the token it uses worthless to
  all others at once. A refresh of a connection that is still connected has read the version
  of its credentials (`SeenInv`), so a refusal clears what was refused or
  changes nothing. A lost answer is a `Rotate` alone: the connection is then
  left with tokens the provider refuses, which `ConnectionSpec` allows and
  `RotationStored` excludes without faults.
* **CardFence.** Every write to a living agent makes a new version of META. A
  handler that still has META's version has everything it read, and a receipt
  that still names it attests the card and the key of now. After a deletion
  nobody has META's version, and the eraser's list has every row that is left.
  In `AgentSpec` a receipt is active as the status request computes it
  (`Active`): so the proof of each commit shows that a new version of META ends
  all of them, that the card written shows the name and the skills of this very
  step, and that an eraser's puts only take away.
* **Engine.** The identifiers of a run are those its transcript uses: a batch
  brings new ones, and each moves from the calls to handle to the answers of
  the batch and with them to a message. An action that reached a server has its
  answer there, or is the call whose connector is being listed again; in both
  cases a turn is left to report it. The pair of turn and round only grows,
  which keeps reservations apart. `ShownInv` ties the four sets of definitions
  together: the next request's are the known ones, a batch is checked against
  what the last request showed, and a known definition is the last one its
  server listed, unless that list waits for the permissions to be read again.
* **JwksCache.** A fetch is noted before it is sent and nobody looks at the
  cache until it has ended. So a request without a fetch in flight finds a cache
  that the last fetch replaced, or a failure after its start; the time limit
  bounds how old the keys are that were brought. Of two fetches in a cool-down
  the second was forced, and there is no third.
* **TaskListing.** A task that stands still keeps its place, and every other one
  moves forward only. So what a page leaves out stays behind the last task the
  page shows, wherever that task is when the next page is cut.
* **Backlog.** A row that a scheduled run found due is in the page of some run,
  or some run's page was full, or a message to go on is waiting (`Attended`). A
  page that is not full shows everything the index shows, and one that was full
  sends the message when it ends; the row a run has taken from its page to send
  for is claimed and waits no more.

### Model-checked only

The liveness properties `QueuedIsTaken`, `RunningEnds` and `DueIsServed`, which
need fairness and so are out of the prover's reach; and the two findings, which
are counterexamples. What the code says about a bound is proved for the bound as
a constant; that the constants of the code satisfy the assumptions is read off
the code.

## 5. Reading the runs

`tlc -config MCTasks.cfg MCTasks` and so on; `tlapm TasksProofs.tla` and so on
(`ConnectionProofs` takes a few minutes, `TasksProofs`, `BudgetProofs` and
`CardFenceProofs` a minute or two each, the others less). Operators marked "Mutant:" are plausible bugs: each property
fails when one of them replaces the definition after it.

## 6. Plan

Done: all modules of section 2, with their runs, the proofs of section 4 and the
five refinements.

Possible next: the hazards of `PROJECT.json` that have no property (a deletion
or a disconnect that stops halfway and is called again; a task that runs while a
reauthorization is pending), and the session and the cancellation of an MCP call.

## 7. Limits of the models

The `list` of a deletion is one read although DynamoDB pages it. Removal of
expired rows (TTL) is not modelled. The local mode without a queue runs a task
at once through the same `run_task`. Arithmetic overflow of `u64` budgets is
out of range of the configured limits (checked in the code). Without a queue
`maintenance` and `dispatch_pending` leave due rows where they are; `Backlog`
has a queue. The signing keys that are retained for old cards, and the
expiry of receipts in the store, are left out of `CardFence`. `JwksCache` lets
every request fetch at most once at a time, and of the limits on a key set only
`MaxKeys` and "at least one" remain. The two sub-limits of a conversation (96 KiB of text,
350 KiB of row) end a request or a turn like the message limit does.

## 8. Not modelled

Bedrock and MCP transport, the outbound network guard, sealing and digests,
card normalisation and signatures, the claims of a token, the public view of a
task: pure functions or one network call whose failure is an outcome in the models. Terraform, scripts and
examples: deployment; their limits appear as fault and fairness assumptions.
