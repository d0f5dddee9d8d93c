----------------------------- MODULE Connection -----------------------------
(***************************************************************************)
(* One OAuth connection of an agent: the API handlers that authorize,      *)
(* complete and disconnect it (src/api.rs), the worker invocations that    *)
(* maintain and use it (src/worker.rs), and the stores they give to the    *)
(* OAuth SDK (src/oauth_store.rs).  They share four rows: the connection,  *)
(* its credentials, the refresh lease, and the state of each browser flow. *)
(* The provider rotates refresh tokens: each is good for one refresh.      *)
(* Every process is one invocation: it crosses the network between its     *)
(* reads and its writes, and may die or outlive its lease there.  A read   *)
(* followed by a compare-and-swap of the same row with nothing in between  *)
(* is one action: when the swap fails the invocation changes nothing.      *)
(***************************************************************************)
EXTENDS Integers, Store

CONSTANTS
    Process,     \* invocations of the API and of the worker
    MaxFlows,    \* bound: browser authorizations the owner starts
    MaxTurns,    \* bound: rotations of the refresh token of a flow
    MaxVersion,  \* bound: version of the connection at which nothing starts
    MaxLease,    \* bound: version of the lease at which nobody acquires it
    MaxFaults    \* bound: crashes, lost responses, expired leases

ASSUME ConnectionAssumption ==
    {MaxFlows, MaxTurns, MaxVersion, MaxLease, MaxFaults} \subseteq Nat

VARIABLES
    conn,      \* CONN#: version, status, the flow oauth_config belongs to, due
    cred,      \* CREDENTIALS#: version and tokens
    lock,      \* LOCK#: version, and whether `until` is still to come
    states,    \* OAUTH# rows: the flows whose state can still be consumed
    flows,     \* how many flows were started
    jobs,      \* oauth_refresh messages, by expected_version
    process,   \* the local state of every invocation
    turn,      \* the provider: the refresh token of a flow that is good now
    revoked,   \* the provider: flows whose grant is gone
    forgotten, \* history: a disconnect was answered with success
    faults     \* how many faults there were

rows     == <<conn, cred, lock>>
provider == <<turn, revoked>>
browser  == <<states, flows>>
history  == <<forgotten, faults>>

vars == <<rows, browser, jobs, process, provider, history>>

Flow   == 1 .. MaxFlows
NoFlow == 0
Status == {"authorization_required", "authorization_pending", "connected",
           "reauthorization_required", "disconnected"}

\* The tokens of a flow after some rotations; `{}` and a missing row hold none.
Tokens   == [flow: Flow, turn: 0 .. MaxTurns]
NoTokens == [flow |-> NoFlow, turn |-> 0]

Idle == [pc |-> "idle"]

\* conn is the connection it has read; seen the version of the credentials a
\* refusal will clear, cred the one a write expects; lease the version of the
\* lease it acquired (Absent: none); tokens what it loaded or was given.
Begin(op, pc) ==
    [pc |-> pc, op |-> op, conn |-> conn, seen |-> Absent, cred |-> Absent,
     flow |-> NoFlow, lease |-> Absent, tokens |-> NoTokens, result |-> "ok"]

Init ==
    /\ conn = [ver |-> 1, status |-> "authorization_required", flow |-> NoFlow, due |-> "none"]
    /\ cred = [ver |-> Absent, tokens |-> NoTokens]
    /\ lock = [ver |-> Absent, held |-> FALSE]
    /\ states = {} /\ flows = 0
    /\ jobs = {}
    /\ process = [p \in Process |-> Idle]
    /\ turn = [f \in Flow |-> 0] /\ revoked = {}
    /\ forgotten = FALSE /\ faults = 0

At(p, pc) == process[p].pc = pc
Is(p, op) == process[p].op = op
Become(p, job) == process' = [process EXCEPT ![p] = job]
Goto(p, pc) == Become(p, [process[p] EXCEPT !.pc = pc])
Return(p) == Become(p, Idle)

\* connection(): a disconnected one is not found.
Found == conn.status # "disconnected"

-----------------------------------------------------------------------------
(* The refresh lease. *)

\* Nobody acquired the lease since this process did.
Kept(p) == process[p] # Idle /\ process[p].lease # Absent /\ Matches(lock, process[p].lease)

\* And it has not run out.
Owns(p) == Kept(p) /\ lock.held

\* release_version: only the version acquired is released.
Released(p) == IF Kept(p) THEN Stored([lock EXCEPT !.held = FALSE], lock.ver) ELSE lock

\* An operation that gives up drops its guard.
Abort(p) == lock' = Released(p) /\ Return(p)

\* Mutant: takes the lease whoever holds it.
AcquirableAlways == TRUE

\* There is no lease, or it has run out.
Acquirable == ~lock.held

Acquire(p, pc) ==
    /\ Acquirable
    /\ lock.ver < MaxLease
    /\ lock' = Stored([lock EXCEPT !.held = TRUE], lock.ver)
    /\ Become(p, [process[p] EXCEPT !.pc = pc, !.lease = lock.ver + 1])

\* acquire_refresh_guard for a callback, a disconnect and a refresh.
AcquireGuard(p) ==
    /\ At(p, "acquire")
    /\ \/ Is(p, "callback")         /\ Acquire(p, "exchange")
       \/ Is(p, "disconnect")       /\ Acquire(p, "disable")
       \/ process[p].op \in {"refresh", "task"} /\ Acquire(p, "load")
    /\ UNCHANGED <<conn, cred, browser, jobs, provider, history>>

\* A refresh ends: maintenance records every result, a task only a refusal.
Refreshed(p, result) ==
    /\ lock' = Released(p)
    /\ IF Is(p, "refresh") \/ result = "denied"
          THEN Become(p, [process[p] EXCEPT !.pc = "status", !.lease = Absent,
                              !.cred = Absent, !.tokens = NoTokens, !.result = result])
          ELSE Return(p)

\* A call into the stores fails: the API answers with an error, a refresh has
\* its result.
Fails(p, result) ==
    IF process[p].op \in {"callback", "disconnect"} THEN Abort(p) ELSE Refreshed(p, result)

\* Thirty attempts in three seconds were not enough.
AcquireFails(p) ==
    /\ At(p, "acquire")
    /\ lock.held
    /\ Fails(p, "transient")
    /\ UNCHANGED <<conn, cred, browser, jobs, provider, history>>

\* Mutant: the stores do not look at the connection.
ActiveUnchecked == TRUE

\* active(): the stores serve a connection until it is disconnected.
Active == conn.status # "disconnected"

-----------------------------------------------------------------------------
(* CredentialStore::save: look whether the connection is active, read the    *)
(* version of the credentials and the lease, then write both at once.        *)

SaveCheck(p) ==
    /\ At(p, "check")
    /\ IF Active THEN Goto(p, "version") /\ UNCHANGED lock
                 ELSE Fails(p, "denied")
    /\ UNCHANGED <<conn, cred, browser, jobs, provider, history>>

SaveVersion(p) ==
    /\ At(p, "version")
    /\ IF Owns(p) THEN /\ Become(p, [process[p] EXCEPT !.pc = "save", !.cred = cred.ver])
                       /\ UNCHANGED lock
                  ELSE Fails(p, "transient")
    /\ UNCHANGED <<conn, cred, browser, jobs, provider, history>>

\* The transaction of the credentials and the lease.
SaveFits(p) == Matches(cred, process[p].cred) /\ Kept(p)

SaveCommit(p) ==
    /\ At(p, "save")
    /\ IF SaveFits(p)
          THEN /\ cred' = Stored([cred EXCEPT !.tokens = process[p].tokens], cred.ver)
               /\ IF Is(p, "callback")
                     THEN /\ lock' = Released(p)
                          /\ Become(p, [process[p] EXCEPT !.pc = "connect", !.lease = Absent])
                     ELSE Refreshed(p, "ok")
          ELSE Fails(p, "transient") /\ UNCHANGED cred
    /\ UNCHANGED <<conn, browser, jobs, provider, history>>

-----------------------------------------------------------------------------
(* authorize and callback. *)

\* A new flow with a state of its own and its configuration in the connection;
\* when the write loses, the owner never sees the URL.
Authorize ==
    /\ Found
    /\ conn.ver < MaxVersion /\ flows < MaxFlows
    /\ flows' = flows + 1
    /\ states' = states \cup {flows + 1}
    /\ conn' = Stored([conn EXCEPT !.status = "authorization_pending", !.flow = flows + 1],
                      conn.ver)
    /\ UNCHANGED <<cred, lock, jobs, process, provider, history>>

\* The browser comes back while the connection is pending.
StartCallback(p, f) ==
    /\ At(p, "idle")
    /\ conn.status = "authorization_pending"
    /\ f \in states
    /\ Become(p, [Begin("callback", "acquire") EXCEPT !.flow = f])
    /\ UNCHANGED <<rows, browser, jobs, provider, history>>

\* A declined consent consumes the state, and ten minutes end it.
StateEnds(f) ==
    /\ f \in states
    /\ states' = states \ {f}
    /\ UNCHANGED <<rows, flows, jobs, process, provider, history>>

\* finish: the SDK consumes the state and exchanges the code, which may fail.
Exchange(p) ==
    /\ At(p, "exchange")
    /\ \/ Abort(p) /\ states' \in {states, states \ {process[p].flow}}
       \/ /\ process[p].flow \in states
          /\ states' = states \ {process[p].flow}
          /\ Become(p, [process[p] EXCEPT !.pc = "check",
                            !.tokens = [flow |-> process[p].flow, turn |-> 0]])
          /\ UNCHANGED lock
    /\ UNCHANGED <<conn, cred, flows, jobs, provider, history>>

Connected(c) == [c EXCEPT !.status = "connected", !.due = "later"]

\* Mutant: the connection is written whoever wrote it meanwhile.
ConnectFitsAlways(p) == TRUE

ConnectFits(p) == Matches(conn, process[p].conn.ver)

\* The tokens are stored; the connection follows unless somebody wrote it
\* since the callback read it.
Connect(p) ==
    /\ At(p, "connect")
    /\ conn' = IF ConnectFits(p) THEN Stored(Connected(process[p].conn), conn.ver) ELSE conn
    /\ Return(p)
    /\ UNCHANGED <<cred, lock, browser, jobs, provider, history>>

-----------------------------------------------------------------------------
(* disconnect *)

StartDisconnect(p) ==
    /\ At(p, "idle")
    /\ Found
    /\ Become(p, Begin("disconnect", "acquire"))
    /\ UNCHANGED <<rows, browser, jobs, provider, history>>

\* The connection is read again under the lease.
Disable(p) ==
    /\ At(p, "disable")
    /\ IF Found
          THEN /\ conn' = Stored([conn EXCEPT !.status = "disconnected", !.flow = NoFlow,
                                              !.due = "none"], conn.ver)
               /\ Goto(p, "clear") /\ UNCHANGED lock
          ELSE Abort(p) /\ UNCHANGED conn
    /\ UNCHANGED <<cred, browser, jobs, provider, history>>

\* CredentialStore::clear: no credentials, nothing to clear.
Clear(p) ==
    /\ At(p, "clear")
    /\ IF cred.ver = Absent
          THEN Abort(p) /\ forgotten' = TRUE
          ELSE /\ Become(p, [process[p] EXCEPT !.pc = "forget", !.cred = cred.ver])
               /\ UNCHANGED <<lock, forgotten>>
    /\ UNCHANGED <<conn, cred, browser, jobs, provider, faults>>

Forget(p) ==
    /\ At(p, "forget")
    /\ IF Matches(cred, process[p].cred)
          THEN /\ cred' = Stored([cred EXCEPT !.tokens = NoTokens], cred.ver)
               /\ forgotten' = TRUE
          ELSE UNCHANGED <<cred, forgotten>>
    /\ Abort(p)
    /\ UNCHANGED <<conn, browser, jobs, provider, faults>>

-----------------------------------------------------------------------------
(* maintenance *)

\* The daily run puts a due connection off by five minutes and then enqueues
\* its refresh; one that is no longer connected loses its date.
Maintain(p) ==
    /\ At(p, "idle")
    /\ conn.due = "now" /\ conn.ver < MaxVersion
    /\ IF conn.status = "connected"
          THEN /\ conn' = Stored([conn EXCEPT !.due = "later"], conn.ver)
               /\ Become(p, [Begin("maintain", "enqueue") EXCEPT !.conn = conn'])
          ELSE /\ conn' = Stored([conn EXCEPT !.due = "none"], conn.ver)
               /\ UNCHANGED process
    /\ UNCHANGED <<cred, lock, browser, jobs, provider, history>>

Enqueue(p) ==
    /\ At(p, "enqueue")
    /\ jobs' = jobs \cup {process[p].conn.ver}
    /\ Return(p)
    /\ UNCHANGED <<rows, browser, provider, history>>

\* refresh_connection: a delivery consumes the version it was sent for.  The
\* queue may deliver a message again, so it stays.
StartRefresh(p) ==
    /\ At(p, "idle")
    /\ conn.ver \in jobs
    /\ conn.status = "connected" /\ conn.due # "none" /\ conn.ver < MaxVersion
    /\ conn' = Stored([conn EXCEPT !.due = "later"], conn.ver)
    /\ Become(p, [Begin("refresh", "credentials") EXCEPT !.conn = conn'])
    /\ UNCHANGED <<cred, lock, browser, jobs, provider, history>>

\* execute_with_sessions: a task whose skills need the connection.
StartTask(p) ==
    /\ At(p, "idle")
    /\ Found /\ conn.ver < MaxVersion
    /\ Become(p, Begin("task", "credentials"))
    /\ UNCHANGED <<rows, browser, jobs, provider, history>>

\* The version of the credentials observed before the refresh.  A task only
\* connects what is connected, and refreshes when its access token ran out.
ReadCredentials(p) ==
    /\ At(p, "credentials")
    /\ LET job == [process[p] EXCEPT !.seen = cred.ver]
       IN  IF job.conn.status # "connected"
              THEN Become(p, [job EXCEPT !.pc = "status", !.result = "denied"])
              ELSE \/ Become(p, [job EXCEPT !.pc = "acquire"])
                   \/ Is(p, "task") /\ Return(p)
    /\ UNCHANGED <<rows, browser, jobs, provider, history>>

\* CredentialStore::load, under the lease.
Load(p) ==
    /\ At(p, "load")
    /\ IF Active /\ cred.tokens # NoTokens
          THEN /\ Become(p, [process[p] EXCEPT !.pc = "refresh", !.tokens = cred.tokens])
               /\ UNCHANGED lock
          ELSE Refreshed(p, "denied")
    /\ UNCHANGED <<conn, cred, browser, jobs, provider, history>>

\* The provider still honours the refresh token of these tokens.
Good(tokens) == tokens.flow \notin revoked /\ turn[tokens.flow] = tokens.turn

\* The provider refuses a token, or rotates it, or does not answer at all.
Refresh(p) ==
    LET old == process[p].tokens
    IN  /\ At(p, "refresh")
        /\ \/ /\ ~Good(old)
              /\ Refreshed(p, "denied")
              /\ UNCHANGED turn
           \/ /\ Good(old) /\ old.turn < MaxTurns
              /\ turn' = [turn EXCEPT ![old.flow] = @ + 1]
              /\ Become(p, [process[p] EXCEPT !.pc = "check", !.tokens.turn = old.turn + 1])
              /\ UNCHANGED lock
           \/ Refreshed(p, "transient") /\ UNCHANGED turn
        /\ UNCHANGED <<conn, cred, browser, jobs, revoked, history>>

\* set_connection_status when the credentials are to be cleared.
Clears(p) == process[p].result = "denied" /\ process[p].seen # Absent

\* Mutant: the status is written whoever wrote the connection meanwhile.
StatusFitsCredentials(p) == Clears(p) => Matches(cred, process[p].seen)

\* Mutant: clears whatever credentials are there now.
StatusFitsConnection(p) == Matches(conn, process[p].conn.ver)

\* Neither the connection nor the credentials a refusal clears were written
\* since they were read.
StatusFits(p) ==
    /\ Matches(conn, process[p].conn.ver)
    /\ Clears(p) => Matches(cred, process[p].seen)

SetStatus(p) ==
    /\ At(p, "status")
    /\ IF StatusFits(p)
          THEN /\ conn' = Stored(IF process[p].result = "denied"
                                    THEN [conn EXCEPT !.status = "reauthorization_required",
                                                      !.due = "none"]
                                    ELSE Connected(conn), conn.ver)
               /\ cred' = IF Clears(p) THEN Stored([cred EXCEPT !.tokens = NoTokens], cred.ver)
                                       ELSE cred
          ELSE UNCHANGED <<conn, cred>>
    /\ Return(p)
    /\ UNCHANGED <<lock, browser, jobs, provider, history>>

-----------------------------------------------------------------------------
(* What happens to them. *)

Fault == faults < MaxFaults /\ faults' = faults + 1

\* The invocation dies, and so does the lease only when its time has come.
Crash(p) ==
    /\ Fault
    /\ process[p] # Idle
    /\ Return(p)
    /\ UNCHANGED <<rows, browser, jobs, provider, forgotten>>

\* The provider rotated the token but its response is lost.
LoseRotation(p) ==
    /\ Fault
    /\ At(p, "refresh") /\ Good(process[p].tokens) /\ process[p].tokens.turn < MaxTurns
    /\ turn' = [turn EXCEPT ![process[p].tokens.flow] = @ + 1]
    /\ Refreshed(p, "transient")
    /\ UNCHANGED <<conn, cred, browser, jobs, revoked, forgotten>>

\* 120 seconds have passed: longer than an API invocation may run (30), not
\* longer than a worker may.
LeaseExpires ==
    /\ lock.held
    /\ \A p \in Process : Owns(p) => process[p].op \in {"refresh", "task"}
    /\ \/ \E p \in Process : Owns(p) /\ Fault
       \/ ~(\E p \in Process : Owns(p)) /\ UNCHANGED faults
    /\ lock' = [lock EXCEPT !.held = FALSE]
    /\ UNCHANGED <<conn, cred, browser, jobs, process, provider, forgotten>>

\* The owner or the provider ends the grant in use.
Revoke ==
    /\ cred.tokens # NoTokens
    /\ cred.tokens.flow \notin revoked
    /\ revoked' = revoked \cup {cred.tokens.flow}
    /\ UNCHANGED <<rows, browser, jobs, process, turn, history>>

\* The date of the maintenance comes.
Tick ==
    /\ conn.due = "later"
    /\ conn' = [conn EXCEPT !.due = "now"]
    /\ UNCHANGED <<cred, lock, browser, jobs, process, provider, history>>

Run(p) ==
    \/ AcquireGuard(p) \/ AcquireFails(p)
    \/ SaveCheck(p) \/ SaveVersion(p) \/ SaveCommit(p)
    \/ (\E f \in Flow : StartCallback(p, f)) \/ Exchange(p) \/ Connect(p)
    \/ StartDisconnect(p) \/ Disable(p) \/ Clear(p) \/ Forget(p)
    \/ Maintain(p) \/ Enqueue(p)
    \/ StartRefresh(p) \/ StartTask(p) \/ ReadCredentials(p)
    \/ Load(p) \/ Refresh(p) \/ SetStatus(p)
    \/ Crash(p) \/ LoseRotation(p)

Next ==
    \/ \E p \in Process : Run(p)
    \/ Authorize
    \/ \E f \in Flow : StateEnds(f)
    \/ LeaseExpires \/ Revoke \/ Tick

Spec == Init /\ [][Next]_vars

-----------------------------------------------------------------------------
(* The shape of the state. *)

Op == {"callback", "disconnect", "maintain", "refresh", "task"}

\* Where an invocation has a lease, the last three with tokens to store.
Storing == {"check", "version", "save"}
Leased  == {"exchange", "disable", "clear", "forget", "load", "refresh"} \cup Storing
Pc == {"acquire", "connect", "enqueue", "credentials", "status"} \cup Leased

ConnRow == [ver: Nat \ {Absent}, status: Status, flow: Flow \cup {NoFlow},
            due: {"none", "now", "later"}]
CredRow == [ver: Nat, tokens: Tokens \cup {NoTokens}]
LockRow == [ver: Nat, held: BOOLEAN]

Job == [pc: Pc, op: Op, conn: ConnRow, seen: Nat, cred: Nat, flow: Flow \cup {NoFlow},
        lease: Nat, tokens: Tokens \cup {NoTokens}, result: {"ok", "denied", "transient"}]

\* The rows; a connection that waits for its callback or is connected has the
\* configuration the callback and every refresh open.
RowsTypeOK ==
    /\ conn \in ConnRow /\ cred \in CredRow /\ lock \in LockRow
    /\ states \subseteq 1 .. flows /\ flows \in 0 .. MaxFlows
    /\ jobs \subseteq 1 .. MaxVersion
    /\ turn \in [Flow -> 0 .. MaxTurns] /\ revoked \subseteq Flow
    /\ forgotten \in BOOLEAN /\ faults \in 0 .. MaxFaults
    /\ conn.status \in {"authorization_pending", "connected"} => conn.flow # NoFlow

\* Every row and every invocation holds what the code can store in it.
TypeOK == RowsTypeOK /\ process \in [Process -> Job \cup {Idle}]

-----------------------------------------------------------------------------
(* Properties. *)

\* Once a disconnect has been answered no credentials are left, and no refresh
\* or callback in flight restores them, whatever it read before
\* (docs/architecture.md, "Secret and network boundaries").
DisconnectForgets == forgotten => conn.status = "disconnected" /\ cred.tokens = NoTokens

\* A connection is reported connected only while there are credentials, since
\* the refusal that clears them changes the status in the same transaction, and
\* only with a date for its maintenance, so that a grant nobody uses is kept.
ConnectedIsKept ==
    conn.status = "connected" => cred.tokens # NoTokens /\ conn.due # "none"

\* A process that holds the lease has the tokens and is about to store them.
InHand(tokens) ==
    \E p \in Process : Owns(p) /\ process[p].pc \in {"check", "version", "save"}
                               /\ process[p].tokens = tokens

\* A token is good for one refresh, so the one the provider gave last must not
\* be lost: without crashes, lost responses and expired leases the credentials
\* hold it or the owner of the lease is about to store it, however many
\* workers refresh, and whatever maintenance and the owner do.
RotationStored ==
    faults = 0 /\ Found /\ cred.tokens # NoTokens =>
        LET last == [cred.tokens EXCEPT !.turn = turn[cred.tokens.flow]]
        IN  cred.tokens = last \/ InHand(last)

\* While a connection is connected, credentials the provider still honours are
\* cleared by its disconnection only: the refusal of an older refresh does not
\* take the tokens a later one has stored.
RefusalClearsRefused ==
    [][conn.status = "connected" /\ cred.tokens # NoTokens /\ Good(cred.tokens)
        => cred'.tokens # NoTokens]_vars

\* Rows and provider together do what an owner is promised: tokens only move
\* forward, a refusal takes the status and the refused tokens at once, nothing
\* is stored after a disconnect (src/oauth_store.rs, save; src/worker.rs,
\* set_connection_status; src/api.rs, callback and disconnect).
Promise == INSTANCE ConnectionSpec WITH
    status <- conn.status, tokens <- cred.tokens, open <- states, started <- flows
ImplementsConnectionSpec == Promise!Spec

\* A connected connection uses the grant of the flow its configuration was
\* made for (src/connectors/oauth.rs: "The state/PKCE and issuer checks bind
\* this callback to the new flow").
CallbackOfNewFlow == conn.status = "connected" => cred.tokens.flow = conn.flow
=============================================================================
