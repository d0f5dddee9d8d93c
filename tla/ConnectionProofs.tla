-------------------------- MODULE ConnectionProofs --------------------------
(***************************************************************************)
(* Proofs about Connection.tla.  Versions tell an invocation whether what  *)
(* it read still holds; the lease tells it whether it may store tokens.    *)
(* A lease has one owner, an API invocation owns its lease until it lets   *)
(* go of it, and a disconnect disables the connection while it owns the    *)
(* lease, so that whoever could still store tokens then has lost it.  The  *)
(* second half shows that the rows and the provider implement              *)
(* ConnectionSpec.tla, with a second invariant: whoever is about to store  *)
(* tokens is the only one that has them, and they are the last of their    *)
(* flow (FreshInv).                                                        *)
(***************************************************************************)
EXTENDS Connection, TLAPS

-----------------------------------------------------------------------------
(* The inductive invariant. *)

Refreshing == {"refresh", "task"}

\* The operation and the place an invocation is at agree.
PlaceInv(k) ==
    /\ k.pc = "acquire" => k.op # "maintain"
    /\ k.pc \in {"exchange", "connect"} => k.op = "callback"
    /\ k.pc \in {"disable", "clear", "forget"} => k.op = "disconnect"
    /\ k.pc \in {"credentials", "load", "refresh", "status"} => k.op \in Refreshing
    /\ k.pc \in Storing => k.op \in {"callback"} \cup Refreshing
    /\ k.pc = "enqueue" => k.op = "maintain" /\ k.conn.ver <= MaxVersion
    /\ k.pc = "status" => k.result = "denied" \/ k.op = "refresh"
    /\ k.lease # Absent <=> k.pc \in Leased

\* A connection of the version that was read is the one that was read, up to
\* the date of its maintenance.
ConnInv(k, c) ==
    /\ k.conn.status # "disconnected"
    /\ k.op = "callback" => k.conn.status = "authorization_pending"
    /\ k.op \in {"refresh", "maintain"} => k.conn.status = "connected"
    /\ k.conn.status \in {"authorization_pending", "connected"} => k.conn.flow # NoFlow
    /\ k.conn.ver <= c.ver
    /\ k.conn.ver = c.ver => c.status = k.conn.status /\ c.flow = k.conn.flow
    /\ k.pc \in {"clear", "forget"} => c.status = "disconnected"

\* Whoever is about to store tokens when the connection is disabled has lost
\* the lease, and only a worker loses it before it lets go of it.
LeaseInv(k, c, l, fs) ==
    /\ k.lease <= l.ver
    /\ k.lease # Absent /\ (k.op \notin Refreshing \/ fs = 0) => l.ver = k.lease /\ l.held
    /\ k.pc \in {"version", "save"} /\ c.status = "disconnected" => k.lease # l.ver

Spent(tokens, tu, re) == tokens.flow \in re \/ tu[tokens.flow] # tokens.turn

\* What an invocation knows about the credentials.
CredInv(k, c, d, tu, re) ==
    /\ k.seen <= d.ver
    /\ k.pc \in {"refresh"} \cup Storing =>
           k.tokens # NoTokens /\ k.tokens.turn <= tu[k.tokens.flow]
    /\ k.pc = "refresh" /\ k.seen = d.ver => k.tokens = d.tokens
    /\ /\ k.pc = "status" /\ k.result = "denied"
       /\ k.seen = d.ver /\ k.conn.ver = c.ver /\ c.status = "connected"
       => d.tokens = NoTokens \/ Spent(d.tokens, tu, re)
    /\ k.pc = "connect" /\ k.conn.ver = c.ver => d.tokens # NoTokens

\* Without faults the owner of the lease is the only one that stores and
\* rotates tokens; a refusal may clear them meanwhile.
CalmInv(k, d, tu, fs) ==
    fs = 0 =>
    /\ k.pc = "refresh" => d.tokens \in {k.tokens, NoTokens}
    /\ k.pc \in Storing => tu[k.tokens.flow] = k.tokens.turn
    /\ k.pc = "save" => k.cred = d.ver \/ d.tokens = NoTokens

JobInv(k, c, d, l, tu, re, fs) ==
    k # Idle => /\ PlaceInv(k) /\ ConnInv(k, c) /\ LeaseInv(k, c, l, fs)
                /\ CredInv(k, c, d, tu, re) /\ CalmInv(k, d, tu, fs)

JobsInv == \A p \in Process : JobInv(process[p], conn, cred, lock, turn, revoked, faults)

OneOwner ==
    \A p, q \in Process :
        /\ process[p] # Idle /\ process[q] # Idle
        /\ process[p].lease # Absent /\ process[p].lease = process[q].lease
        => p = q

RowsInv ==
    /\ cred.ver = Absent => cred.tokens = NoTokens
    /\ cred.tokens # NoTokens => cred.tokens.turn <= turn[cred.tokens.flow]
    /\ conn.status = "disconnected" => conn.due = "none"

\* Nobody has tokens of a flow that did not come back from the browser yet.
FlowsInv ==
    \A f \in Flow : f \in states \/ f > flows =>
        /\ turn[f] = 0 /\ cred.tokens.flow # f
        /\ \A p \in Process : process[p] # Idle => process[p].tokens.flow # f

\* RotationStored: the credentials have the last rotation of their flow, or
\* the owner of the lease does.
HasLast(tokens) == tokens.flow = cred.tokens.flow /\ tokens.turn = turn[cred.tokens.flow]

RotationInv ==
    faults = 0 /\ Found /\ cred.tokens # NoTokens =>
        \/ HasLast(cred.tokens)
        \/ \E p \in Process : /\ Owns(p) /\ process[p].pc \in Storing
                              /\ HasLast(process[p].tokens)

IInv ==
    /\ TypeOK /\ RowsInv /\ FlowsInv /\ OneOwner /\ JobsInv
    /\ DisconnectForgets /\ ConnectedIsKept /\ RotationInv

-----------------------------------------------------------------------------
(* What the steps of others leave alone. *)

\* The rows change around invocation d, which does not move: they grow, and
\* nobody stores or rotates tokens, or disables the connection, while d has
\* the lease.
Around(d) ==
    /\ \/ conn'.ver > conn.ver
       \/ conn'.ver = conn.ver /\ conn'.status = conn.status /\ conn'.flow = conn.flow
    /\ conn.status = "disconnected" => conn'.status = "disconnected"
    /\ conn.status # "disconnected" /\ conn'.status = "disconnected" => ~Kept(d)
    /\ cred' = cred \/ cred'.ver > cred.ver
    /\ cred' = cred \/ cred'.tokens = NoTokens \/ ~Kept(d)
    /\ cred'.tokens = NoTokens /\ cred.tokens # NoTokens
         => conn'.ver > conn.ver \/ conn.status = "disconnected"
    /\ lock'.ver >= lock.ver
    /\ Owns(d) => \/ lock' = lock
                  \/ /\ lock'.ver = lock.ver
                     /\ process[d].op \in Refreshing /\ faults' # 0
    /\ faults <= faults'
    /\ \A f \in Flow : turn[f] <= turn'[f]
    /\ revoked \subseteq revoked'
    /\ turn' # turn /\ faults' = 0 => ~Kept(d)

LEMMA PlaceOfJob ==
    ASSUME TypeOK, NEW p \in Process, process[p].pc # "idle"
    PROVE  process[p] \in Job /\ process[p] # Idle
  BY DEF TypeOK, Idle

LEMMA JobIsBusy == \A k \in Job : k # Idle /\ k.pc # "idle"
  BY DEF Job, Idle, Pc, Leased, Storing

LEMMA Widths ==
    /\ Flow \subseteq Nat \ {0}
    /\ MaxFlows \in Nat /\ MaxTurns \in Nat /\ MaxVersion \in Nat /\ MaxLease \in Nat
    /\ MaxFaults \in Nat
    /\ \A t \in Tokens : t.flow \in Flow /\ t.turn \in 0 .. MaxTurns /\ t # NoTokens
    /\ NoTokens.flow = 0
  BY ConnectionAssumption DEF Flow, Tokens, NoTokens, NoFlow

LEMMA OthersKept ==
    ASSUME IInv, TypeOK', NEW d \in Process, process'[d] = process[d], Around(d)
    PROVE  JobInv(process'[d], conn', cred', lock', turn', revoked', faults')
<1> DEFINE k == process[d]
<1> SUFFICES ASSUME k # Idle
             PROVE  JobInv(k, conn', cred', lock', turn', revoked', faults')
  BY DEF JobInv
<1>0. /\ k \in Job
      /\ conn \in ConnRow /\ conn' \in ConnRow
      /\ cred \in CredRow /\ cred' \in CredRow
      /\ lock \in LockRow /\ lock' \in LockRow
      /\ turn \in [Flow -> 0 .. MaxTurns] /\ turn' \in [Flow -> 0 .. MaxTurns]
      /\ faults \in Nat /\ faults' \in Nat
  BY DEF IInv, TypeOK, RowsTypeOK, ConnRow, CredRow, LockRow
<1>1. /\ PlaceInv(k) /\ ConnInv(k, conn) /\ LeaseInv(k, conn, lock, faults)
      /\ CredInv(k, conn, cred, turn, revoked) /\ CalmInv(k, cred, turn, faults)
  BY DEF IInv, JobsInv, JobInv
<1>2. /\ k.conn.ver \in Nat /\ k.seen \in Nat /\ k.lease \in Nat
      /\ conn.ver \in Nat /\ conn'.ver \in Nat /\ cred.ver \in Nat /\ cred'.ver \in Nat
      /\ lock.ver \in Nat /\ lock'.ver \in Nat
  BY <1>0 DEF Job, ConnRow, CredRow, LockRow
<1>3. Kept(d) <=> k.lease # Absent /\ k.lease = lock.ver
  BY DEF Kept, Matches
<1>4. ConnInv(k, conn')
  BY <1>1, <1>2 DEF Around, ConnInv
<1>5. LeaseInv(k, conn', lock', faults')
  <2>1. k.lease <= lock'.ver
    BY <1>1, <1>2 DEF Around, LeaseInv
  <2>2. k.lease # Absent /\ (k.op \notin Refreshing \/ faults' = 0)
          => lock'.ver = k.lease /\ lock'.held
    BY <1>0, <1>1, <1>3 DEF Around, LeaseInv, Owns
  <2>3. k.pc \in {"version", "save"} /\ conn'.status = "disconnected" => k.lease # lock'.ver
    <3>1. k.pc \in {"version", "save"} => k.lease # Absent
      BY <1>1 DEF PlaceInv, Leased, Storing
    <3> QED  BY <1>1, <1>2, <1>3, <3>1 DEF Around, LeaseInv
  <2> QED  BY <2>1, <2>2, <2>3 DEF LeaseInv
<1>6. CredInv(k, conn', cred', turn', revoked')
  <2>1. k.seen <= cred'.ver
    BY <1>1, <1>2 DEF Around, CredInv
  <2>2. k.pc \in {"refresh"} \cup Storing =>
           k.tokens # NoTokens /\ k.tokens.turn <= turn'[k.tokens.flow]
    <3> HAVE k.pc \in {"refresh"} \cup Storing
    <3>1. k.tokens # NoTokens /\ k.tokens.turn <= turn[k.tokens.flow]
      BY <1>1 DEF CredInv
    <3>2. k.tokens.flow \in Flow /\ k.tokens.turn \in Nat
      BY <1>0, <3>1, Widths DEF Job
    <3> QED  BY <1>0, <3>1, <3>2 DEF Around
  <2>3. k.seen = cred'.ver => cred' = cred
    BY <1>1, <1>2 DEF Around, CredInv
  <2>4. k.conn.ver = conn'.ver => conn'.ver = conn.ver /\ conn'.status = conn.status
    BY <1>1, <1>2 DEF Around, ConnInv
  <2>5. ASSUME cred.tokens # NoTokens, Spent(cred.tokens, turn, revoked)
        PROVE  Spent(cred.tokens, turn', revoked')
    <3>1. cred.tokens.flow \in Flow /\ cred.tokens.turn \in Nat
      BY <1>0, <2>5, Widths DEF CredRow
    <3>2. cred.tokens.turn <= turn[cred.tokens.flow]
      BY <2>5 DEF IInv, RowsInv
    <3>3. /\ turn[cred.tokens.flow] \in Nat /\ turn'[cred.tokens.flow] \in Nat
          /\ turn[cred.tokens.flow] <= turn'[cred.tokens.flow]
      BY <1>0, <3>1 DEF Around
    <3> QED  BY <2>5, <3>1, <3>2, <3>3 DEF Around, Spent
  <2>6. /\ k.pc = "status" /\ k.result = "denied"
        /\ k.seen = cred'.ver /\ k.conn.ver = conn'.ver /\ conn'.status = "connected"
        => cred'.tokens = NoTokens \/ Spent(cred'.tokens, turn', revoked')
    BY <1>1, <2>3, <2>4, <2>5 DEF CredInv
  <2>7. k.pc = "connect" /\ k.conn.ver = conn'.ver => cred'.tokens # NoTokens
    BY <1>1, <1>2, <2>4 DEF Around, CredInv, ConnInv
  <2> QED  BY <1>1, <2>1, <2>2, <2>3, <2>6, <2>7 DEF CredInv
<1>7. CalmInv(k, cred', turn', faults')
  <2> SUFFICES ASSUME faults' = 0 PROVE CalmInv(k, cred', turn', faults')
    BY DEF CalmInv
  <2>1. faults = 0
    BY <1>0 DEF Around
  <2>2. k.pc \in {"refresh"} \cup Storing => Kept(d)
    BY <1>1, <1>3, <2>1 DEF PlaceInv, LeaseInv, Leased
  <2> QED  BY <1>1, <2>1, <2>2 DEF CalmInv, Around, Storing
<1> QED  BY <1>1, <1>4, <1>5, <1>6, <1>7 DEF JobInv

\* Only the invocations in M move.
Moves(M) == \A d \in Process \ M : process'[d] = process[d]

\* A flow that did not come back yet is one that did not before, and nobody
\* gets tokens of it.
FlowStep(M) ==
    \A f \in Flow : f \in states' \/ f > flows' =>
        /\ f \in states \/ f > flows
        /\ turn'[f] = turn[f] /\ cred'.tokens.flow # f
        /\ \A p \in M : process'[p] # Idle => process'[p].tokens.flow # f

\* A lease is kept, let go of, or the next one.
LeaseStep(p) ==
    process'[p] # Idle =>
        \/ process'[p].lease = Absent
        \/ process[p] # Idle /\ process'[p].lease = process[p].lease
        \/ process'[p].lease = lock.ver + 1

LEMMA StepKeeps ==
    ASSUME IInv, TypeOK', NEW M \in SUBSET Process, \A p, q \in M : p = q, Moves(M),
           \A d \in Process \ M : Around(d),
           \A p \in M : /\ JobInv(process'[p], conn', cred', lock', turn', revoked', faults')
                        /\ LeaseStep(p),
           FlowStep(M), RowsInv', DisconnectForgets', ConnectedIsKept', RotationInv'
    PROVE  IInv'
<1>1. JobsInv'
  <2> SUFFICES ASSUME NEW d \in Process
               PROVE  JobInv(process'[d], conn', cred', lock', turn', revoked', faults')
    BY DEF JobsInv
  <2>1. CASE d \in M
    BY <2>1
  <2>2. CASE d \notin M
    BY <2>2, OthersKept DEF Moves
  <2> QED  BY <2>1, <2>2
<1>2. OneOwner'
  <2>1. \A p \in Process : process[p] # Idle => process[p].lease \in Nat /\ process[p].lease <= lock.ver
    <3> SUFFICES ASSUME NEW p \in Process, process[p] # Idle
                 PROVE  process[p].lease \in Nat /\ process[p].lease <= lock.ver
      OBVIOUS
    <3>1. process[p] \in Job /\ LeaseInv(process[p], conn, lock, faults)
      BY DEF IInv, TypeOK, JobsInv, JobInv
    <3> QED  BY <3>1 DEF LeaseInv, Job
  <2>2. lock.ver \in Nat
    BY DEF IInv, TypeOK, RowsTypeOK, LockRow
  <2>3. \A p \in Process : process'[p] # Idle =>
            \/ process'[p].lease = Absent
            \/ process[p] # Idle /\ process'[p].lease = process[p].lease
            \/ p \in M /\ process'[p].lease = lock.ver + 1
    BY DEF Moves, LeaseStep
  <2> SUFFICES ASSUME NEW p \in Process, NEW q \in Process,
                      process'[p] # Idle, process'[q] # Idle,
                      process'[p].lease # Absent, process'[p].lease = process'[q].lease
               PROVE  p = q
    BY DEF OneOwner
  <2>4. CASE process[p] # Idle /\ process'[p].lease = process[p].lease
    <3>1. process'[q].lease # lock.ver + 1
      BY <2>1, <2>2, <2>4
    <3>2. process[q] # Idle /\ process'[q].lease = process[q].lease
      BY <2>3, <3>1
    <3> QED  BY <2>4, <3>2 DEF IInv, OneOwner
  <2>5. CASE p \in M /\ process'[p].lease = lock.ver + 1
    <3>1. ~(process[q] # Idle /\ process'[q].lease = process[q].lease)
      BY <2>1, <2>2, <2>5
    <3>2. q \in M
      BY <2>3, <3>1
    <3> QED  BY <2>5, <3>2
  <2> QED  BY <2>3, <2>4, <2>5
<1>3. FlowsInv'
  <2> SUFFICES ASSUME NEW f \in Flow, f \in states' \/ f > flows'
               PROVE  /\ turn'[f] = 0 /\ cred'.tokens.flow # f
                      /\ \A p \in Process : process'[p] # Idle => process'[p].tokens.flow # f
    BY DEF FlowsInv
  <2>1. /\ turn[f] = 0
        /\ \A p \in Process : process[p] # Idle => process[p].tokens.flow # f
    BY DEF FlowStep, IInv, FlowsInv
  <2> QED  BY <2>1 DEF FlowStep, Moves
<1> QED  BY <1>1, <1>2, <1>3 DEF IInv

\* The last rotation is where it was, when the step neither rotates nor stores
\* tokens and the owner of the lease goes on.
LEMMA RotationKept ==
    ASSUME IInv, NEW M \in SUBSET Process, Moves(M), \A d \in Process \ M : Around(d),
           cred'.tokens \in {cred.tokens, NoTokens}, turn' = turn,
           conn.status = "disconnected" => conn'.status = "disconnected",
           faults \in Nat, faults' \in Nat, faults <= faults',
           \A p \in M : process[p].pc \in Storing =>
               \/ faults' # 0
               \/ conn'.status = "disconnected"
               \/ cred'.tokens = NoTokens
               \/ /\ process'[p].pc \in Storing /\ process'[p].tokens = process[p].tokens
                  /\ process'[p].lease = process[p].lease /\ lock' = lock
    PROVE  RotationInv'
<1> SUFFICES ASSUME faults' = 0, conn'.status # "disconnected", cred'.tokens # NoTokens
             PROVE  \/ HasLast(cred.tokens)'
                    \/ \E p \in Process : /\ Owns(p)' /\ process'[p].pc \in Storing
                                          /\ HasLast(process[p].tokens)'
  BY DEF RotationInv, Found
<1>1. /\ cred'.tokens = cred.tokens /\ turn' = turn
      /\ faults = 0 /\ conn.status # "disconnected" /\ cred.tokens # NoTokens
  OBVIOUS
<1>2. CASE HasLast(cred.tokens)
  BY <1>1, <1>2 DEF HasLast
<1>3. ASSUME NEW p \in Process, Owns(p), process[p].pc \in Storing, HasLast(process[p].tokens)
      PROVE  /\ Owns(p)' /\ process'[p].pc \in Storing
             /\ HasLast(process[p].tokens)'
  <2>1. CASE p \in M
    <3>1. /\ process'[p].pc \in Storing /\ process'[p].tokens = process[p].tokens
          /\ process'[p].lease = process[p].lease /\ lock' = lock
      BY <1>3, <2>1
    <3>2. process'[p] # Idle
      BY <3>1 DEF Idle, Storing
    <3> QED  BY <1>1, <1>3, <3>1, <3>2 DEF Owns, Kept, Matches, HasLast
  <2>2. CASE p \notin M
    <3>1. process'[p] = process[p] /\ lock' = lock
      BY <1>3, <2>2 DEF Moves, Around
    <3> QED  BY <1>1, <1>3, <3>1 DEF Owns, Kept, Matches, HasLast
  <2> QED  BY <2>1, <2>2
<1> QED  BY <1>1, <1>2, <1>3 DEF IInv, RotationInv, Found

-----------------------------------------------------------------------------
(* Steps that write no row but the lease. *)

LEMMA OnlyOwner ==
    ASSUME IInv, NEW p \in Process, NEW d \in Process, Kept(p), Kept(d)
    PROVE  p = d
  BY DEF IInv, OneOwner, Kept, Matches

\* p acquires the lease, lets go of it, or does neither.
LockMoves(p) ==
    /\ lock' \in LockRow
    /\ \/ lock' = lock
       \/ (Kept(p) \/ ~lock.held) /\ lock'.ver = lock.ver + 1

\* Nobody takes p's lease: those of others are as they were.
LEMMA LockAround ==
    ASSUME IInv, NEW p \in Process, NEW d \in Process \ {p}, LockMoves(p)
    PROVE  lock'.ver >= lock.ver /\ (Owns(d) => lock' = lock)
<1>1. lock.ver \in Nat /\ lock'.ver \in Nat
  BY DEF IInv, TypeOK, RowsTypeOK, LockMoves, LockRow
<1>2. Owns(d) => lock.held /\ ~Kept(p)
  BY OnlyOwner DEF Owns
<1> QED  BY <1>1, <1>2 DEF LockMoves

LEMMA LocalStep ==
    ASSUME IInv, NEW p \in Process, Moves({p}), process' \in [Process -> Job \cup {Idle}],
           LockMoves(p), LeaseStep(p),
           JobInv(process'[p], conn, cred, lock', turn, revoked, faults'),
           UNCHANGED <<conn, cred, turn, revoked, flows>>,
           forgotten' \in BOOLEAN, DisconnectForgets', jobs' \subseteq 1 .. MaxVersion,
           states' \subseteq states, faults' \in 0 .. MaxFaults, faults <= faults',
           process'[p] # Idle =>
               \A f \in Flow : f \in states' \/ f > flows => process'[p].tokens.flow # f,
           process[p].pc \in Storing =>
               \/ faults' # 0
               \/ conn.status = "disconnected"
               \/ cred.tokens = NoTokens
               \/ /\ process'[p].pc \in Storing /\ process'[p].tokens = process[p].tokens
                  /\ process'[p].lease = process[p].lease /\ lock' = lock
    PROVE  IInv'
<1>0. faults \in Nat /\ faults' \in Nat /\ turn \in [Flow -> 0 .. MaxTurns]
  BY DEF IInv, TypeOK, RowsTypeOK
<1>1. TypeOK'
  BY DEF IInv, TypeOK, RowsTypeOK, LockMoves, LockRow
<1>2. \A d \in Process \ {p} : Around(d)
  BY <1>0, LockAround DEF Around
<1>3. RowsInv' /\ DisconnectForgets' /\ ConnectedIsKept'
  BY DEF IInv, RowsInv, ConnectedIsKept
<1>4. FlowStep({p})
  BY DEF FlowStep, IInv, FlowsInv
<1>5. RotationInv'
  BY <1>0, <1>2, RotationKept
<1> QED  BY <1>1, <1>2, <1>3, <1>4, <1>5, StepKeeps

\* The tokens p has are of a flow that came back.
LEMMA KnownFlow ==
    ASSUME IInv, NEW p \in Process, process[p] # Idle
    PROVE  /\ \A f \in Flow : f \in states \/ f > flows => process[p].tokens.flow # f
           /\ \A f \in Flow : f \in states \/ f > flows => cred.tokens.flow # f
           /\ \A f \in Flow : NoTokens.flow # f
  BY Widths DEF IInv, FlowsInv

LEMMA ReleasedMoves ==
    ASSUME IInv, NEW p \in Process, lock' = Released(p)
    PROVE  LockMoves(p) /\ (Kept(p) => lock'.ver = lock.ver + 1 /\ ~lock'.held)
<1> DEFINE l == [lock EXCEPT !.held = FALSE]
<1>1. lock \in LockRow
  BY DEF IInv, TypeOK, RowsTypeOK, LockRow
<1>2. l \in LockRow /\ ~l.held /\ lock.ver \in Nat
  BY <1>1 DEF LockRow
<1> HIDE DEF l
<1>3. /\ Stored(l, lock.ver) \in LockRow /\ Stored(l, lock.ver).ver = lock.ver + 1
      /\ ~Stored(l, lock.ver).held
  BY <1>2 DEF Stored, LockRow
<1> QED  BY <1>1, <1>3 DEF Released, LockMoves, l

\* An invocation ends, with or without letting go of the lease.
LEMMA EndStep ==
    ASSUME IInv, NEW p \in Process, Return(p), lock' \in {lock, Released(p)},
           UNCHANGED <<conn, cred, turn, revoked, flows>>,
           forgotten' \in BOOLEAN, DisconnectForgets', jobs' \subseteq 1 .. MaxVersion,
           states' \subseteq states, faults' \in 0 .. MaxFaults, faults <= faults',
           process[p].pc \in Storing =>
               faults' # 0 \/ conn.status = "disconnected" \/ cred.tokens = NoTokens
    PROVE  IInv'
<1>1. /\ process' \in [Process -> Job \cup {Idle}] /\ Moves({p}) /\ process'[p] = Idle
  BY DEF IInv, TypeOK, Return, Become, Moves
<1>2. LockMoves(p)
  BY ReleasedMoves DEF IInv, TypeOK, RowsTypeOK, LockMoves, LockRow
<1>3. LeaseStep(p) /\ JobInv(process'[p], conn, cred, lock', turn, revoked, faults')
  BY <1>1 DEF LeaseStep, JobInv
<1> QED  BY <1>1, <1>2, <1>3, LocalStep

\* The invariant of the invocation p.
LEMMA JobFacts ==
    ASSUME IInv, NEW p \in Process, process[p].pc # "idle"
    PROVE  /\ process[p] \in Job /\ process[p] # Idle
           /\ PlaceInv(process[p]) /\ ConnInv(process[p], conn)
           /\ LeaseInv(process[p], conn, lock, faults)
           /\ CredInv(process[p], conn, cred, turn, revoked)
           /\ CalmInv(process[p], cred, turn, faults)
  BY DEF IInv, TypeOK, JobsInv, JobInv, Idle

\* The rows as records.
LEMMA RowFacts ==
    ASSUME IInv
    PROVE  /\ conn \in ConnRow /\ cred \in CredRow /\ lock \in LockRow
           /\ turn \in [Flow -> 0 .. MaxTurns] /\ faults \in 0 .. MaxFaults
           /\ jobs \subseteq 1 .. MaxVersion /\ flows \in 0 .. MaxFlows
           /\ states \subseteq 1 .. flows
           /\ process \in [Process -> Job \cup {Idle}]
           /\ conn.status \in {"authorization_pending", "connected"} => conn.flow # NoFlow
  BY DEF IInv, TypeOK, RowsTypeOK, ConnRow, CredRow, LockRow

\* What was said of a disconnect stays true.
LEMMA ForgottenKept ==
    ASSUME IInv, UNCHANGED <<conn, cred, history>>
    PROVE  forgotten' \in BOOLEAN /\ DisconnectForgets'
  BY DEF IInv, TypeOK, RowsTypeOK, DisconnectForgets, history

\* A refusal counts against the credentials that were there when the refresh
\* began.
Refused(k) ==
    k.seen = cred.ver /\ k.conn.ver = conn.ver /\ conn.status = "connected"
      => cred.tokens = NoTokens \/ Spent(cred.tokens, turn, revoked)

\* A refresh has its result and lets go of the lease.
LEMMA RefreshedMoves ==
    ASSUME IInv, NEW p \in Process, process[p].pc # "idle", process[p].op \in Refreshing,
           NEW result \in {"ok", "denied", "transient"}, Refreshed(p, result)
    PROVE  /\ process' \in [Process -> Job \cup {Idle}] /\ Moves({p})
           /\ lock' = Released(p)
           /\ process'[p] # Idle =>
                 /\ process'[p] \in Job
                 /\ process'[p].pc = "status" /\ process'[p].op = process[p].op
                 /\ process'[p].conn = process[p].conn /\ process'[p].seen = process[p].seen
                 /\ process'[p].lease = Absent /\ process'[p].tokens = NoTokens
                 /\ process'[p].result = result
                 /\ result = "denied" \/ process[p].op = "refresh"
<1>1. process[p] \in Job /\ process \in [Process -> Job \cup {Idle}]
  BY JobFacts, RowFacts
<1>2. CASE Return(p)
  BY <1>1, <1>2 DEF Return, Become, Moves, Refreshed
<1>3. CASE Become(p, [process[p] EXCEPT !.pc = "status", !.lease = Absent, !.cred = Absent,
                          !.tokens = NoTokens, !.result = result])
           /\ (Is(p, "refresh") \/ result = "denied")
  <2> DEFINE k == [process[p] EXCEPT !.pc = "status", !.lease = Absent, !.cred = Absent,
                                     !.tokens = NoTokens, !.result = result]
  <2>1. /\ k \in Job /\ k.pc = "status" /\ k.op = process[p].op /\ k.conn = process[p].conn
        /\ k.seen = process[p].seen /\ k.lease = Absent /\ k.tokens = NoTokens
        /\ k.result = result
    BY <1>1 DEF Job, Pc, Absent
  <2>2. process' = [process EXCEPT ![p] = k]
    BY <1>3 DEF Become
  <2> HIDE DEF k
  <2> QED  BY <1>1, <1>3, <2>1, <2>2 DEF Moves, Is, Refreshed
<1> QED  BY <1>2, <1>3 DEF Refreshed

LEMMA RefreshedInv ==
    ASSUME IInv, NEW p \in Process, process[p].pc # "idle", process[p].op \in Refreshing,
           NEW result \in {"ok", "denied", "transient"}, Refreshed(p, result),
           NEW d, NEW tu, process[p].seen <= d.ver,
           result = "denied" => Refused(process[p]) /\ d = cred /\ tu = turn
    PROVE  /\ LockMoves(p) /\ LeaseStep(p)
           /\ JobInv(process'[p], conn, d, lock', tu, revoked, faults')
<1> DEFINE k == process'[p]
<1>1. LockMoves(p)
  BY RefreshedMoves, ReleasedMoves
<1>2. LeaseStep(p)
  BY RefreshedMoves DEF LeaseStep
<1> SUFFICES ASSUME k # Idle
             PROVE  JobInv(k, conn, d, lock', tu, revoked, faults')
  BY <1>1, <1>2 DEF JobInv
<1>3. /\ k.pc = "status" /\ k.op = process[p].op
      /\ k.conn = process[p].conn /\ k.seen = process[p].seen
      /\ k.lease = Absent /\ k.result = result
      /\ result = "denied" \/ process[p].op = "refresh"
  BY RefreshedMoves
<1>4. /\ ConnInv(process[p], conn) /\ CredInv(process[p], conn, cred, turn, revoked)
      /\ PlaceInv(process[p])
  BY JobFacts
<1>5. PlaceInv(k)
  BY <1>3 DEF PlaceInv, Leased, Storing
<1>6. ConnInv(k, conn)
  BY <1>3, <1>4 DEF ConnInv
<1>7. LeaseInv(k, conn, lock', faults')
  <2>1. lock'.ver \in Nat
    BY <1>1 DEF LockMoves, LockRow
  <2> QED  BY <1>3, <2>1 DEF LeaseInv, Absent
<1>8. CredInv(k, conn, d, tu, revoked)
  BY <1>3, <1>4 DEF CredInv, Refused, Storing
<1>9. CalmInv(k, d, tu, faults')
  BY <1>3 DEF CalmInv, Storing
<1> QED  BY <1>5, <1>6, <1>7, <1>8, <1>9 DEF JobInv

LEMMA RefreshedStep ==
    ASSUME IInv, NEW p \in Process, process[p].pc # "idle", process[p].op \in Refreshing,
           NEW result \in {"ok", "denied", "transient"}, Refreshed(p, result),
           result = "denied" => Refused(process[p]),
           process[p].pc \in Storing =>
               faults # 0 \/ conn.status = "disconnected" \/ cred.tokens = NoTokens,
           UNCHANGED <<conn, cred, browser, jobs, provider, history>>
    PROVE  IInv'
<1>1. /\ process' \in [Process -> Job \cup {Idle}] /\ Moves({p})
      /\ process'[p] # Idle => process'[p].tokens = NoTokens
  BY RefreshedMoves
<1>2. /\ LockMoves(p) /\ LeaseStep(p)
      /\ JobInv(process'[p], conn, cred, lock', turn, revoked, faults')
  BY RefreshedInv, JobFacts DEF CredInv
<1>3. process'[p] # Idle => \A f \in Flow : process'[p].tokens.flow # f
  BY <1>1, Widths
<1>4. /\ faults' = faults /\ faults \in 0 .. MaxFaults /\ faults <= faults'
      /\ jobs' \subseteq 1 .. MaxVersion /\ states' \subseteq states
      /\ UNCHANGED <<conn, cred, turn, revoked, flows>>
      /\ forgotten' \in BOOLEAN /\ DisconnectForgets'
  BY RowFacts, Widths, ForgottenKept DEF browser, provider, history
<1> QED  BY <1>1, <1>2, <1>3, <1>4, LocalStep

\* A call into the stores fails.
LEMMA FailsStep ==
    ASSUME IInv, NEW p \in Process, process[p].pc # "idle",
           process[p].op \in {"callback", "disconnect"} \cup Refreshing,
           NEW result \in {"denied", "transient"}, Fails(p, result),
           result = "denied" => Refused(process[p]),
           process[p].pc \in Storing =>
               faults # 0 \/ conn.status = "disconnected" \/ cred.tokens = NoTokens,
           UNCHANGED <<conn, cred, browser, jobs, provider, history>>
    PROVE  IInv'
<1>1. CASE process[p].op \in {"callback", "disconnect"}
  <2>1. Return(p) /\ lock' = Released(p)
    BY <1>1 DEF Fails, Abort
  <2>2. /\ faults' = faults /\ faults \in 0 .. MaxFaults /\ faults <= faults'
        /\ jobs' \subseteq 1 .. MaxVersion /\ states' \subseteq states
        /\ UNCHANGED <<conn, cred, turn, revoked, flows>>
        /\ forgotten' \in BOOLEAN /\ DisconnectForgets'
    BY RowFacts, Widths, ForgottenKept DEF browser, provider, history
  <2> QED  BY <2>1, <2>2, EndStep
<1>2. CASE process[p].op \notin {"callback", "disconnect"}
  BY <1>2, RefreshedStep DEF Fails
<1> QED  BY <1>1, <1>2

\* An invocation goes on with the tokens it had, none, or those stored.
LEMMA GoOn ==
    ASSUME IInv, NEW p \in Process, NEW k \in Job,
           process' = [process EXCEPT ![p] = k],
           LockMoves(p),
           k.lease = Absent \/ (process[p] # Idle /\ k.lease = process[p].lease)
                            \/ k.lease = lock.ver + 1,
           JobInv(k, conn, cred, lock', turn, revoked, faults),
           UNCHANGED <<conn, cred, browser, jobs, provider, history>>,
           k.tokens = NoTokens \/ k.tokens = cred.tokens
                \/ (process[p] # Idle /\ k.tokens = process[p].tokens),
           process[p].pc \in Storing =>
               /\ k.pc \in Storing /\ k.tokens = process[p].tokens
               /\ k.lease = process[p].lease /\ lock' = lock
    PROVE  IInv'
<1>1. /\ process' \in [Process -> Job \cup {Idle}] /\ Moves({p}) /\ process'[p] = k
  BY RowFacts DEF Moves
<1>2. LeaseStep(p)
  BY <1>1 DEF LeaseStep
<1>3. \A f \in Flow : f \in states \/ f > flows => k.tokens.flow # f
  <2>1. \A f \in Flow : NoTokens.flow # f
    BY Widths
  <2>2. \A f \in Flow : f \in states \/ f > flows => cred.tokens.flow # f
    BY DEF IInv, FlowsInv
  <2> QED  BY <2>1, <2>2, KnownFlow
<1>4. /\ faults' = faults /\ faults \in 0 .. MaxFaults /\ faults <= faults'
      /\ jobs' \subseteq 1 .. MaxVersion /\ states' = states /\ states' \subseteq states
      /\ UNCHANGED <<conn, cred, turn, revoked, flows>>
      /\ forgotten' \in BOOLEAN /\ DisconnectForgets'
  BY RowFacts, Widths, ForgottenKept DEF browser, provider, history
<1> QED  BY <1>1, <1>2, <1>3, <1>4, LocalStep

\* Nothing is acquired while another invocation owns the lease.
LEMMA AcquireKeeps ==
    ASSUME IInv, NEW p \in Process, At(p, "acquire"), NEW pc \in {"exchange", "disable", "load"},
           \/ Is(p, "callback") /\ pc = "exchange"
           \/ Is(p, "disconnect") /\ pc = "disable"
           \/ process[p].op \in Refreshing /\ pc = "load",
           Acquire(p, pc),
           UNCHANGED <<conn, cred, browser, jobs, provider, history>>
    PROVE  IInv'
<1> DEFINE old == process[p]
           k == [old EXCEPT !.pc = pc, !.lease = lock.ver + 1]
           l == [lock EXCEPT !.held = TRUE]
<1>0. /\ old \in Job /\ old # Idle /\ PlaceInv(old) /\ ConnInv(old, conn)
      /\ CredInv(old, conn, cred, turn, revoked)
  BY JobFacts DEF At
<1>1. lock \in LockRow /\ lock.ver \in Nat /\ ~lock.held
  BY RowFacts DEF Acquire, Acquirable, LockRow
<1>2. l \in LockRow /\ l.held
  BY <1>1 DEF LockRow
<1> HIDE DEF l
<1>3. Stored(l, lock.ver) \in LockRow /\ Stored(l, lock.ver).ver = lock.ver + 1
      /\ Stored(l, lock.ver).held
  BY <1>1, <1>2 DEF Stored, LockRow
<1>4. lock' \in LockRow /\ lock'.ver = lock.ver + 1 /\ lock'.held
  BY <1>3 DEF Acquire, l
<1>5. LockMoves(p)
  BY <1>1, <1>4 DEF LockMoves
<1>14. pc \in Pc /\ lock.ver + 1 \in Nat
  BY <1>1 DEF Pc, Leased
<1>6. /\ k \in Job /\ k.pc = pc /\ k.lease = lock.ver + 1 /\ k.op = old.op
      /\ k.conn = old.conn /\ k.seen = old.seen /\ k.tokens = old.tokens
  BY <1>0, <1>14 DEF Job
<1>7. process' = [process EXCEPT ![p] = k]
  BY DEF Acquire, Become
<1> HIDE DEF k
<1>8. PlaceInv(k)
  BY <1>1, <1>6 DEF PlaceInv, Leased, Storing, Absent, Is, Refreshing
<1>9. ConnInv(k, conn)
  BY <1>0, <1>6 DEF ConnInv
<1>10. LeaseInv(k, conn, lock', faults)
  BY <1>1, <1>4, <1>6 DEF LeaseInv
<1>11. CredInv(k, conn, cred, turn, revoked) /\ CalmInv(k, cred, turn, faults)
  BY <1>0, <1>6 DEF CredInv, CalmInv, Storing
<1>12. JobInv(k, conn, cred, lock', turn, revoked, faults)
  BY <1>8, <1>9, <1>10, <1>11 DEF JobInv
<1> HIDE DEF old
<1>13. process[p].pc \notin Storing
  BY DEF At, Storing
<1> QED  BY <1>0, <1>5, <1>6, <1>7, <1>12, <1>13, GoOn DEF old

LEMMA SaveCheckKeeps ==
    ASSUME IInv, NEW p \in Process, SaveCheck(p)
    PROVE  IInv'
<1> DEFINE old == process[p]
           k == [old EXCEPT !.pc = "version"]
<1>0. /\ old \in Job /\ old # Idle /\ PlaceInv(old) /\ ConnInv(old, conn)
      /\ LeaseInv(old, conn, lock, faults)
      /\ CredInv(old, conn, cred, turn, revoked) /\ CalmInv(old, cred, turn, faults)
      /\ old.pc = "check"
  BY JobFacts DEF At, SaveCheck
<1>1. CASE ~Active
  <2>1. old.op \in {"callback", "disconnect"} \cup Refreshing /\ Refused(old)
    BY <1>0, <1>1 DEF PlaceInv, Storing, Refused, Active
  <2> QED  BY <1>0, <1>1, <2>1, FailsStep DEF SaveCheck, Active
<1>2. CASE Active
  <2>1. /\ k \in Job /\ k.pc = "version" /\ k.lease = old.lease /\ k.op = old.op
        /\ k.conn = old.conn /\ k.seen = old.seen /\ k.tokens = old.tokens /\ k.cred = old.cred
    BY <1>0 DEF Job, Pc, Leased, Storing
  <2>2. process' = [process EXCEPT ![p] = k] /\ lock' = lock
    BY <1>2 DEF SaveCheck, Goto, Become
  <2> HIDE DEF k
  <2>3. PlaceInv(k)
    BY <1>0, <2>1 DEF PlaceInv, Leased, Storing
  <2>4. ConnInv(k, conn) /\ LeaseInv(k, conn, lock, faults)
    BY <1>0, <1>2, <2>1 DEF ConnInv, LeaseInv, Active
  <2>5. CredInv(k, conn, cred, turn, revoked) /\ CalmInv(k, cred, turn, faults)
    BY <1>0, <2>1 DEF CredInv, CalmInv, Storing
  <2>6. LockMoves(p)
    BY <2>2, RowFacts DEF LockMoves
  <2>7. JobInv(k, conn, cred, lock', turn, revoked, faults)
    BY <2>2, <2>3, <2>4, <2>5 DEF JobInv
  <2>8. k.pc \in Storing
    BY <2>1 DEF Storing
  <2> QED  BY <1>0, <2>1, <2>2, <2>6, <2>7, <2>8, GoOn DEF SaveCheck
<1> QED  BY <1>1, <1>2

LEMMA SaveVersionKeeps ==
    ASSUME IInv, NEW p \in Process, SaveVersion(p)
    PROVE  IInv'
<1> DEFINE old == process[p]
           k == [old EXCEPT !.pc = "save", !.cred = cred.ver]
<1>0. /\ old \in Job /\ old # Idle /\ PlaceInv(old) /\ ConnInv(old, conn)
      /\ LeaseInv(old, conn, lock, faults)
      /\ CredInv(old, conn, cred, turn, revoked) /\ CalmInv(old, cred, turn, faults)
      /\ old.pc = "version"
  BY JobFacts DEF At, SaveVersion
<1>1. CASE ~Owns(p)
  <2>1. old.op \in {"callback", "disconnect"} \cup Refreshing
    BY <1>0 DEF PlaceInv, Storing
  <2>2. faults # 0
    BY <1>0, <1>1 DEF PlaceInv, LeaseInv, Owns, Kept, Matches, Leased, Storing
  <2> QED  BY <1>0, <1>1, <2>1, <2>2, FailsStep DEF SaveVersion
<1>2. CASE Owns(p)
  <2>0. cred.ver \in Nat
    BY RowFacts DEF CredRow
  <2>1. /\ k \in Job /\ k.pc = "save" /\ k.lease = old.lease /\ k.op = old.op
        /\ k.conn = old.conn /\ k.seen = old.seen /\ k.tokens = old.tokens /\ k.cred = cred.ver
    BY <1>0, <2>0 DEF Job, Pc, Leased, Storing
  <2>2. process' = [process EXCEPT ![p] = k] /\ lock' = lock
    BY <1>2 DEF SaveVersion, Become
  <2> HIDE DEF k
  <2>3. PlaceInv(k)
    BY <1>0, <2>1 DEF PlaceInv, Leased, Storing
  <2>4. ConnInv(k, conn) /\ LeaseInv(k, conn, lock, faults)
    BY <1>0, <2>1 DEF ConnInv, LeaseInv
  <2>5. CredInv(k, conn, cred, turn, revoked) /\ CalmInv(k, cred, turn, faults)
    BY <1>0, <2>1 DEF CredInv, CalmInv, Storing
  <2>6. LockMoves(p)
    BY <2>2, RowFacts DEF LockMoves
  <2>7. JobInv(k, conn, cred, lock', turn, revoked, faults)
    BY <2>2, <2>3, <2>4, <2>5 DEF JobInv
  <2>8. k.pc \in Storing
    BY <2>1 DEF Storing
  <2> QED  BY <1>0, <2>1, <2>2, <2>6, <2>7, <2>8, GoOn DEF SaveVersion
<1> QED  BY <1>1, <1>2

LEMMA AcquireGuardKeeps ==
    ASSUME IInv, NEW p \in Process, AcquireGuard(p)
    PROVE  IInv'
  BY AcquireKeeps DEF AcquireGuard, Refreshing

LEMMA AcquireFailsKeeps ==
    ASSUME IInv, NEW p \in Process, AcquireFails(p)
    PROVE  IInv'
<1>1. process[p].pc # "idle" /\ process[p].pc \notin Storing
  BY DEF AcquireFails, At, Storing
<1>2. process[p].op \in {"callback", "disconnect"} \cup Refreshing
  BY <1>1, JobFacts DEF AcquireFails, At, PlaceInv, Job, Op, Refreshing
<1> QED  BY <1>1, <1>2, FailsStep DEF AcquireFails

\* An invocation that begins has read the connection and nothing else.
LEMMA BeginFacts ==
    ASSUME IInv, NEW op \in Op, NEW pc \in Pc
    PROVE  /\ Begin(op, pc) \in Job
           /\ Begin(op, pc).pc = pc /\ Begin(op, pc).op = op /\ Begin(op, pc).conn = conn
           /\ Begin(op, pc).seen = Absent /\ Begin(op, pc).lease = Absent
           /\ Begin(op, pc).tokens = NoTokens /\ Begin(op, pc).result = "ok"
<1>1. conn \in ConnRow /\ Absent \in Nat
  BY RowFacts DEF Absent
<1> QED  BY <1>1 DEF Begin, Job

\* It knows the connection as it is.
LEMMA BeginInv ==
    ASSUME IInv, NEW c \in ConnRow, c.status # "disconnected",
           c.status \in {"authorization_pending", "connected"} => c.flow # NoFlow,
           NEW k, k.conn = c, k.seen = Absent, k.lease = Absent, k.op \in Op,
           k.pc \in {"acquire", "credentials", "enqueue"}, k.pc = "enqueue" <=> k.op = "maintain",
           k.pc = "credentials" => k.op \in Refreshing,
           k.op = "maintain" => c.ver <= MaxVersion,
           k.op = "callback" => c.status = "authorization_pending",
           k.op \in {"refresh", "maintain"} => c.status = "connected"
    PROVE  JobInv(k, c, cred, lock, turn, revoked, faults)
<1>1. /\ cred.ver \in Nat /\ lock.ver \in Nat /\ c.ver \in Nat
  BY RowFacts DEF ConnRow, CredRow, LockRow
<1>2. PlaceInv(k)
  BY DEF PlaceInv, Leased, Storing, Op, Refreshing
<1>3. ConnInv(k, c)
  BY <1>1 DEF ConnInv
<1>4. LeaseInv(k, c, lock, faults)
  BY <1>1 DEF LeaseInv, Absent
<1>5. CredInv(k, c, cred, turn, revoked) /\ CalmInv(k, cred, turn, faults)
  BY <1>1 DEF CredInv, CalmInv, Storing, Absent
<1> QED  BY <1>2, <1>3, <1>4, <1>5 DEF JobInv

LEMMA StartCallbackKeeps ==
    ASSUME IInv, NEW p \in Process, NEW f \in Flow, StartCallback(p, f)
    PROVE  IInv'
<1> DEFINE b == Begin("callback", "acquire")
           k == [b EXCEPT !.flow = f]
<1>0. "callback" \in Op /\ "acquire" \in Pc
  BY DEF Op, Pc
<1>1. /\ b \in Job /\ b.pc = "acquire" /\ b.op = "callback" /\ b.conn = conn
      /\ b.seen = Absent /\ b.lease = Absent /\ b.tokens = NoTokens
  BY <1>0, BeginFacts
<1> HIDE DEF b
<1>2. /\ k \in Job /\ k.pc = "acquire" /\ k.op = "callback" /\ k.conn = conn
      /\ k.seen = Absent /\ k.lease = Absent /\ k.tokens = NoTokens
  BY <1>1 DEF Job
<1>3. process' = [process EXCEPT ![p] = k] /\ lock' = lock /\ process[p].pc \notin Storing
  BY DEF StartCallback, Become, rows, b, At, Storing
<1> HIDE DEF k
<1>4. JobInv(k, conn, cred, lock', turn, revoked, faults)
  BY <1>0, <1>2, <1>3, BeginInv, RowFacts DEF StartCallback, Refreshing
<1>5. LockMoves(p)
  BY <1>3, RowFacts DEF LockMoves
<1> QED  BY <1>2, <1>3, <1>4, <1>5, GoOn DEF StartCallback, rows

LEMMA StartKeeps ==
    ASSUME IInv, NEW p \in Process, At(p, "idle"), Found,
           NEW op \in {"disconnect", "task"}, NEW pc \in {"acquire", "credentials"},
           pc = "credentials" => op = "task",
           Become(p, Begin(op, pc)), UNCHANGED <<rows, browser, jobs, provider, history>>
    PROVE  IInv'
<1> DEFINE k == Begin(op, pc)
<1>0. op \in Op /\ pc \in Pc
  BY DEF Op, Pc
<1>1. /\ k \in Job /\ k.pc = pc /\ k.op = op /\ k.conn = conn
      /\ k.seen = Absent /\ k.lease = Absent /\ k.tokens = NoTokens
  BY <1>0, BeginFacts
<1>2. process' = [process EXCEPT ![p] = k] /\ lock' = lock /\ process[p].pc \notin Storing
  BY DEF Become, rows, At, Storing
<1> HIDE DEF k
<1>3. JobInv(k, conn, cred, lock', turn, revoked, faults)
  BY <1>0, <1>1, <1>2, BeginInv, RowFacts DEF Found, Refreshing
<1>4. LockMoves(p)
  BY <1>2, RowFacts DEF LockMoves
<1> QED  BY <1>1, <1>2, <1>3, <1>4, GoOn DEF rows

LEMMA ReadCredentialsKeeps ==
    ASSUME IInv, NEW p \in Process, ReadCredentials(p)
    PROVE  IInv'
<1> DEFINE old == process[p]
           job == [old EXCEPT !.seen = cred.ver]
           denied == [job EXCEPT !.pc = "status", !.result = "denied"]
           next == [job EXCEPT !.pc = "acquire"]
<1>0. /\ old \in Job /\ old # Idle /\ PlaceInv(old) /\ ConnInv(old, conn)
      /\ LeaseInv(old, conn, lock, faults)
      /\ CredInv(old, conn, cred, turn, revoked) /\ CalmInv(old, cred, turn, faults)
      /\ old.pc = "credentials"
  BY JobFacts DEF At, ReadCredentials
<1>1. cred.ver \in Nat /\ lock.ver \in Nat /\ "status" \in Pc /\ "acquire" \in Pc
  BY RowFacts DEF CredRow, LockRow, Pc
<1>2. /\ job \in Job /\ job.op = old.op /\ job.conn = old.conn /\ job.seen = cred.ver
      /\ job.lease = old.lease /\ job.tokens = old.tokens
  BY <1>0, <1>1 DEF Job
<1> HIDE DEF job
<1>3. /\ denied \in Job /\ denied.op = old.op /\ denied.conn = old.conn
      /\ denied.seen = cred.ver /\ denied.pc = "status" /\ denied.result = "denied"
      /\ denied.lease = old.lease /\ denied.tokens = old.tokens
  BY <1>1, <1>2 DEF Job
<1>4. /\ next \in Job /\ next.op = old.op /\ next.conn = old.conn
      /\ next.seen = cred.ver /\ next.pc = "acquire"
      /\ next.lease = old.lease /\ next.tokens = old.tokens
  BY <1>1, <1>2 DEF Job
<1>5. old.op \in Refreshing /\ old.lease = Absent
  BY <1>0 DEF PlaceInv, Leased, Storing
<1>6. /\ lock' = lock /\ LockMoves(p) /\ process[p].pc \notin Storing
      /\ UNCHANGED <<conn, cred, browser, jobs, provider, history>>
  BY <1>0, RowFacts DEF LockMoves, ReadCredentials, rows, Storing
<1>7. CASE old.conn.status # "connected" /\ process' = [process EXCEPT ![p] = denied]
  <2> HIDE DEF denied, next
  <2>1. PlaceInv(denied) /\ ConnInv(denied, conn) /\ LeaseInv(denied, conn, lock, faults)
    BY <1>0, <1>1, <1>3, <1>5 DEF PlaceInv, ConnInv, LeaseInv, Leased, Storing, Refreshing, Absent
  <2>2. CredInv(denied, conn, cred, turn, revoked)
    BY <1>0, <1>1, <1>3, <1>7 DEF CredInv, ConnInv, Storing
  <2>3. CalmInv(denied, cred, turn, faults)
    BY <1>3 DEF CalmInv, Storing
  <2>4. JobInv(denied, conn, cred, lock', turn, revoked, faults)
    BY <1>6, <2>1, <2>2, <2>3 DEF JobInv
  <2> QED  BY <1>0, <1>3, <1>6, <1>7, <2>4, GoOn
<1>8. CASE process' = [process EXCEPT ![p] = next]
  <2> HIDE DEF denied, next
  <2>1. PlaceInv(next) /\ ConnInv(next, conn) /\ LeaseInv(next, conn, lock, faults)
    BY <1>0, <1>1, <1>4, <1>5 DEF PlaceInv, ConnInv, LeaseInv, Leased, Storing, Refreshing, Absent
  <2>2. CredInv(next, conn, cred, turn, revoked) /\ CalmInv(next, cred, turn, faults)
    BY <1>1, <1>4 DEF CredInv, CalmInv, Storing
  <2>3. JobInv(next, conn, cred, lock', turn, revoked, faults)
    BY <1>6, <2>1, <2>2 DEF JobInv
  <2> QED  BY <1>0, <1>4, <1>6, <1>8, <2>3, GoOn
<1>9. CASE Return(p)
  <2>1. /\ forgotten' \in BOOLEAN /\ DisconnectForgets' /\ jobs' \subseteq 1 .. MaxVersion
        /\ states' \subseteq states /\ faults' \in 0 .. MaxFaults /\ faults <= faults'
        /\ UNCHANGED <<turn, revoked, flows>>
    BY <1>6, RowFacts, Widths, ForgottenKept DEF browser, provider, history
  <2> QED  BY <1>6, <1>9, <2>1, EndStep
<1>10. job.conn.status = old.conn.status
  BY <1>2
<1> QED  BY <1>7, <1>8, <1>9, <1>10 DEF ReadCredentials, Become, job

LEMMA LoadKeeps ==
    ASSUME IInv, NEW p \in Process, Load(p)
    PROVE  IInv'
<1> DEFINE old == process[p]
           k == [old EXCEPT !.pc = "refresh", !.tokens = cred.tokens]
<1>0. /\ old \in Job /\ old # Idle /\ PlaceInv(old) /\ ConnInv(old, conn)
      /\ LeaseInv(old, conn, lock, faults)
      /\ CredInv(old, conn, cred, turn, revoked) /\ CalmInv(old, cred, turn, faults)
      /\ old.pc = "load" /\ old.op \in Refreshing
  BY JobFacts DEF At, Load, PlaceInv
<1>1. CASE ~(Active /\ cred.tokens # NoTokens)
  <2>1. Refused(old) /\ process[p].pc \notin Storing
    BY <1>0, <1>1 DEF Refused, Active, Storing
  <2> QED  BY <1>0, <1>1, <2>1, RefreshedStep DEF Load
<1>2. CASE Active /\ cred.tokens # NoTokens
  <2>1. cred.tokens \in Tokens \cup {NoTokens} /\ "refresh" \in Pc
    BY RowFacts DEF CredRow, Pc, Leased
  <2>2. /\ k \in Job /\ k.pc = "refresh" /\ k.lease = old.lease /\ k.op = old.op
        /\ k.conn = old.conn /\ k.seen = old.seen /\ k.tokens = cred.tokens
    BY <1>0, <2>1 DEF Job
  <2>3. process' = [process EXCEPT ![p] = k] /\ lock' = lock
    BY <1>2 DEF Load, Become
  <2> HIDE DEF k
  <2>4. PlaceInv(k)
    BY <1>0, <2>2 DEF PlaceInv, Leased, Storing
  <2>5. ConnInv(k, conn) /\ LeaseInv(k, conn, lock, faults)
    BY <1>0, <2>2 DEF ConnInv, LeaseInv
  <2>6. cred.tokens.turn <= turn[cred.tokens.flow]
    BY <1>2 DEF IInv, RowsInv
  <2>7. CredInv(k, conn, cred, turn, revoked) /\ CalmInv(k, cred, turn, faults)
    BY <1>0, <1>2, <2>2, <2>6 DEF CredInv, CalmInv, Storing
  <2>8. LockMoves(p)
    BY <2>3, RowFacts DEF LockMoves
  <2>9. JobInv(k, conn, cred, lock', turn, revoked, faults)
    BY <2>3, <2>4, <2>5, <2>7 DEF JobInv
  <2>10. process[p].pc \notin Storing
    BY <1>0 DEF Storing
  <2> QED  BY <1>0, <2>2, <2>3, <2>8, <2>9, <2>10, GoOn DEF Load
<1> QED  BY <1>1, <1>2

LEMMA EnqueueKeeps ==
    ASSUME IInv, NEW p \in Process, Enqueue(p)
    PROVE  IInv'
<1>1. process[p] \in Job /\ process[p].pc = "enqueue" /\ process[p].conn.ver <= MaxVersion
  BY JobFacts DEF Enqueue, At, PlaceInv
<1>2. process[p].conn.ver \in 1 .. MaxVersion
  BY <1>1, Widths DEF Job, ConnRow, Absent
<1>3. /\ forgotten' \in BOOLEAN /\ DisconnectForgets' /\ jobs' \subseteq 1 .. MaxVersion
      /\ states' \subseteq states /\ faults' \in 0 .. MaxFaults /\ faults <= faults'
      /\ lock' = lock /\ UNCHANGED <<conn, cred, turn, revoked, flows>>
  BY <1>2, RowFacts, Widths, ForgottenKept DEF Enqueue, rows, browser, provider, history
<1> QED  BY <1>1, <1>3, EndStep DEF Enqueue, Storing

LEMMA CrashKeeps ==
    ASSUME IInv, NEW p \in Process, Crash(p)
    PROVE  IInv'
<1>1. faults \in Nat /\ faults' = faults + 1 /\ faults' \in 0 .. MaxFaults
  BY RowFacts, Widths DEF Crash, Fault
<1>2. /\ forgotten' \in BOOLEAN /\ DisconnectForgets' /\ jobs' \subseteq 1 .. MaxVersion
      /\ states' \subseteq states /\ faults' # 0 /\ faults <= faults'
      /\ lock' = lock /\ UNCHANGED <<conn, cred, turn, revoked, flows>>
  BY <1>1, RowFacts DEF Crash, rows, browser, provider, IInv, TypeOK, RowsTypeOK, DisconnectForgets
<1> QED  BY <1>1, <1>2, EndStep DEF Crash

LEMMA ClearKeeps ==
    ASSUME IInv, NEW p \in Process, Clear(p)
    PROVE  IInv'
<1> DEFINE old == process[p]
           k == [old EXCEPT !.pc = "forget", !.cred = cred.ver]
<1>0. /\ old \in Job /\ old # Idle /\ PlaceInv(old) /\ ConnInv(old, conn)
      /\ LeaseInv(old, conn, lock, faults)
      /\ CredInv(old, conn, cred, turn, revoked) /\ CalmInv(old, cred, turn, faults)
      /\ old.pc = "clear" /\ conn.status = "disconnected"
  BY JobFacts DEF At, Clear, ConnInv
<1>1. CASE cred.ver = Absent
  <2>1. cred.tokens = NoTokens
    BY <1>1 DEF IInv, RowsInv
  <2>2. /\ forgotten' \in BOOLEAN /\ DisconnectForgets' /\ jobs' \subseteq 1 .. MaxVersion
        /\ states' \subseteq states /\ faults' \in 0 .. MaxFaults /\ faults <= faults'
        /\ UNCHANGED <<conn, cred, turn, revoked, flows>>
    BY <1>0, <1>1, <2>1, RowFacts, Widths DEF Clear, browser, provider, DisconnectForgets
  <2>3. Return(p) /\ lock' = Released(p)
    BY <1>1 DEF Clear, Abort
  <2> QED  BY <2>1, <2>2, <2>3, EndStep
<1>2. CASE cred.ver # Absent
  <2>1. cred.ver \in Nat /\ "forget" \in Pc
    BY RowFacts DEF CredRow, Pc, Leased
  <2>2. /\ k \in Job /\ k.pc = "forget" /\ k.lease = old.lease /\ k.op = old.op
        /\ k.conn = old.conn /\ k.seen = old.seen /\ k.tokens = old.tokens
    BY <1>0, <2>1 DEF Job
  <2>3. process' = [process EXCEPT ![p] = k] /\ lock' = lock
        /\ UNCHANGED <<conn, cred, browser, jobs, provider, history>>
    BY <1>2 DEF Clear, Become, history
  <2> HIDE DEF k
  <2>4. PlaceInv(k)
    BY <1>0, <2>2 DEF PlaceInv, Leased, Storing
  <2>5. ConnInv(k, conn) /\ LeaseInv(k, conn, lock, faults)
    BY <1>0, <2>2 DEF ConnInv, LeaseInv
  <2>6. CredInv(k, conn, cred, turn, revoked) /\ CalmInv(k, cred, turn, faults)
    BY <1>0, <2>2 DEF CredInv, CalmInv, Storing
  <2>7. LockMoves(p)
    BY <2>3, RowFacts DEF LockMoves
  <2>8. JobInv(k, conn, cred, lock', turn, revoked, faults)
    BY <2>3, <2>4, <2>5, <2>6 DEF JobInv
  <2>9. process[p].pc \notin Storing
    BY <1>0 DEF Storing
  <2> QED  BY <1>0, <2>2, <2>3, <2>7, <2>8, <2>9, GoOn
<1> QED  BY <1>1, <1>2

LEMMA ExchangeKeeps ==
    ASSUME IInv, NEW p \in Process, Exchange(p)
    PROVE  IInv'
<1> DEFINE old == process[p]
           f == old.flow
           given == [flow |-> f, turn |-> 0]
           k == [old EXCEPT !.pc = "check", !.tokens = given]
<1>0. /\ old \in Job /\ old # Idle /\ PlaceInv(old) /\ ConnInv(old, conn)
      /\ LeaseInv(old, conn, lock, faults)
      /\ CredInv(old, conn, cred, turn, revoked) /\ old.pc = "exchange"
  BY JobFacts DEF At, Exchange
<1>1. /\ forgotten' \in BOOLEAN /\ DisconnectForgets' /\ jobs' \subseteq 1 .. MaxVersion
      /\ states' \subseteq states /\ faults' = faults /\ faults' \in 0 .. MaxFaults
      /\ faults <= faults' /\ UNCHANGED <<conn, cred, turn, revoked, flows>>
  BY RowFacts, Widths, ForgottenKept DEF Exchange, provider, history
<1>2. process[p].pc \notin Storing
  BY <1>0 DEF Storing
<1>3. CASE Abort(p)
  BY <1>1, <1>2, <1>3, EndStep DEF Abort
<1>4. CASE /\ f \in states /\ states' = states \ {f} /\ lock' = lock
           /\ Become(p, k)
  <2>1. f \in Flow /\ given \in Tokens /\ given # NoTokens /\ given.flow = f /\ given.turn = 0
    BY <1>4, RowFacts, ConnectionAssumption DEF Tokens, Flow, NoTokens, NoFlow
  <2>2. turn[f] = 0
    BY <1>4, <2>1 DEF IInv, FlowsInv
  <2>3. "check" \in Pc
    BY DEF Pc, Leased, Storing
  <2> HIDE DEF given
  <2>4. /\ k \in Job /\ k.pc = "check" /\ k.lease = old.lease /\ k.op = old.op
        /\ k.conn = old.conn /\ k.seen = old.seen /\ k.tokens = given
    BY <1>0, <2>1, <2>3 DEF Job
  <2>5. process' = [process EXCEPT ![p] = k]
    BY <1>4 DEF Become
  <2> HIDE DEF k
  <2>6. /\ process' \in [Process -> Job \cup {Idle}] /\ Moves({p}) /\ process'[p] = k
    BY <2>4, <2>5, RowFacts DEF Moves
  <2>7. PlaceInv(k)
    BY <1>0, <2>4 DEF PlaceInv, Leased, Storing
  <2>8. ConnInv(k, conn) /\ LeaseInv(k, conn, lock, faults)
    BY <1>0, <2>4 DEF ConnInv, LeaseInv
  <2>9. CredInv(k, conn, cred, turn, revoked) /\ CalmInv(k, cred, turn, faults)
    BY <1>0, <2>1, <2>2, <2>4 DEF CredInv, CalmInv, Storing
  <2>10. LockMoves(p)
    BY <1>4, RowFacts DEF LockMoves
  <2>11. JobInv(process'[p], conn, cred, lock', turn, revoked, faults')
    BY <1>1, <1>4, <2>6, <2>7, <2>8, <2>9 DEF JobInv
  <2>12. LeaseStep(p)
    BY <1>0, <2>4, <2>6 DEF LeaseStep
  <2>13. \A g \in Flow : g \in states' \/ g > flows' => process'[p].tokens.flow # g
    <3>1. f <= flows /\ flows \in Nat /\ f \in Nat
      BY <1>4, RowFacts, Widths
    <3> QED  BY <1>1, <1>4, <2>1, <2>4, <2>6, <3>1, Widths
  <2> QED  BY <1>1, <1>2, <2>6, <2>10, <2>11, <2>12, <2>13, LocalStep
<1> QED  BY <1>3, <1>4 DEF Exchange

-----------------------------------------------------------------------------
(* Steps that write the connection. *)

\* The connection is written, and the credentials cleared with it or left.
ConnMoves ==
    /\ conn' \in ConnRow /\ cred' \in CredRow
    /\ \/ conn'.ver = conn.ver + 1
       \/ conn'.ver = conn.ver /\ conn'.status = conn.status /\ conn'.flow = conn.flow
    /\ \/ cred' = cred
       \/ cred'.ver = cred.ver + 1 /\ cred'.tokens = NoTokens /\ conn'.ver = conn.ver + 1
    /\ conn.status # "disconnected"
    /\ conn'.status = "disconnected" => conn'.due = "none"
    /\ conn'.status \in {"authorization_pending", "connected"} => conn'.flow # NoFlow

LEMMA ConnWrites ==
    ASSUME IInv, NEW M \in SUBSET Process, \A p, q \in M : p = q, Moves(M),
           process' \in [Process -> Job \cup {Idle}], ConnMoves,
           M = {} => lock' = lock,
           \A p \in M : /\ LockMoves(p) /\ LeaseStep(p) /\ process[p].pc \notin Storing
                        /\ JobInv(process'[p], conn', cred', lock', turn, revoked, faults),
           \A d \in Process \ M : conn'.status = "disconnected" => ~Kept(d),
           UNCHANGED <<turn, revoked, forgotten, faults, jobs>>,
           flows' \in 0 .. MaxFlows, states' \subseteq 1 .. flows',
           FlowStep(M), ConnectedIsKept'
    PROVE  IInv'
<1>0. /\ conn \in ConnRow /\ cred \in CredRow /\ lock \in LockRow
      /\ turn \in [Flow -> 0 .. MaxTurns] /\ faults \in Nat
      /\ conn.ver \in Nat /\ cred.ver \in Nat /\ lock.ver \in Nat
  BY RowFacts, Widths DEF ConnRow, CredRow, LockRow
<1>1. lock' \in LockRow
  BY <1>0 DEF LockMoves
<1>2. TypeOK'
  BY <1>1 DEF IInv, TypeOK, RowsTypeOK, ConnMoves, ConnRow, CredRow, LockRow
<1>3. \A d \in Process \ M : Around(d)
  <2> TAKE d \in Process \ M
  <2>1. lock'.ver >= lock.ver /\ (Owns(d) => lock' = lock)
    BY <1>0, LockAround
  <2>2. \A f \in Flow : turn[f] <= turn'[f]
    BY <1>0
  <2> QED  BY <1>0, <2>1, <2>2 DEF Around, ConnMoves
<1>4. ~forgotten
  BY DEF ConnMoves, IInv, DisconnectForgets
<1>5. RowsInv' /\ DisconnectForgets'
  BY <1>0, <1>4 DEF IInv, RowsInv, DisconnectForgets, ConnMoves, Absent
<1>6. RotationInv'
  BY <1>0, <1>3, RotationKept DEF ConnMoves
<1>7. \A p \in M : JobInv(process'[p], conn', cred', lock', turn', revoked', faults')
  OBVIOUS
<1> HIDE DEF ConnMoves
<1> QED  BY <1>2, <1>3, <1>5, <1>6, <1>7, StepKeeps

LEMMA StoredConn ==
    ASSUME NEW c \in ConnRow, NEW v \in Nat
    PROVE  /\ Stored(c, v) \in ConnRow /\ Stored(c, v).ver = v + 1
           /\ Stored(c, v).status = c.status /\ Stored(c, v).flow = c.flow
           /\ Stored(c, v).due = c.due
<1>1. v + 1 \in Nat \ {Absent}
  BY DEF Absent
<1> QED  BY <1>1 DEF Stored, ConnRow

\* The credentials are left alone, and nothing is known of a flow that has not
\* come back.
LEMMA FlowsKept ==
    ASSUME IInv, NEW M, UNCHANGED <<cred, turn>>,
           \A f \in Flow : f \in states' \/ f > flows' => f \in states \/ f > flows,
           \A p \in M : process'[p] # Idle =>
               \/ process'[p].tokens = NoTokens
               \/ p \in Process /\ process[p] # Idle /\ process'[p].tokens = process[p].tokens
    PROVE  FlowStep(M)
<1>1. \A f \in Flow : NoTokens.flow # f
  BY Widths
<1>2. \A f \in Flow : f \in states \/ f > flows =>
          /\ cred.tokens.flow # f
          /\ \A p \in Process : process[p] # Idle => process[p].tokens.flow # f
  BY DEF IInv, FlowsInv
<1> QED  BY <1>1, <1>2 DEF FlowStep

LEMMA ConnectKeeps ==
    ASSUME IInv, NEW p \in Process, Connect(p)
    PROVE  IInv'
<1> DEFINE old == process[p]
           c == [old.conn EXCEPT !.status = "connected", !.due = "later"]
<1>0. /\ old \in Job /\ old # Idle /\ PlaceInv(old) /\ ConnInv(old, conn)
      /\ CredInv(old, conn, cred, turn, revoked) /\ old.pc = "connect"
  BY JobFacts DEF At, Connect
<1>1. process[p].pc \notin Storing /\ lock' = lock /\ lock \in LockRow
  BY <1>0, RowFacts DEF Storing, Connect
<1>2. CASE ~ConnectFits(p)
  <2>1. /\ forgotten' \in BOOLEAN /\ DisconnectForgets' /\ jobs' \subseteq 1 .. MaxVersion
        /\ states' \subseteq states /\ faults' \in 0 .. MaxFaults /\ faults <= faults'
        /\ UNCHANGED <<conn, cred, turn, revoked, flows>>
    BY <1>2, RowFacts, Widths, ForgottenKept DEF Connect, browser, provider, history
  <2> QED  BY <1>1, <2>1, EndStep DEF Connect
<1>3. CASE ConnectFits(p)
  <2>0. /\ old.conn \in ConnRow /\ old.conn.status = "authorization_pending"
        /\ old.conn.ver = conn.ver /\ old.conn.flow = conn.flow /\ conn.flow # NoFlow
        /\ conn.status = "authorization_pending" /\ cred.tokens # NoTokens
        /\ conn.ver \in Nat
    BY <1>0, <1>3 DEF ConnectFits, Matches, ConnInv, CredInv, PlaceInv, Job, ConnRow
  <2>1. c \in ConnRow /\ c.status = "connected" /\ c.due = "later" /\ c.flow = conn.flow
    BY <2>0 DEF ConnRow, Status
  <2>2. conn' = Stored(c, conn.ver)
    BY <1>3 DEF Connect, Connected
  <2> HIDE DEF c
  <2>3. /\ conn' \in ConnRow /\ conn'.ver = conn.ver + 1 /\ conn'.status = "connected"
        /\ conn'.due = "later" /\ conn'.flow = conn.flow
    BY <2>0, <2>1, <2>2, StoredConn
  <2>4. UNCHANGED <<cred, turn, revoked, forgotten, faults, jobs, flows, states>>
    BY DEF Connect, browser, provider, history
  <2>5. ConnMoves
    BY <2>0, <2>3, <2>4, RowFacts DEF ConnMoves
  <2>6. /\ process' \in [Process -> Job \cup {Idle}] /\ Moves({p}) /\ process'[p] = Idle
    BY RowFacts DEF Connect, Return, Become, Moves
  <2>7. /\ LeaseStep(p) /\ LockMoves(p)
        /\ JobInv(process'[p], conn', cred', lock', turn, revoked, faults)
    BY <1>1, <2>6 DEF LeaseStep, LockMoves, JobInv
  <2>8. FlowStep({p})
    BY <2>4, <2>6, FlowsKept
  <2>9. ConnectedIsKept'
    BY <2>0, <2>3, <2>4 DEF ConnectedIsKept
  <2> QED
    BY <1>1, <2>3, <2>4, <2>5, <2>6, <2>7, <2>8, <2>9, RowFacts, ConnWrites
<1> QED  BY <1>2, <1>3

LEMMA DisableKeeps ==
    ASSUME IInv, NEW p \in Process, Disable(p)
    PROVE  IInv'
<1> DEFINE old == process[p]
           k == [old EXCEPT !.pc = "clear"]
           c == [conn EXCEPT !.status = "disconnected", !.flow = NoFlow, !.due = "none"]
<1>0. /\ old \in Job /\ old # Idle /\ PlaceInv(old) /\ ConnInv(old, conn)
      /\ LeaseInv(old, conn, lock, faults)
      /\ CredInv(old, conn, cred, turn, revoked) /\ CalmInv(old, cred, turn, faults)
      /\ old.pc = "disable" /\ old.op = "disconnect"
  BY JobFacts DEF At, Disable, PlaceInv
<1>1. process[p].pc \notin Storing
  BY <1>0 DEF Storing
<1>2. UNCHANGED <<cred, turn, revoked, forgotten, faults, jobs, flows, states>>
  BY DEF Disable, browser, provider, history
<1>3. CASE ~Found
  <2>1. /\ forgotten' \in BOOLEAN /\ DisconnectForgets' /\ jobs' \subseteq 1 .. MaxVersion
        /\ states' \subseteq states /\ faults' \in 0 .. MaxFaults /\ faults <= faults'
        /\ conn' = conn
    BY <1>2, <1>3, RowFacts, Widths, ForgottenKept DEF Disable, history
  <2>2. Return(p) /\ lock' = Released(p)
    BY <1>3 DEF Disable, Abort
  <2> QED  BY <1>1, <1>2, <2>1, <2>2, EndStep
<1>4. CASE Found
  <2>0. conn \in ConnRow /\ conn.ver \in Nat /\ "clear" \in Pc
    BY RowFacts DEF ConnRow, Pc, Leased
  <2>1. c \in ConnRow /\ c.status = "disconnected" /\ c.due = "none"
    BY <2>0 DEF ConnRow, Status
  <2>2. conn' = Stored(c, conn.ver) /\ process' = [process EXCEPT ![p] = k] /\ lock' = lock
    BY <1>4 DEF Disable, Goto, Become
  <2> HIDE DEF c
  <2>3. /\ conn' \in ConnRow /\ conn'.ver = conn.ver + 1
        /\ conn'.status = "disconnected" /\ conn'.due = "none"
    BY <2>0, <2>1, <2>2, StoredConn
  <2>4. ConnMoves
    BY <1>2, <1>4, <2>3, RowFacts DEF ConnMoves, Found
  <2>5. /\ k \in Job /\ k.pc = "clear" /\ k.lease = old.lease /\ k.op = old.op
        /\ k.conn = old.conn /\ k.seen = old.seen /\ k.tokens = old.tokens
    BY <1>0, <2>0 DEF Job
  <2> HIDE DEF k
  <2>6. /\ process' \in [Process -> Job \cup {Idle}] /\ Moves({p}) /\ process'[p] = k
    BY <2>2, <2>5, RowFacts DEF Moves
  <2>7. LeaseStep(p) /\ LockMoves(p)
    BY <1>0, <2>2, <2>5, <2>6, RowFacts DEF LeaseStep, LockMoves
  <2>8. PlaceInv(k)
    BY <1>0, <2>5 DEF PlaceInv, Leased, Storing
  <2>9. ConnInv(k, conn')
    <3>1. old.conn.ver \in Nat
      BY <1>0 DEF Job, ConnRow
    <3> QED  BY <1>0, <2>0, <2>3, <2>5, <3>1 DEF ConnInv
  <2>10. LeaseInv(k, conn', lock', faults)
    BY <1>0, <2>2, <2>5 DEF LeaseInv
  <2>11. CredInv(k, conn', cred', turn, revoked) /\ CalmInv(k, cred', turn, faults)
    BY <1>0, <1>2, <2>5 DEF CredInv, CalmInv, Storing
  <2>12. JobInv(process'[p], conn', cred', lock', turn, revoked, faults)
    BY <2>6, <2>8, <2>9, <2>10, <2>11 DEF JobInv
  <2>13. FlowStep({p})
    BY <1>0, <1>2, <2>5, <2>6, FlowsKept
  <2>14. ConnectedIsKept'
    BY <2>3 DEF ConnectedIsKept
  <2>15. Kept(p)
    BY <1>0 DEF PlaceInv, LeaseInv, Leased, Refreshing, Kept, Matches
  <2>16. \A d \in Process \ {p} : ~Kept(d)
    BY <2>15, OnlyOwner
  <2> QED
    BY <1>1, <1>2, <2>4, <2>6, <2>7, <2>12, <2>13, <2>14, <2>16, RowFacts, ConnWrites
<1> QED  BY <1>3, <1>4

\* A worker writes the date of a connected connection and remembers the row.
LEMMA WriteBegins ==
    ASSUME IInv, NEW p \in Process, At(p, "idle"),
           conn.status = "connected", conn.ver < MaxVersion,
           conn' = Stored([conn EXCEPT !.due = "later"], conn.ver),
           NEW op \in {"maintain", "refresh"}, NEW pc \in {"enqueue", "credentials"},
           op = "maintain" <=> pc = "enqueue",
           Become(p, [Begin(op, pc) EXCEPT !.conn = conn']),
           UNCHANGED <<cred, lock, browser, jobs, provider, history>>
    PROVE  IInv'
<1> DEFINE c == [conn EXCEPT !.due = "later"]
           b == Begin(op, pc)
           k == [b EXCEPT !.conn = conn']
<1>0. conn \in ConnRow /\ conn.ver \in Nat /\ op \in Op /\ pc \in Pc /\ MaxVersion \in Nat
  BY RowFacts, Widths DEF ConnRow, Op, Pc
<1>1. c \in ConnRow /\ c.status = "connected" /\ c.due = "later" /\ c.flow = conn.flow
  BY <1>0 DEF ConnRow
<1>2. conn' = Stored(c, conn.ver)
  OBVIOUS
<1> HIDE DEF c
<1>3. /\ conn' \in ConnRow /\ conn'.ver = conn.ver + 1 /\ conn'.status = "connected"
      /\ conn'.due = "later" /\ conn'.flow = conn.flow /\ conn.flow # NoFlow
  <2>1. conn.flow # NoFlow
    BY RowFacts
  <2>2. /\ Stored(c, conn.ver) \in ConnRow /\ Stored(c, conn.ver).ver = conn.ver + 1
        /\ Stored(c, conn.ver).status = c.status /\ Stored(c, conn.ver).flow = c.flow
        /\ Stored(c, conn.ver).due = c.due
    BY <1>0, <1>1, StoredConn
  <2> QED  BY <1>1, <1>2, <2>1, <2>2
<1>4. UNCHANGED <<cred, turn, revoked, forgotten, faults, jobs, flows, states>>
  BY DEF browser, provider, history
<1>5. ConnMoves
  BY <1>3, <1>4, RowFacts DEF ConnMoves
<1>6. /\ b \in Job /\ b.pc = pc /\ b.op = op /\ b.seen = Absent /\ b.lease = Absent
      /\ b.tokens = NoTokens
  BY <1>0, BeginFacts
<1>7. process' = [process EXCEPT ![p] = k]
  BY DEF Become
<1> HIDE DEF b
<1>8. /\ k \in Job /\ k.conn = conn' /\ k.pc = pc /\ k.op = op /\ k.seen = Absent
      /\ k.lease = Absent /\ k.tokens = NoTokens
  BY <1>3, <1>6 DEF Job
<1> HIDE DEF k
<1>9. JobInv(k, conn', cred, lock, turn, revoked, faults)
  BY <1>0, <1>3, <1>8, BeginInv DEF Refreshing
<1>10. /\ process' \in [Process -> Job \cup {Idle}] /\ Moves({p}) /\ process'[p] = k
  BY <1>7, <1>8, RowFacts DEF Moves
<1>11. LeaseStep(p) /\ LockMoves(p)
  BY <1>8, <1>10, RowFacts DEF LeaseStep, LockMoves
<1>12. FlowStep({p})
  BY <1>4, <1>8, <1>10, FlowsKept
<1>13. ConnectedIsKept'
  BY <1>3, <1>4 DEF ConnectedIsKept, IInv
<1>14. process[p].pc \notin Storing
  BY DEF At, Storing
<1> QED
  BY <1>3, <1>4, <1>5, <1>9, <1>10, <1>11, <1>12, <1>13, <1>14, RowFacts, ConnWrites

\* The connection is written by nobody who runs, or by one that runs no more.
LEMMA ConnMovesAlone ==
    ASSUME IInv, ConnMoves, conn'.status # "disconnected", ConnectedIsKept',
           UNCHANGED <<cred, lock, process, turn, revoked, forgotten, faults, jobs>>,
           flows' \in 0 .. MaxFlows, states' \subseteq 1 .. flows',
           \A f \in Flow : f \in states' \/ f > flows' => f \in states \/ f > flows
    PROVE  IInv'
<1>1. Moves({}) /\ process' \in [Process -> Job \cup {Idle}]
  BY RowFacts DEF Moves
<1>2. FlowStep({})
  BY FlowsKept
<1>3. {} \in SUBSET Process
  OBVIOUS
<1> QED  BY <1>1, <1>2, <1>3, ConnWrites

LEMMA MaintainKeeps ==
    ASSUME IInv, NEW p \in Process, Maintain(p)
    PROVE  IInv'
<1> DEFINE c == [conn EXCEPT !.due = "none"]
<1>1. CASE conn.status = "connected"
  BY <1>1, WriteBegins DEF Maintain
<1>2. CASE conn.status # "connected"
  <2>1. conn \in ConnRow /\ conn.ver \in Nat /\ conn.status # "disconnected"
    BY RowFacts DEF Maintain, ConnRow, IInv, RowsInv
  <2>2. c \in ConnRow /\ c.status = conn.status /\ c.flow = conn.flow
    BY <2>1 DEF ConnRow
  <2>3. conn' = Stored(c, conn.ver) /\ process' = process
    BY <1>2 DEF Maintain
  <2> HIDE DEF c
  <2>4. /\ conn' \in ConnRow /\ conn'.ver = conn.ver + 1 /\ conn'.status = conn.status
        /\ conn'.flow = conn.flow
    BY <2>1, <2>2, <2>3, StoredConn
  <2>5. UNCHANGED <<cred, lock, process, turn, revoked, forgotten, faults, jobs, flows, states>>
    BY <2>3 DEF Maintain, browser, provider, history
  <2>6. ConnMoves
    BY <2>1, <2>4, <2>5, RowFacts DEF ConnMoves
  <2>7. ConnectedIsKept'
    BY <1>2, <2>4 DEF ConnectedIsKept
  <2> QED  BY <2>1, <2>4, <2>5, <2>6, <2>7, RowFacts, ConnMovesAlone
<1> QED  BY <1>1, <1>2

LEMMA TickKeeps ==
    ASSUME IInv, Tick
    PROVE  IInv'
<1>1. conn \in ConnRow /\ conn.status # "disconnected" /\ "now" # "none"
  BY RowFacts DEF Tick, IInv, RowsInv
<1>2. /\ conn' \in ConnRow /\ conn'.ver = conn.ver /\ conn'.status = conn.status
      /\ conn'.flow = conn.flow /\ conn'.due = "now"
  BY <1>1 DEF Tick, ConnRow
<1>3. UNCHANGED <<cred, lock, process, turn, revoked, forgotten, faults, jobs, flows, states>>
  BY DEF Tick, browser, provider, history
<1>4. ConnMoves
  BY <1>1, <1>2, <1>3, RowFacts DEF ConnMoves
<1>5. ConnectedIsKept'
  BY <1>2, <1>3 DEF ConnectedIsKept, IInv
<1> QED  BY <1>1, <1>2, <1>3, <1>4, <1>5, RowFacts, ConnMovesAlone

LEMMA AuthorizeKeeps ==
    ASSUME IInv, Authorize
    PROVE  IInv'
<1> DEFINE c == [conn EXCEPT !.status = "authorization_pending", !.flow = flows + 1]
<1>0. /\ conn \in ConnRow /\ conn.ver \in Nat /\ flows \in Nat /\ MaxFlows \in Nat
      /\ flows + 1 \in Flow /\ flows + 1 # NoFlow /\ states \subseteq 1 .. flows
  BY RowFacts, Widths DEF Authorize, ConnRow, Flow, NoFlow
<1>1. c \in ConnRow /\ c.status = "authorization_pending" /\ c.flow = flows + 1
  BY <1>0 DEF ConnRow, Status
<1>2. conn' = Stored(c, conn.ver)
  BY DEF Authorize
<1> HIDE DEF c
<1>3. /\ conn' \in ConnRow /\ conn'.ver = conn.ver + 1
      /\ conn'.status = "authorization_pending" /\ conn'.flow # NoFlow
  BY <1>0, <1>1, <1>2, StoredConn
<1>4. UNCHANGED <<cred, lock, process, turn, revoked, forgotten, faults, jobs>>
  BY DEF Authorize, provider, history
<1>5. ConnMoves
  BY <1>3, <1>4, RowFacts DEF ConnMoves, Authorize, Found
<1>6. ConnectedIsKept'
  BY <1>3 DEF ConnectedIsKept
<1>7. flows' = flows + 1 /\ states' = states \cup {flows + 1}
  BY DEF Authorize
<1>8. flows' \in 0 .. MaxFlows /\ states' \subseteq 1 .. flows'
  BY <1>0, <1>7 DEF Flow
<1>9. \A f \in Flow : f \in states' \/ f > flows' => f \in states \/ f > flows
  BY <1>0, <1>7, Widths
<1> QED  BY <1>3, <1>4, <1>5, <1>6, <1>8, <1>9, ConnMovesAlone

LEMMA SetStatusKeeps ==
    ASSUME IInv, NEW p \in Process, SetStatus(p)
    PROVE  IInv'
<1> DEFINE old == process[p]
           refused == [conn EXCEPT !.status = "reauthorization_required", !.due = "none"]
           fresh == [conn EXCEPT !.status = "connected", !.due = "later"]
           empty == [cred EXCEPT !.tokens = NoTokens]
<1>0. /\ old \in Job /\ old # Idle /\ PlaceInv(old) /\ ConnInv(old, conn)
      /\ old.pc = "status"
  BY JobFacts DEF At, SetStatus
<1>1. /\ process[p].pc \notin Storing /\ lock' = lock /\ lock \in LockRow
      /\ UNCHANGED <<turn, revoked, forgotten, faults, jobs, flows, states>>
  BY <1>0, RowFacts DEF Storing, SetStatus, browser, provider, history
<1>2. CASE ~StatusFits(p)
  <2>1. conn' = conn /\ cred' = cred
    BY <1>2 DEF SetStatus
  <2>2. /\ forgotten' \in BOOLEAN /\ DisconnectForgets' /\ jobs' \subseteq 1 .. MaxVersion
        /\ states' \subseteq states /\ faults' \in 0 .. MaxFaults /\ faults <= faults'
    BY <1>1, <2>1, RowFacts, Widths, ForgottenKept DEF history
  <2> QED  BY <1>1, <2>1, <2>2, EndStep DEF SetStatus
<1>3. CASE StatusFits(p)
  <2>0. /\ conn \in ConnRow /\ conn.ver \in Nat /\ cred \in CredRow /\ cred.ver \in Nat
        /\ conn.status = old.conn.status /\ conn.status # "disconnected"
        /\ conn.flow = old.conn.flow
    BY <1>0, <1>3, RowFacts DEF StatusFits, Matches, ConnInv, ConnRow, CredRow
  <2>1. /\ refused \in ConnRow /\ refused.status = "reauthorization_required"
        /\ refused.due = "none"
    BY <2>0 DEF ConnRow, Status
  <2>2. /\ fresh \in ConnRow /\ fresh.status = "connected" /\ fresh.due = "later"
        /\ fresh.flow = conn.flow
    BY <2>0 DEF ConnRow, Status
  <2>3. empty \in CredRow /\ empty.tokens = NoTokens
    BY <2>0 DEF CredRow
  <2>4. conn' = Stored(IF old.result = "denied" THEN refused ELSE fresh, conn.ver)
    BY <1>3 DEF SetStatus, Connected
  <2>5. cred' = IF Clears(p) THEN Stored(empty, cred.ver) ELSE cred
    BY <1>3 DEF SetStatus
  <2> HIDE DEF refused, fresh, empty
  <2>6. /\ conn' \in ConnRow /\ conn'.ver = conn.ver + 1 /\ conn'.status # "disconnected"
    BY <2>0, <2>1, <2>2, <2>4, StoredConn
  <2>7. cred' = cred \/ (cred' \in CredRow /\ cred'.ver = cred.ver + 1 /\ cred'.tokens = NoTokens)
    BY <2>0, <2>3, <2>5 DEF Stored, CredRow
  <2>8. old.result # "denied" =>
           /\ cred' = cred /\ conn'.due = "later" /\ conn.status = "connected"
           /\ conn'.flow # NoFlow
    <3> HAVE old.result # "denied"
    <3>1. conn.status = "connected" /\ conn.flow # NoFlow
      BY <1>0, <2>0 DEF PlaceInv, ConnInv
    <3>2. cred' = cred
      BY <2>5 DEF Clears
    <3>3. conn'.due = "later" /\ conn'.flow = conn.flow
      BY <2>0, <2>2, <2>4, StoredConn
    <3> QED  BY <3>1, <3>2, <3>3
  <2>9. old.result = "denied" => conn'.status = "reauthorization_required"
    BY <2>0, <2>1, <2>4, StoredConn
  <2>10. ConnMoves
    BY <2>0, <2>6, <2>7, <2>8, <2>9, RowFacts DEF ConnMoves
  <2>11. ConnectedIsKept'
    BY <2>8, <2>9 DEF IInv, ConnectedIsKept
  <2>12. /\ process' \in [Process -> Job \cup {Idle}] /\ Moves({p}) /\ process'[p] = Idle
    BY RowFacts DEF SetStatus, Return, Become, Moves
  <2>13. /\ LeaseStep(p) /\ LockMoves(p)
         /\ JobInv(process'[p], conn', cred', lock', turn, revoked, faults)
    BY <1>1, <2>12 DEF LeaseStep, LockMoves, JobInv
  <2>14. FlowStep({p})
    <3>1. \A f \in Flow : NoTokens.flow # f
      BY Widths
    <3> QED  BY <1>1, <2>7, <2>12, <3>1 DEF FlowStep, IInv, FlowsInv
  <2> HIDE DEF old
  <2> QED
    BY <1>1, <2>6, <2>10, <2>11, <2>12, <2>13, <2>14, RowFacts, ConnWrites
<1> QED  BY <1>2, <1>3

-----------------------------------------------------------------------------
(* Steps that write the credentials or move the provider. *)

\* What the rows look like after a step of p that leaves the connection alone.
LEMMA CredStep ==
    ASSUME IInv, NEW p \in Process, Moves({p}), process' \in [Process -> Job \cup {Idle}],
           LockMoves(p), LeaseStep(p), cred' \in CredRow, turn' \in [Flow -> 0 .. MaxTurns],
           \A f \in Flow : turn[f] <= turn'[f],
           JobInv(process'[p], conn, cred', lock', turn', revoked, faults'),
           UNCHANGED <<conn, browser, jobs, revoked>>,
           cred' = cred \/ cred'.ver > cred.ver,
           cred' = cred \/ cred'.tokens = NoTokens \/ Kept(p),
           cred'.tokens = NoTokens /\ cred.tokens # NoTokens => conn.status = "disconnected",
           faults <= faults', faults' \in 0 .. MaxFaults, forgotten' \in BOOLEAN,
           turn' # turn /\ faults' = 0 => Kept(p),
           FlowStep({p}), RowsInv', DisconnectForgets', ConnectedIsKept', RotationInv'
    PROVE  IInv'
<1>0. conn \in ConnRow /\ conn.ver \in Nat
  BY RowFacts DEF ConnRow
<1>1. TypeOK'
  BY DEF IInv, TypeOK, RowsTypeOK, LockMoves, LockRow, CredRow, browser
<1>2. \A d \in Process \ {p} : Around(d)
  <2> TAKE d \in Process \ {p}
  <2>1. lock'.ver >= lock.ver /\ (Owns(d) => lock' = lock)
    BY LockAround
  <2>2. Kept(p) => ~Kept(d)
    BY OnlyOwner
  <2> QED  BY <1>0, <2>1, <2>2 DEF Around
<1>3. JobInv(process'[p], conn', cred', lock', turn', revoked', faults')
  OBVIOUS
<1> QED  BY <1>1, <1>2, <1>3, StepKeeps

LEMMA SaveCommitKeeps ==
    ASSUME IInv, NEW p \in Process, SaveCommit(p)
    PROVE  IInv'
<1> DEFINE old == process[p]
           c == [cred EXCEPT !.tokens = old.tokens]
           k == [old EXCEPT !.pc = "connect", !.lease = Absent]
<1>0. /\ old \in Job /\ old # Idle /\ PlaceInv(old) /\ ConnInv(old, conn)
      /\ LeaseInv(old, conn, lock, faults)
      /\ CredInv(old, conn, cred, turn, revoked) /\ CalmInv(old, cred, turn, faults)
      /\ old.pc = "save" /\ old.op \in {"callback"} \cup Refreshing
  BY JobFacts DEF At, SaveCommit, PlaceInv, Storing
<1>1. UNCHANGED <<conn, browser, jobs, turn, revoked, forgotten, faults>>
  BY DEF SaveCommit, provider, history
<1>2. CASE ~SaveFits(p)
  <2>1. faults # 0 \/ cred.tokens = NoTokens
    BY <1>0, <1>2 DEF PlaceInv, LeaseInv, CalmInv, SaveFits, Matches, Kept, Leased, Storing
  <2> QED  BY <1>0, <1>1, <1>2, <2>1, FailsStep DEF SaveCommit
<1>3. CASE SaveFits(p)
  <2>0. /\ cred \in CredRow /\ cred.ver \in Nat /\ Kept(p) /\ conn.status # "disconnected"
        /\ old.tokens # NoTokens /\ old.tokens \in Tokens
        /\ old.tokens.turn <= turn[old.tokens.flow] /\ old.seen <= cred.ver
        /\ old.seen \in Nat
    BY <1>0, <1>3, RowFacts
       DEF SaveFits, Kept, Matches, LeaseInv, CredInv, Storing, CredRow, Job
  <2>1. c \in CredRow /\ c.tokens = old.tokens
    BY <2>0 DEF CredRow
  <2>2. cred' = Stored(c, cred.ver)
    BY <1>3 DEF SaveCommit
  <2> HIDE DEF c
  <2>3. cred' \in CredRow /\ cred'.ver = cred.ver + 1 /\ cred'.tokens = old.tokens
    BY <2>0, <2>1, <2>2 DEF Stored, CredRow
  <2>4. old.seen <= cred'.ver
    BY <2>0, <2>3
  <2>5. /\ process' \in [Process -> Job \cup {Idle}] /\ Moves({p})
        /\ LockMoves(p) /\ LeaseStep(p)
        /\ JobInv(process'[p], conn, cred', lock', turn, revoked, faults')
        /\ process'[p] # Idle => process'[p].tokens \in {old.tokens, NoTokens}
    <3>1. CASE old.op = "callback"
      <4>1. /\ lock' = Released(p) /\ process' = [process EXCEPT ![p] = k]
        BY <1>3, <3>1 DEF SaveCommit, Is, Become
      <4>2. "connect" \in Pc /\ Absent \in Nat /\ lock'.ver \in Nat
        BY <4>1, ReleasedMoves DEF Pc, Absent, LockMoves, LockRow
      <4>3. /\ k \in Job /\ k.pc = "connect" /\ k.lease = Absent /\ k.op = old.op
            /\ k.conn = old.conn /\ k.seen = old.seen /\ k.tokens = old.tokens
        BY <1>0, <4>2 DEF Job
      <4> HIDE DEF k
      <4>4. PlaceInv(k) /\ ConnInv(k, conn)
        BY <1>0, <3>1, <4>3 DEF PlaceInv, ConnInv, Leased, Storing
      <4>5. LeaseInv(k, conn, lock', faults')
        BY <4>2, <4>3 DEF LeaseInv, Absent
      <4>6. CredInv(k, conn, cred', turn, revoked) /\ CalmInv(k, cred', turn, faults')
        BY <2>0, <2>3, <2>4, <4>3 DEF CredInv, CalmInv, Storing
      <4>7. process'[p] = k /\ process' \in [Process -> Job \cup {Idle}] /\ Moves({p})
        BY <4>1, <4>3, RowFacts DEF Moves
      <4>8. LockMoves(p)
        BY <4>1, ReleasedMoves
      <4>9. JobInv(process'[p], conn, cred', lock', turn, revoked, faults')
        BY <4>4, <4>5, <4>6, <4>7 DEF JobInv
      <4> QED  BY <4>3, <4>7, <4>8, <4>9 DEF LeaseStep
    <3>2. CASE old.op # "callback"
      <4>1. Refreshed(p, "ok") /\ old.op \in Refreshing /\ process[p].pc # "idle"
        BY <1>0, <1>3, <3>2 DEF SaveCommit, Is
      <4>2. /\ process' \in [Process -> Job \cup {Idle}] /\ Moves({p})
            /\ process'[p] # Idle => process'[p].tokens = NoTokens
        BY <4>1, RefreshedMoves
      <4>3. /\ LockMoves(p) /\ LeaseStep(p)
            /\ JobInv(process'[p], conn, cred', lock', turn, revoked, faults')
        BY <2>4, <4>1, RefreshedInv
      <4> QED  BY <4>2, <4>3
    <3> QED  BY <3>1, <3>2
  <2>6. FlowStep({p})
    <3>1. \A f \in Flow : f \in states \/ f > flows =>
              old.tokens.flow # f /\ NoTokens.flow # f
      BY <1>0, KnownFlow
    <3> QED  BY <1>1, <2>3, <2>5, <3>1 DEF FlowStep, browser
  <2>7. RowsInv' /\ DisconnectForgets' /\ ConnectedIsKept'
    <3>1. ~forgotten
      BY <2>0 DEF IInv, DisconnectForgets
    <3>2. cred'.ver # Absent
      BY <2>0, <2>3 DEF Absent
    <3> QED
      BY <1>1, <2>0, <2>3, <3>1, <3>2
         DEF IInv, RowsInv, DisconnectForgets, ConnectedIsKept
  <2>8. RotationInv'
    <3>1. faults = 0 => turn[old.tokens.flow] = old.tokens.turn
      BY <1>0 DEF CalmInv, Storing
    <3> QED  BY <1>1, <2>3, <3>1 DEF RotationInv, HasLast
  <2>9. /\ turn' \in [Flow -> 0 .. MaxTurns] /\ \A f \in Flow : turn[f] <= turn'[f]
        /\ faults <= faults' /\ faults' \in 0 .. MaxFaults /\ forgotten' \in BOOLEAN
    BY <1>1, RowFacts, Widths DEF IInv, TypeOK, RowsTypeOK
  <2>10. JobInv(process'[p], conn, cred', lock', turn', revoked, faults')
    BY <1>1, <2>5
  <2>11. cred'.ver > cred.ver /\ cred'.tokens # NoTokens
    BY <2>0, <2>3
  <2> HIDE DEF old
  <2> QED
    BY <1>1, <2>0, <2>3, <2>5, <2>6, <2>7, <2>8, <2>9, <2>10, <2>11, CredStep
<1> QED  BY <1>2, <1>3

LEMMA ForgetKeeps ==
    ASSUME IInv, NEW p \in Process, Forget(p)
    PROVE  IInv'
<1> DEFINE old == process[p]
           c == [cred EXCEPT !.tokens = NoTokens]
<1>0. /\ old \in Job /\ old # Idle /\ ConnInv(old, conn) /\ old.pc = "forget"
      /\ conn.status = "disconnected"
  BY JobFacts DEF At, Forget, ConnInv
<1>1. /\ UNCHANGED <<conn, browser, jobs, turn, revoked, faults>>
      /\ Return(p) /\ lock' = Released(p) /\ process[p].pc \notin Storing
  BY <1>0 DEF Forget, provider, Abort, Storing
<1>2. CASE ~Matches(cred, old.cred)
  <2>1. cred' = cred /\ forgotten' = forgotten
    BY <1>2 DEF Forget
  <2>2. /\ forgotten' \in BOOLEAN /\ DisconnectForgets' /\ jobs' \subseteq 1 .. MaxVersion
        /\ states' \subseteq states /\ faults' \in 0 .. MaxFaults /\ faults <= faults'
        /\ UNCHANGED flows
    BY <1>1, <2>1, RowFacts, Widths, ForgottenKept DEF browser, history
  <2> QED  BY <1>1, <2>1, <2>2, EndStep
<1>3. CASE Matches(cred, old.cred)
  <2>0. cred \in CredRow /\ cred.ver \in Nat
    BY RowFacts DEF CredRow
  <2>1. c \in CredRow /\ c.tokens = NoTokens
    BY <2>0 DEF CredRow
  <2>2. cred' = Stored(c, cred.ver) /\ forgotten' = TRUE
    BY <1>3 DEF Forget
  <2> HIDE DEF c
  <2>3. cred' \in CredRow /\ cred'.ver = cred.ver + 1 /\ cred'.tokens = NoTokens
    BY <2>0, <2>1, <2>2 DEF Stored, CredRow
  <2>4. /\ process' \in [Process -> Job \cup {Idle}] /\ Moves({p}) /\ process'[p] = Idle
    BY <1>1, RowFacts DEF Return, Become, Moves
  <2>5. /\ LeaseStep(p) /\ LockMoves(p)
        /\ JobInv(process'[p], conn, cred', lock', turn', revoked, faults')
    BY <1>1, <2>4, ReleasedMoves DEF LeaseStep, JobInv
  <2>6. FlowStep({p})
    <3>1. \A f \in Flow : NoTokens.flow # f
      BY Widths
    <3> QED  BY <1>1, <2>3, <2>4, <3>1 DEF FlowStep, browser
  <2>7. RowsInv' /\ DisconnectForgets' /\ ConnectedIsKept' /\ RotationInv'
    BY <1>0, <1>1, <2>3
       DEF IInv, RowsInv, DisconnectForgets, ConnectedIsKept, RotationInv, Found
  <2>8. /\ turn' \in [Flow -> 0 .. MaxTurns] /\ \A f \in Flow : turn[f] <= turn'[f]
        /\ faults <= faults' /\ faults' \in 0 .. MaxFaults /\ forgotten' \in BOOLEAN
    BY <1>1, <2>2, RowFacts, Widths
  <2>9. cred'.ver > cred.ver
    BY <2>0, <2>3
  <2> QED
    BY <1>0, <1>1, <2>3, <2>4, <2>5, <2>6, <2>7, <2>8, <2>9, CredStep
<1> QED  BY <1>2, <1>3

\* The provider rotates the token it honours.
LEMMA Rotates ==
    ASSUME IInv, NEW tokens \in Tokens, Good(tokens), tokens.turn < MaxTurns,
           turn' = [turn EXCEPT ![tokens.flow] = @ + 1]
    PROVE  /\ turn' \in [Flow -> 0 .. MaxTurns] /\ \A f \in Flow : turn[f] <= turn'[f]
           /\ turn'[tokens.flow] = tokens.turn + 1
           /\ \A f \in Flow : f # tokens.flow => turn'[f] = turn[f]
<1>1. /\ tokens.flow \in Flow /\ tokens.turn \in Nat /\ turn[tokens.flow] = tokens.turn
      /\ MaxTurns \in Nat
  BY Widths DEF Good
<1>2. turn \in [Flow -> 0 .. MaxTurns]
  BY RowFacts
<1>3. tokens.turn + 1 \in 0 .. MaxTurns
  BY <1>1
<1>4. \A f \in Flow : turn'[f] = IF f = tokens.flow THEN tokens.turn + 1 ELSE turn[f]
  BY <1>1, <1>2
<1>5. turn' \in [Flow -> 0 .. MaxTurns]
  BY <1>1, <1>2, <1>3
<1>6. \A f \in Flow : turn[f] \in Nat
  BY <1>1, <1>2
<1> QED  BY <1>1, <1>4, <1>5, <1>6

LEMMA RefreshKeeps ==
    ASSUME IInv, NEW p \in Process, Refresh(p)
    PROVE  IInv'
<1> DEFINE old == process[p]
           next == [old.tokens EXCEPT !.turn = old.tokens.turn + 1]
           k == [old EXCEPT !.pc = "check", !.tokens = next]
<1>0. /\ old \in Job /\ old # Idle /\ PlaceInv(old) /\ ConnInv(old, conn)
      /\ LeaseInv(old, conn, lock, faults)
      /\ CredInv(old, conn, cred, turn, revoked) /\ CalmInv(old, cred, turn, faults)
      /\ old.pc = "refresh" /\ old.op \in Refreshing
  BY JobFacts DEF At, Refresh, PlaceInv
<1>1. UNCHANGED <<conn, cred, browser, jobs, revoked, forgotten, faults>>
  BY DEF Refresh, history
<1>2. old.tokens \in Tokens /\ old.tokens # NoTokens /\ process[p].pc \notin Storing
  BY <1>0 DEF CredInv, Job, Storing
<1>3. CASE turn' = turn /\ (Refreshed(p, "transient") \/ (~Good(old.tokens) /\ Refreshed(p, "denied")))
  <2>1. UNCHANGED <<conn, cred, browser, jobs, provider, history>>
    BY <1>1, <1>3 DEF provider, history
  <2>2. ~Good(old.tokens) => Refused(old)
    BY <1>0 DEF CredInv, Refused, Good, Spent
  <2> QED  BY <1>0, <1>2, <1>3, <2>1, <2>2, RefreshedStep
<1>4. CASE /\ Good(old.tokens) /\ old.tokens.turn < MaxTurns
           /\ turn' = [turn EXCEPT ![old.tokens.flow] = @ + 1]
           /\ Become(p, [process[p] EXCEPT !.pc = "check", !.tokens.turn = old.tokens.turn + 1])
           /\ lock' = lock
  <2>1. /\ turn' \in [Flow -> 0 .. MaxTurns] /\ \A f \in Flow : turn[f] <= turn'[f]
        /\ turn'[old.tokens.flow] = old.tokens.turn + 1
        /\ \A f \in Flow : f # old.tokens.flow => turn'[f] = turn[f]
    BY <1>2, <1>4, Rotates
  <2>2. old.tokens.turn \in Nat /\ MaxTurns \in Nat /\ old.tokens.flow \in Flow
    BY <1>2, Widths
  <2>3. /\ next \in Tokens /\ next # NoTokens /\ next.flow = old.tokens.flow
        /\ next.turn = old.tokens.turn + 1
    BY <1>2, <1>4, <2>2 DEF Tokens, NoTokens
  <2>4. process' = [process EXCEPT ![p] = k]
    BY <1>4 DEF Become
  <2>5. "check" \in Pc
    BY DEF Pc, Leased, Storing
  <2> HIDE DEF next
  <2>6. /\ k \in Job /\ k.pc = "check" /\ k.lease = old.lease /\ k.op = old.op
        /\ k.conn = old.conn /\ k.seen = old.seen /\ k.tokens = next
    BY <1>0, <2>3, <2>5 DEF Job
  <2> HIDE DEF k
  <2>7. /\ process' \in [Process -> Job \cup {Idle}] /\ Moves({p}) /\ process'[p] = k
    BY <2>4, <2>6, RowFacts DEF Moves
  <2>8. PlaceInv(k)
    BY <1>0, <2>6 DEF PlaceInv, Leased, Storing
  <2>9. ConnInv(k, conn) /\ LeaseInv(k, conn, lock', faults')
    BY <1>0, <1>1, <1>4, <2>6 DEF ConnInv, LeaseInv
  <2>10. CredInv(k, conn, cred', turn', revoked)
    BY <1>0, <1>1, <2>1, <2>2, <2>3, <2>6 DEF CredInv, Storing
  <2>11. CalmInv(k, cred', turn', faults')
    BY <1>0, <1>1, <2>1, <2>3, <2>6 DEF CalmInv, Storing
  <2>12. JobInv(process'[p], conn, cred', lock', turn', revoked, faults')
    BY <2>7, <2>8, <2>9, <2>10, <2>11 DEF JobInv
  <2>13. LockMoves(p) /\ LeaseStep(p)
    BY <1>0, <1>4, <2>6, <2>7, RowFacts DEF LockMoves, LeaseStep
  <2>14. FlowStep({p})
    <3>1. \A f \in Flow : f \in states \/ f > flows =>
              old.tokens.flow # f /\ cred.tokens.flow # f
      BY <1>0, KnownFlow
    <3> QED  BY <1>1, <2>1, <2>3, <2>6, <2>7, <3>1 DEF FlowStep, browser
  <2>15. faults = 0 => Kept(p) /\ Owns(p)
    BY <1>0 DEF PlaceInv, LeaseInv, Leased, Kept, Owns, Matches
  <2>16. RotationInv'
    <3> SUFFICES ASSUME faults = 0, conn.status # "disconnected", cred.tokens # NoTokens
                 PROVE  \E q \in Process : /\ Owns(q)' /\ process'[q].pc \in Storing
                                           /\ HasLast(process[q].tokens)'
      BY <1>1 DEF RotationInv, Found
    <3>1. cred.tokens = old.tokens
      BY <1>0 DEF CalmInv
    <3>2. Owns(p)'
      BY <1>0, <1>4, <2>6, <2>7, <2>15 DEF Owns, Kept, Matches, Job, Idle
    <3>3. HasLast(process[p].tokens)'
      BY <1>1, <2>1, <2>3, <2>6, <2>7, <3>1 DEF HasLast
    <3> QED  BY <2>6, <2>7, <3>2, <3>3 DEF Storing
  <2>17. RowsInv' /\ DisconnectForgets' /\ ConnectedIsKept'
    <3>1. cred.tokens # NoTokens => cred.tokens.turn <= turn'[cred.tokens.flow]
      <4> HAVE cred.tokens # NoTokens
      <4>1. cred.tokens.flow \in Flow /\ cred.tokens.turn \in Nat
        BY Widths, RowFacts DEF CredRow
      <4>2. cred.tokens.turn <= turn[cred.tokens.flow]
        BY DEF IInv, RowsInv
      <4>3. turn[cred.tokens.flow] \in Nat /\ turn'[cred.tokens.flow] \in Nat
        BY <2>1, <4>1, RowFacts
      <4> QED  BY <2>1, <4>1, <4>2, <4>3
    <3> QED  BY <1>1, <3>1 DEF IInv, RowsInv, DisconnectForgets, ConnectedIsKept
  <2>18. faults <= faults' /\ faults' \in 0 .. MaxFaults /\ forgotten' \in BOOLEAN
         /\ cred' \in CredRow
    BY <1>1, RowFacts, Widths DEF IInv, TypeOK, RowsTypeOK
  <2> HIDE DEF old
  <2> QED
    BY <1>1, <2>1, <2>7, <2>12, <2>13, <2>14, <2>15, <2>16, <2>17, <2>18, CredStep
<1> QED  BY <1>3, <1>4 DEF Refresh

LEMMA LoseRotationKeeps ==
    ASSUME IInv, NEW p \in Process, LoseRotation(p)
    PROVE  IInv'
<1> DEFINE old == process[p]
<1>0. /\ old \in Job /\ old # Idle /\ PlaceInv(old)
      /\ CredInv(old, conn, cred, turn, revoked)
      /\ old.pc = "refresh" /\ old.op \in Refreshing
  BY JobFacts DEF At, LoseRotation, PlaceInv
<1>1. /\ UNCHANGED <<conn, cred, browser, jobs, revoked, forgotten>>
      /\ faults' = faults + 1 /\ faults < MaxFaults /\ Refreshed(p, "transient")
  BY DEF LoseRotation, Fault
<1>2. old.tokens \in Tokens /\ old.seen <= cred.ver /\ process[p].pc # "idle"
  BY <1>0 DEF CredInv, Job
<1>3. /\ turn' \in [Flow -> 0 .. MaxTurns] /\ \A f \in Flow : turn[f] <= turn'[f]
      /\ \A f \in Flow : f # old.tokens.flow => turn'[f] = turn[f]
  BY <1>2, Rotates DEF LoseRotation
<1>4. /\ process' \in [Process -> Job \cup {Idle}] /\ Moves({p})
      /\ process'[p] # Idle => process'[p].tokens = NoTokens
  BY <1>0, <1>1, <1>2, RefreshedMoves
<1>5. /\ LockMoves(p) /\ LeaseStep(p)
      /\ JobInv(process'[p], conn, cred', lock', turn', revoked, faults')
  BY <1>0, <1>1, <1>2, RefreshedInv
<1>6. FlowStep({p})
  <2>1. \A f \in Flow : f \in states \/ f > flows =>
            old.tokens.flow # f /\ cred.tokens.flow # f /\ NoTokens.flow # f
    BY <1>0, KnownFlow
  <2> QED  BY <1>1, <1>3, <1>4, <2>1 DEF FlowStep, browser
<1>7. faults \in Nat /\ faults' \in 0 .. MaxFaults /\ faults' # 0 /\ faults <= faults'
  BY <1>1, RowFacts, Widths
<1>8. RotationInv'
  BY <1>7 DEF RotationInv
<1>9. RowsInv' /\ DisconnectForgets' /\ ConnectedIsKept'
  <2>1. cred.tokens # NoTokens => cred.tokens.turn <= turn'[cred.tokens.flow]
    <3> HAVE cred.tokens # NoTokens
    <3>1. cred.tokens.flow \in Flow /\ cred.tokens.turn \in Nat
      BY Widths, RowFacts DEF CredRow
    <3>2. cred.tokens.turn <= turn[cred.tokens.flow]
      BY DEF IInv, RowsInv
    <3>3. turn[cred.tokens.flow] \in Nat /\ turn'[cred.tokens.flow] \in Nat
      BY <1>3, <3>1, RowFacts
    <3> QED  BY <1>3, <3>1, <3>2, <3>3
  <2> QED  BY <1>1, <2>1 DEF IInv, RowsInv, DisconnectForgets, ConnectedIsKept
<1>10. forgotten' \in BOOLEAN /\ cred' \in CredRow
  BY <1>1, RowFacts DEF IInv, TypeOK, RowsTypeOK
<1> HIDE DEF old
<1> QED
  BY <1>1, <1>3, <1>4, <1>5, <1>6, <1>7, <1>8, <1>9, <1>10, CredStep

-----------------------------------------------------------------------------
(* Steps nobody takes: time passes, and the provider forgets a grant. *)

LEMMA QuietStep ==
    ASSUME IInv, UNCHANGED <<conn, cred, process, turn, flows, jobs, forgotten>>,
           states' \subseteq states, revoked \subseteq revoked', revoked' \subseteq Flow,
           lock' \in LockRow, lock'.ver = lock.ver,
           \A d \in Process : Owns(d) =>
               lock' = lock \/ (process[d].op \in Refreshing /\ faults' # 0),
           faults' \in 0 .. MaxFaults, faults <= faults'
    PROVE  IInv'
<1>0. /\ faults \in Nat /\ faults' \in Nat /\ turn \in [Flow -> 0 .. MaxTurns]
      /\ lock.ver \in Nat
  BY RowFacts, Widths DEF LockRow
<1>1. TypeOK'
  BY RowFacts DEF IInv, TypeOK, RowsTypeOK, LockRow
<1>2. \A d \in Process : Around(d)
  BY <1>0 DEF Around
<1>3. Moves({}) /\ {} \in SUBSET Process
  BY DEF Moves
<1>4. FlowStep({})
  BY FlowsKept
<1>5. RowsInv' /\ DisconnectForgets' /\ ConnectedIsKept'
  BY DEF IInv, RowsInv, DisconnectForgets, ConnectedIsKept
<1>6. RotationInv'
  <2> SUFFICES ASSUME faults' = 0, Found, cred.tokens # NoTokens
               PROVE  \/ HasLast(cred.tokens)'
                      \/ \E p \in Process : /\ Owns(p)' /\ process'[p].pc \in Storing
                                            /\ HasLast(process[p].tokens)'
    BY DEF RotationInv, Found
  <2>1. faults = 0
    BY <1>0
  <2>2. CASE HasLast(cred.tokens)
    BY <2>2 DEF HasLast
  <2>3. ASSUME NEW p \in Process, Owns(p), process[p].pc \in Storing, HasLast(process[p].tokens)
        PROVE  Owns(p)' /\ process'[p].pc \in Storing /\ HasLast(process[p].tokens)'
    <3>1. lock' = lock
      BY <2>3
    <3> QED  BY <2>3, <3>1 DEF Owns, Kept, Matches, HasLast
  <2> QED  BY <2>1, <2>2, <2>3 DEF IInv, RotationInv
<1> QED  BY <1>1, <1>2, <1>3, <1>4, <1>5, <1>6, StepKeeps

LEMMA StateEndsKeeps ==
    ASSUME IInv, NEW f \in Flow, StateEnds(f)
    PROVE  IInv'
<1>1. /\ UNCHANGED <<conn, cred, lock, process, turn, flows, jobs, forgotten, revoked, faults>>
      /\ states' \subseteq states
  BY DEF StateEnds, rows, provider, history
<1>2. lock \in LockRow /\ faults \in 0 .. MaxFaults /\ faults <= faults /\ revoked \subseteq Flow
  BY RowFacts, Widths DEF IInv, TypeOK, RowsTypeOK
<1> QED  BY <1>1, <1>2, QuietStep

LEMMA RevokeKeeps ==
    ASSUME IInv, Revoke
    PROVE  IInv'
<1>1. /\ UNCHANGED <<conn, cred, lock, process, turn, states, flows, jobs, forgotten, faults>>
      /\ revoked' = revoked \cup {cred.tokens.flow}
  BY DEF Revoke, rows, browser, history
<1>2. cred.tokens.flow \in Flow
  BY RowFacts, Widths DEF Revoke, CredRow
<1>3. lock \in LockRow /\ faults \in 0 .. MaxFaults /\ faults <= faults /\ revoked \subseteq Flow
  BY RowFacts, Widths DEF IInv, TypeOK, RowsTypeOK
<1> QED  BY <1>1, <1>2, <1>3, QuietStep

LEMMA LeaseExpiresKeeps ==
    ASSUME IInv, LeaseExpires
    PROVE  IInv'
<1>1. /\ UNCHANGED <<conn, cred, process, turn, revoked, states, flows, jobs, forgotten>>
      /\ lock' = [lock EXCEPT !.held = FALSE]
  BY DEF LeaseExpires, browser, provider
<1>2. lock' \in LockRow /\ lock'.ver = lock.ver
  BY <1>1, RowFacts DEF LockRow
<1>3. /\ faults \in Nat /\ faults' \in 0 .. MaxFaults /\ faults <= faults'
      /\ (\E p \in Process : Owns(p)) => faults' # 0
  BY RowFacts, Widths DEF LeaseExpires, Fault
<1>4. \A d \in Process : Owns(d) =>
          lock' = lock \/ (process[d].op \in Refreshing /\ faults' # 0)
  BY <1>3 DEF LeaseExpires, Refreshing
<1>5. revoked \subseteq Flow
  BY DEF IInv, TypeOK, RowsTypeOK
<1> QED  BY <1>1, <1>2, <1>3, <1>4, <1>5, QuietStep

-----------------------------------------------------------------------------
(* The invariant holds. *)

LEMMA InitIInv == Init => IInv
<1> SUFFICES ASSUME Init PROVE IInv
  OBVIOUS
<1>1. /\ conn = [ver |-> 1, status |-> "authorization_required", flow |-> NoFlow, due |-> "none"]
      /\ cred = [ver |-> 0, tokens |-> NoTokens]
      /\ lock = [ver |-> 0, held |-> FALSE]
      /\ states = {} /\ flows = 0 /\ jobs = {} /\ process = [p \in Process |-> Idle]
      /\ turn = [f \in Flow |-> 0] /\ revoked = {} /\ forgotten = FALSE /\ faults = 0
  BY DEF Init, Absent
<1>2. TypeOK
  <2>1. /\ conn.ver = 1 /\ conn.status = "authorization_required" /\ conn.flow = NoFlow
        /\ conn \in ConnRow
    BY <1>1 DEF ConnRow, Status, Absent
  <2>2. cred \in CredRow /\ lock \in LockRow
    BY <1>1 DEF CredRow, LockRow
  <2>3. turn \in [Flow -> 0 .. MaxTurns] /\ faults \in 0 .. MaxFaults /\ flows \in 0 .. MaxFlows
    BY <1>1, Widths
  <2> QED
    BY <1>1, <2>1, <2>2, <2>3 DEF TypeOK, RowsTypeOK, ConnRow, CredRow, LockRow
<1>3. RowsInv /\ DisconnectForgets /\ ConnectedIsKept /\ RotationInv
  BY <1>1 DEF RowsInv, DisconnectForgets, ConnectedIsKept, RotationInv
<1>4. \A p \in Process : process[p] = Idle
  BY <1>1
<1>5. FlowsInv
  BY <1>1, <1>4, Widths DEF FlowsInv
<1>6. OneOwner /\ JobsInv
  BY <1>4 DEF OneOwner, JobsInv, JobInv
<1> QED  BY <1>2, <1>3, <1>5, <1>6 DEF IInv

LEMMA RunKeeps ==
    ASSUME IInv, NEW p \in Process, Run(p)
    PROVE  IInv'
<1>1. CASE AcquireGuard(p) \/ AcquireFails(p)
  BY <1>1, AcquireGuardKeeps, AcquireFailsKeeps
<1>2. CASE SaveCheck(p) \/ SaveVersion(p) \/ SaveCommit(p)
  BY <1>2, SaveCheckKeeps, SaveVersionKeeps, SaveCommitKeeps
<1>3. CASE (\E f \in Flow : StartCallback(p, f)) \/ Exchange(p) \/ Connect(p)
  BY <1>3, StartCallbackKeeps, ExchangeKeeps, ConnectKeeps
<1>4. CASE StartDisconnect(p) \/ Disable(p) \/ Clear(p) \/ Forget(p)
  <2>1. ASSUME StartDisconnect(p) PROVE IInv'
    BY <2>1, StartKeeps DEF StartDisconnect
  <2> QED  BY <1>4, <2>1, DisableKeeps, ClearKeeps, ForgetKeeps
<1>5. CASE Maintain(p) \/ Enqueue(p)
  BY <1>5, MaintainKeeps, EnqueueKeeps
<1>6. CASE StartRefresh(p) \/ StartTask(p) \/ ReadCredentials(p)
  <2>1. ASSUME StartRefresh(p) PROVE IInv'
    BY <2>1, WriteBegins DEF StartRefresh
  <2>2. ASSUME StartTask(p) PROVE IInv'
    BY <2>2, StartKeeps DEF StartTask
  <2> QED  BY <1>6, <2>1, <2>2, ReadCredentialsKeeps
<1>7. CASE Load(p) \/ Refresh(p) \/ SetStatus(p)
  BY <1>7, LoadKeeps, RefreshKeeps, SetStatusKeeps
<1>8. CASE Crash(p) \/ LoseRotation(p)
  BY <1>8, CrashKeeps, LoseRotationKeeps
<1> QED  BY <1>1, <1>2, <1>3, <1>4, <1>5, <1>6, <1>7, <1>8 DEF Run

LEMMA StutterKeeps ==
    ASSUME IInv, UNCHANGED vars
    PROVE  IInv'
<1>1. /\ UNCHANGED <<conn, cred, lock, process, turn, states, flows, jobs, forgotten, faults,
                     revoked>>
  BY DEF vars, rows, browser, provider, history
<1>2. lock \in LockRow /\ faults \in 0 .. MaxFaults /\ faults <= faults /\ revoked \subseteq Flow
  BY RowFacts, Widths DEF IInv, TypeOK, RowsTypeOK
<1> QED  BY <1>1, <1>2, QuietStep

LEMMA NextKeeps ==
    ASSUME IInv, [Next]_vars
    PROVE  IInv'
  BY RunKeeps, AuthorizeKeeps, StateEndsKeeps, LeaseExpiresKeeps, RevokeKeeps, TickKeeps,
     StutterKeeps DEF Next

THEOREM Inductive == Spec => []IInv
<1>1. IInv /\ [Next]_vars => IInv'
  BY NextKeeps
<1> QED  BY InitIInv, <1>1, PTL DEF Spec

-----------------------------------------------------------------------------
(* What it means for the code. *)

\* The rows and the local state of every invocation keep their shape, and a
\* connection that waits for its callback or is connected has the configuration
\* of a flow.
THEOREM TypeCorrect == Spec => []TypeOK
<1>1. IInv => TypeOK
  BY DEF IInv
<1> QED  BY Inductive, <1>1, PTL

\* However many invocations refresh, complete a callback or use the connection
\* while the owner disconnects it, an answered disconnect (src/api.rs,
\* disconnect) leaves no credentials, and none come back.
THEOREM DisconnectIsFinal == Spec => []DisconnectForgets
<1>1. IInv => DisconnectForgets
  BY DEF IInv
<1> QED  BY Inductive, <1>1, PTL

\* A connection is connected only with credentials and a date of maintenance:
\* set_connection_status (src/worker.rs) clears both in one transaction.
THEOREM ConnectedHasCredentials == Spec => []ConnectedIsKept
<1>1. IInv => ConnectedIsKept
  BY DEF IInv
<1> QED  BY Inductive, <1>1, PTL

\* Any number of workers share one refresh lease (src/oauth_store.rs): without
\* faults the token the provider gave last is stored, or the owner of the lease
\* has it and will store it.
THEOREM RotationIsNeverLost == Spec => []RotationStored
<1>1. ASSUME IInv PROVE RotationStored
  <2> SUFFICES ASSUME faults = 0, Found, cred.tokens # NoTokens
               PROVE  LET last == [cred.tokens EXCEPT !.turn = turn[cred.tokens.flow]]
                      IN  cred.tokens = last \/ InHand(last)
    BY DEF RotationStored
  <2> DEFINE last == [cred.tokens EXCEPT !.turn = turn[cred.tokens.flow]]
  <2>1. cred.tokens \in Tokens
    BY <1>1, RowFacts DEF CredRow
  <2>2. \A t \in Tokens : HasLast(t) => t = last
    BY <2>1 DEF HasLast, Tokens
  <2>3. \A p \in Process : process[p].pc \in Storing => process[p].tokens \in Tokens
    <3> SUFFICES ASSUME NEW p \in Process, process[p].pc \in Storing
                 PROVE  process[p].tokens \in Tokens
      OBVIOUS
    <3>1. /\ process[p] \in Job /\ CredInv(process[p], conn, cred, turn, revoked)
      BY <1>1, JobFacts DEF Storing
    <3> QED  BY <3>1 DEF Job, CredInv
  <2> HIDE DEF last
  <2>4. cred.tokens = last \/ InHand(last)
    BY <1>1, <2>1, <2>2, <2>3 DEF IInv, RotationInv, InHand, Storing
  <2> QED  BY <2>4 DEF last
<1> QED  BY Inductive, <1>1, PTL

\* A refused refresh clears the credentials it was refused for and no others:
\* those the provider honours stay until the connection is disconnected, since
\* set_connection_status compares the version read before the refresh.
THEOREM RefusalIsOfRefused == Spec => RefusalClearsRefused
<1>1. ASSUME IInv, [Next]_vars, conn.status = "connected", cred.tokens # NoTokens,
             Good(cred.tokens)
      PROVE  cred'.tokens # NoTokens
  <2>1. ASSUME cred' = cred PROVE cred'.tokens # NoTokens
    BY <1>1, <2>1
  <2>2. ASSUME NEW p \in Process, SaveCommit(p) PROVE cred'.tokens # NoTokens
    <3>1. CredInv(process[p], conn, cred, turn, revoked) /\ process[p].pc = "save"
      BY <1>1, <2>2, JobFacts DEF SaveCommit, At
    <3>2. process[p].tokens # NoTokens
      BY <3>1 DEF CredInv, Storing
    <3>3. CASE SaveFits(p)
      <4> DEFINE c == [cred EXCEPT !.tokens = process[p].tokens]
      <4>1. c.tokens # NoTokens /\ cred' = Stored(c, cred.ver)
        BY <1>1, <2>2, <3>2, <3>3, RowFacts DEF SaveCommit, CredRow
      <4>2. c = [ver |-> cred.ver, tokens |-> process[p].tokens]
        BY <1>1, RowFacts DEF CredRow
      <4> HIDE DEF c
      <4> QED  BY <4>1, <4>2 DEF Stored
    <3>4. CASE ~SaveFits(p)
      BY <2>1, <2>2, <3>4 DEF SaveCommit
    <3> QED  BY <3>3, <3>4
  <2>3. ASSUME NEW p \in Process, Forget(p) PROVE cred'.tokens # NoTokens
    BY <1>1, <2>3, JobFacts DEF Forget, At, ConnInv
  <2>4. ASSUME NEW p \in Process, SetStatus(p) PROVE cred'.tokens # NoTokens
    <3>1. CredInv(process[p], conn, cred, turn, revoked) /\ process[p].pc = "status"
      BY <1>1, <2>4, JobFacts DEF SetStatus, At
    <3>2. ~(StatusFits(p) /\ Clears(p))
      BY <1>1, <3>1 DEF StatusFits, Clears, Matches, CredInv, Spent, Good
    <3> QED  BY <2>1, <2>4, <3>2 DEF SetStatus
  <2>5. ASSUME NEW p \in Process, Run(p) PROVE cred' = cred \/ SaveCommit(p) \/ Forget(p) \/ SetStatus(p)
    BY <2>5 DEF Run, AcquireGuard, AcquireFails, SaveCheck, SaveVersion, StartCallback, Exchange,
                Connect, StartDisconnect, Disable, Clear, Maintain, Enqueue, StartRefresh,
                StartTask, ReadCredentials, Load, Refresh, Crash, LoseRotation, rows
  <2>6. ASSUME Authorize \/ (\E f \in Flow : StateEnds(f)) \/ LeaseExpires \/ Revoke \/ Tick
               \/ UNCHANGED vars
        PROVE  cred' = cred
    BY <2>6 DEF Authorize, StateEnds, LeaseExpires, Revoke, Tick, vars, rows
  <2> QED  BY <1>1, <2>1, <2>2, <2>3, <2>4, <2>5, <2>6 DEF Next
<1>2. IInv /\ [Next]_vars =>
        [conn.status = "connected" /\ cred.tokens # NoTokens /\ Good(cred.tokens)
          => cred'.tokens # NoTokens]_vars
  BY <1>1
<1> QED  BY Inductive, <1>2, PTL DEF Spec, RefusalClearsRefused

-----------------------------------------------------------------------------
(* Connection implements ConnectionSpec.  What is stored is what the provider *)
(* gave last, which takes an invariant about all that have tokens.            *)

\* Who has tokens, to refresh or to store them.
Holding == {"refresh"} \cup Storing

\* Whoever is about to store tokens has the last of their flow, and nobody else
\* has them, not even the row: a refresh takes the token it uses from all.
Fresh(k, p) ==
    k.pc \in Storing =>
        /\ turn[k.tokens.flow] = k.tokens.turn
        /\ cred.tokens # k.tokens
        /\ \A q \in Process \ {p} : process[q].pc \in Holding => process[q].tokens # k.tokens

FreshInv == \A p \in Process : Fresh(process[p], p)

\* A refresh that began with a connection that still is connected has read the
\* version of its credentials.
Seen(k) ==
    /\ k # Idle /\ k.op \in Refreshing /\ k.pc # "credentials"
    /\ k.conn.ver = conn.ver /\ conn.status = "connected"
    => k.seen # Absent

SeenInv == \A p \in Process : Seen(process[p])

\* What p has to store it had before, and what it loads is stored.
FreshGo(p) ==
    /\ process'[p].pc \in Storing =>
           process[p].pc \in Storing /\ process'[p].tokens = process[p].tokens
    /\ process'[p].pc = "refresh" => process'[p].tokens = cred.tokens

\* What p remembers it remembered before, unless it has yet to read it.
SeenGo(p) ==
    \/ process'[p] = Idle \/ process'[p].op \notin Refreshing
    \/ process'[p].pc = "credentials"
    \/ /\ process[p].pc \notin {"idle", "credentials"}
       /\ process'[p].op = process[p].op /\ process'[p].conn = process[p].conn
       /\ process'[p].seen = process[p].seen

\* A written connection has a version nobody has read.
ConnGrows ==
    \/ conn'.ver > conn.ver
    \/ conn'.ver = conn.ver /\ conn'.status = conn.status

LEMMA FreshKept ==
    ASSUME IInv, FreshInv, NEW M \in SUBSET Process, Moves(M), turn' = turn,
           cred'.tokens \in {cred.tokens, NoTokens}, \A p \in M : FreshGo(p)
    PROVE  FreshInv'
<1> SUFFICES ASSUME NEW p \in Process, process'[p].pc \in Storing
             PROVE  /\ turn'[process'[p].tokens.flow] = process'[p].tokens.turn
                    /\ cred'.tokens # process'[p].tokens
                    /\ \A q \in Process \ {p} : process'[q].pc \in Holding =>
                           process'[q].tokens # process'[p].tokens
  BY DEF FreshInv, Fresh
<1> DEFINE t == process[p].tokens
<1>1. process[p].pc \in Storing /\ process'[p].tokens = t
  BY DEF Moves, FreshGo
<1>2. /\ turn[t.flow] = t.turn /\ cred.tokens # t
      /\ \A q \in Process \ {p} : process[q].pc \in Holding => process[q].tokens # t
  BY <1>1 DEF FreshInv, Fresh
<1>3. t # NoTokens
  BY <1>1, JobFacts DEF CredInv, Storing
<1>4. ASSUME NEW q \in Process \ {p}, process'[q].pc \in Holding
      PROVE  process'[q].tokens # t
  <2>1. CASE q \notin M
    BY <1>2, <1>4, <2>1 DEF Moves
  <2>2. CASE q \in M
    BY <1>2, <1>4, <2>2 DEF FreshGo, Holding
  <2> QED  BY <2>1, <2>2
<1> QED  BY <1>1, <1>2, <1>3, <1>4

LEMMA SeenKept ==
    ASSUME IInv, SeenInv, NEW M \in SUBSET Process, Moves(M),
           conn' \in ConnRow, ConnGrows, \A p \in M : SeenGo(p)
    PROVE  SeenInv'
<1> SUFFICES ASSUME NEW p \in Process, process'[p] # Idle, process'[p].op \in Refreshing,
                    process'[p].pc # "credentials",
                    process'[p].conn.ver = conn'.ver, conn'.status = "connected"
             PROVE  process'[p].seen # Absent
  BY DEF SeenInv, Seen
<1>1. /\ process[p] # Idle /\ process[p].pc # "credentials"
      /\ process'[p].op = process[p].op /\ process'[p].conn = process[p].conn
      /\ process'[p].seen = process[p].seen
  BY DEF Moves, SeenGo, Idle
<1>2. process[p] \in Job /\ ConnInv(process[p], conn)
  BY <1>1 DEF IInv, TypeOK, JobsInv, JobInv
<1>3. /\ process[p].conn.ver \in Nat /\ process[p].conn.ver <= conn.ver
      /\ conn.ver \in Nat /\ conn'.ver \in Nat
  BY <1>2, RowFacts DEF ConnInv, Job, ConnRow
<1>4. conn'.ver = conn.ver /\ conn.status = "connected"
  BY <1>1, <1>3 DEF ConnGrows
<1> QED  BY <1>1, <1>4 DEF SeenInv, Seen

\* Steps that end, go on with what they had, or begin.
Goes(p) == Moves({p}) /\ FreshGo(p) /\ SeenGo(p)

LEMMA ReturnGoes ==
    ASSUME IInv, NEW p \in Process, Return(p)
    PROVE  Goes(p)
<1>1. Moves({p}) /\ process'[p] = Idle
  BY RowFacts DEF Return, Become, Moves
<1> QED  BY <1>1 DEF Goes, FreshGo, SeenGo, Idle, Storing

LEMMA RefreshedGoes ==
    ASSUME IInv, NEW p \in Process, process[p].pc \notin {"idle", "credentials"},
           process[p].op \in Refreshing,
           NEW result \in {"ok", "denied", "transient"}, Refreshed(p, result)
    PROVE  Goes(p)
<1>1. /\ Moves({p})
      /\ process'[p] # Idle =>
            /\ process'[p].pc = "status" /\ process'[p].op = process[p].op
            /\ process'[p].conn = process[p].conn /\ process'[p].seen = process[p].seen
  BY RefreshedMoves
<1> QED  BY <1>1 DEF Goes, FreshGo, SeenGo, Idle, Storing

LEMMA FailsGoes ==
    ASSUME IInv, NEW p \in Process, process[p].pc \in {"acquire"} \cup Storing,
           NEW result \in {"denied", "transient"}, Fails(p, result)
    PROVE  Goes(p)
<1>1. process[p] \in Job /\ PlaceInv(process[p])
  BY JobFacts DEF Storing
<1>2. process[p].op \in {"callback", "disconnect"} \cup Refreshing
  BY <1>1 DEF PlaceInv, Job, Op, Refreshing, Storing
<1>3. process[p].pc \notin {"idle", "credentials"}
  BY DEF Storing
<1> QED  BY <1>2, <1>3, ReturnGoes, RefreshedGoes DEF Fails, Abort

LEMMA OnGoes ==
    ASSUME IInv, NEW p \in Process, NEW k, process' = [process EXCEPT ![p] = k],
           k.pc \in Storing => process[p].pc \in Storing /\ k.tokens = process[p].tokens,
           k.pc = "refresh" => k.tokens = cred.tokens,
           \/ k.op \notin Refreshing \/ k.pc = "credentials"
           \/ /\ process[p].pc \notin {"idle", "credentials"} /\ k.op = process[p].op
              /\ k.conn = process[p].conn /\ k.seen = process[p].seen
    PROVE  Goes(p)
<1>1. Moves({p}) /\ process'[p] = k
  BY RowFacts DEF Moves
<1> QED  BY <1>1 DEF Goes, FreshGo, SeenGo

\* Steps of one invocation that leave the connection, the stored tokens and the
\* provider alone.
LEMMA LocalGoes ==
    ASSUME IInv, NEW p \in Process,
           \/ AcquireGuard(p) \/ AcquireFails(p) \/ SaveCheck(p) \/ SaveVersion(p)
           \/ StartDisconnect(p) \/ Clear(p) \/ Enqueue(p) \/ StartTask(p) \/ Load(p)
           \/ Crash(p) \/ \E f \in Flow : StartCallback(p, f)
    PROVE  Goes(p)
<1>0. process[p].pc # "idle" =>
          /\ process[p] \in Job /\ PlaceInv(process[p])
          /\ CredInv(process[p], conn, cred, turn, revoked)
  BY JobFacts
<1>1. CASE AcquireGuard(p)
  <2>1. PICK pc \in {"exchange", "disable", "load"} : Acquire(p, pc)
    BY <1>1 DEF AcquireGuard
  <2> DEFINE k == [process[p] EXCEPT !.pc = pc, !.lease = lock.ver + 1]
  <2>2. process' = [process EXCEPT ![p] = k] /\ process[p].pc = "acquire"
    BY <1>1, <2>1 DEF Acquire, Become, AcquireGuard, At
  <2>3. /\ k.pc = pc /\ k.op = process[p].op /\ k.conn = process[p].conn
        /\ k.seen = process[p].seen
    BY <1>0, <2>2 DEF Job
  <2> HIDE DEF k
  <2> QED  BY <2>2, <2>3, OnGoes DEF Storing
<1>2. CASE AcquireFails(p)
  BY <1>2, FailsGoes DEF AcquireFails, At
<1>3. CASE SaveCheck(p)
  <2> DEFINE k == [process[p] EXCEPT !.pc = "version"]
  <2>1. process[p].pc = "check" /\ process[p] \in Job
    BY <1>0, <1>3 DEF SaveCheck, At
  <2>2. CASE Fails(p, "denied")
    BY <2>1, <2>2, FailsGoes DEF Storing
  <2>3. CASE process' = [process EXCEPT ![p] = k]
    <3>1. /\ k.pc = "version" /\ k.op = process[p].op /\ k.conn = process[p].conn
          /\ k.seen = process[p].seen /\ k.tokens = process[p].tokens
      BY <2>1 DEF Job
    <3> HIDE DEF k
    <3> QED  BY <2>1, <2>3, <3>1, OnGoes DEF Storing
  <2> QED  BY <1>3, <2>2, <2>3 DEF SaveCheck, Goto, Become
<1>4. CASE SaveVersion(p)
  <2> DEFINE k == [process[p] EXCEPT !.pc = "save", !.cred = cred.ver]
  <2>1. process[p].pc = "version" /\ process[p] \in Job
    BY <1>0, <1>4 DEF SaveVersion, At
  <2>2. CASE Fails(p, "transient")
    BY <2>1, <2>2, FailsGoes DEF Storing
  <2>3. CASE process' = [process EXCEPT ![p] = k]
    <3>1. /\ k.pc = "save" /\ k.op = process[p].op /\ k.conn = process[p].conn
          /\ k.seen = process[p].seen /\ k.tokens = process[p].tokens
      BY <2>1 DEF Job
    <3> HIDE DEF k
    <3> QED  BY <2>1, <2>3, <3>1, OnGoes DEF Storing
  <2> QED  BY <1>4, <2>2, <2>3 DEF SaveVersion, Become
<1>5. CASE StartDisconnect(p) \/ StartTask(p)
  <2>1. PICK k \in {Begin("disconnect", "acquire"), Begin("task", "credentials")} :
            process' = [process EXCEPT ![p] = k]
    BY <1>5 DEF StartDisconnect, StartTask, Become
  <2>2. k.pc = "credentials" \/ (k.op = "disconnect" /\ k.pc = "acquire")
    BY <2>1 DEF Begin
  <2> QED  BY <2>1, <2>2, OnGoes DEF Storing, Refreshing
<1>6. CASE Clear(p)
  <2> DEFINE k == [process[p] EXCEPT !.pc = "forget", !.cred = cred.ver]
  <2>1. process[p].pc = "clear" /\ process[p] \in Job /\ process[p].op = "disconnect"
    BY <1>0, <1>6 DEF Clear, At, PlaceInv
  <2>2. CASE process' = [process EXCEPT ![p] = k]
    <3>1. k.pc = "forget" /\ k.op = "disconnect"
      BY <2>1 DEF Job
    <3> HIDE DEF k
    <3> QED  BY <2>2, <3>1, OnGoes DEF Storing, Refreshing
  <2> QED  BY <1>6, <2>2, ReturnGoes DEF Clear, Abort, Become
<1>7. CASE Enqueue(p) \/ Crash(p)
  BY <1>7, ReturnGoes DEF Enqueue, Crash
<1>8. CASE Load(p)
  <2> DEFINE k == [process[p] EXCEPT !.pc = "refresh", !.tokens = cred.tokens]
  <2>1. process[p].pc = "load" /\ process[p] \in Job /\ process[p].op \in Refreshing
    BY <1>0, <1>8 DEF Load, At, PlaceInv
  <2>2. CASE Refreshed(p, "denied")
    BY <2>1, <2>2, RefreshedGoes
  <2>3. CASE process' = [process EXCEPT ![p] = k]
    <3>1. /\ k.pc = "refresh" /\ k.op = process[p].op /\ k.conn = process[p].conn
          /\ k.seen = process[p].seen /\ k.tokens = cred.tokens
      BY <2>1 DEF Job
    <3> HIDE DEF k
    <3> QED  BY <2>1, <2>3, <3>1, OnGoes DEF Storing
  <2> QED  BY <1>8, <2>2, <2>3 DEF Load, Become
<1>9. CASE \E f \in Flow : StartCallback(p, f)
  <2> PICK f \in Flow : StartCallback(p, f)
    BY <1>9
  <2> DEFINE k == [Begin("callback", "acquire") EXCEPT !.flow = f]
  <2>1. process' = [process EXCEPT ![p] = k] /\ k.pc = "acquire" /\ k.op = "callback"
    BY DEF StartCallback, Become, Begin
  <2> HIDE DEF k
  <2> QED  BY <2>1, OnGoes DEF Storing, Refreshing
<1> QED  BY <1>1, <1>2, <1>3, <1>4, <1>5, <1>6, <1>7, <1>8, <1>9

-----------------------------------------------------------------------------
(* What the steps write. *)

\* What a step does to the connection and the tokens when it writes either.
Writes(status, tokens) ==
    /\ conn'.ver = conn.ver + 1 /\ conn'.status = status
    /\ cred'.tokens = tokens

LEMMA ConnectDoes ==
    ASSUME IInv, NEW p \in Process, Connect(p)
    PROVE  /\ Goes(p)
           /\ UNCHANGED <<cred, lock, browser, jobs, provider, history>>
           /\ \/ conn' = conn
              \/ /\ Writes("connected", cred.tokens)
                 /\ conn.status = "authorization_pending" /\ cred.tokens # NoTokens
<1> DEFINE old == process[p]
           c == [old.conn EXCEPT !.status = "connected", !.due = "later"]
<1>0. /\ old \in Job /\ PlaceInv(old) /\ ConnInv(old, conn)
      /\ CredInv(old, conn, cred, turn, revoked) /\ old.pc = "connect"
  BY JobFacts DEF At, Connect
<1>1. Goes(p) /\ UNCHANGED <<cred, lock, browser, jobs, provider, history>>
  BY ReturnGoes DEF Connect
<1>2. CASE ~ConnectFits(p)
  BY <1>1, <1>2 DEF Connect
<1>3. CASE ConnectFits(p)
  <2>1. /\ old.conn \in ConnRow /\ conn.ver \in Nat
        /\ conn.status = "authorization_pending" /\ cred.tokens # NoTokens
    BY <1>0, <1>3, RowFacts DEF ConnectFits, Matches, ConnInv, CredInv, PlaceInv, Job, ConnRow
  <2>2. c \in ConnRow /\ c.status = "connected"
    BY <2>1 DEF ConnRow, Status
  <2>3. conn' = Stored(c, conn.ver)
    BY <1>3 DEF Connect, Connected
  <2> HIDE DEF c
  <2>4. conn'.ver = conn.ver + 1 /\ conn'.status = "connected"
    BY <2>1, <2>2, <2>3, StoredConn
  <2> QED  BY <1>1, <2>1, <2>4 DEF Writes
<1> QED  BY <1>2, <1>3

LEMMA DisableDoes ==
    ASSUME IInv, NEW p \in Process, Disable(p)
    PROVE  /\ Goes(p)
           /\ UNCHANGED <<cred, browser, jobs, provider, history>>
           /\ \/ conn' = conn
              \/ Writes("disconnected", cred.tokens) /\ conn.status # "disconnected"
<1> DEFINE k == [process[p] EXCEPT !.pc = "clear"]
           c == [conn EXCEPT !.status = "disconnected", !.flow = NoFlow, !.due = "none"]
<1>0. process[p] \in Job /\ process[p].op = "disconnect"
  BY JobFacts DEF At, Disable, PlaceInv
<1>1. UNCHANGED <<cred, browser, jobs, provider, history>>
  BY DEF Disable
<1>2. CASE ~Found
  BY <1>1, <1>2, ReturnGoes DEF Disable, Abort
<1>3. CASE Found
  <2>1. conn \in ConnRow /\ conn.ver \in Nat
    BY RowFacts DEF ConnRow
  <2>2. c \in ConnRow /\ c.status = "disconnected"
    BY <2>1 DEF ConnRow, Status
  <2>3. conn' = Stored(c, conn.ver) /\ process' = [process EXCEPT ![p] = k]
    BY <1>3 DEF Disable, Goto, Become
  <2> HIDE DEF c
  <2>4. conn'.ver = conn.ver + 1 /\ conn'.status = "disconnected"
    BY <2>1, <2>2, <2>3, StoredConn
  <2>5. k.pc = "clear" /\ k.op = "disconnect"
    BY <1>0 DEF Job
  <2> HIDE DEF k
  <2>6. Goes(p)
    BY <2>3, <2>5, OnGoes DEF Storing, Refreshing
  <2> QED  BY <1>1, <1>3, <2>4, <2>6 DEF Writes, Found
<1> QED  BY <1>2, <1>3

\* The date of the maintenance: the status stays.
LEMMA DateStays ==
    ASSUME IInv, NEW due \in {"none", "now", "later"},
           \/ conn' = Stored([conn EXCEPT !.due = due], conn.ver)
           \/ conn' = [conn EXCEPT !.due = due]
    PROVE  ConnGrows /\ conn' \in ConnRow /\ conn'.status = conn.status
<1> DEFINE c == [conn EXCEPT !.due = due]
<1>1. conn \in ConnRow /\ conn.ver \in Nat
  BY RowFacts DEF ConnRow
<1>2. c \in ConnRow /\ c.status = conn.status /\ c.ver = conn.ver
  BY <1>1 DEF ConnRow
<1>3. conn' = Stored(c, conn.ver) \/ conn' = c
  OBVIOUS
<1> HIDE DEF c
<1>4. /\ Stored(c, conn.ver) \in ConnRow /\ Stored(c, conn.ver).ver = conn.ver + 1
      /\ Stored(c, conn.ver).status = c.status
  BY <1>1, <1>2, StoredConn
<1> QED  BY <1>1, <1>2, <1>3, <1>4 DEF ConnGrows

LEMMA MaintainDoes ==
    ASSUME IInv, NEW p \in Process, Maintain(p)
    PROVE  /\ ConnGrows /\ conn' \in ConnRow /\ conn'.status = conn.status
           /\ Goes(p) \/ process' = process
           /\ UNCHANGED <<cred, browser, jobs, provider, history>>
<1>1. ConnGrows /\ conn' \in ConnRow /\ conn'.status = conn.status
  BY DateStays DEF Maintain
<1>2. CASE conn.status = "connected"
  <2> DEFINE b == Begin("maintain", "enqueue")
             k == [b EXCEPT !.conn = conn']
  <2>1. b \in Job /\ b.op = "maintain" /\ b.pc = "enqueue"
    BY BeginFacts DEF Op, Pc
  <2>2. process' = [process EXCEPT ![p] = k]
    BY <1>2 DEF Maintain, Become
  <2> HIDE DEF b
  <2>3. k.op = "maintain" /\ k.pc = "enqueue"
    BY <2>1 DEF Job
  <2> HIDE DEF k
  <2>4. Goes(p)
    BY <2>2, <2>3, OnGoes DEF Storing, Refreshing
  <2> QED  BY <1>1, <2>4 DEF Maintain
<1>3. CASE conn.status # "connected"
  BY <1>1, <1>3 DEF Maintain
<1> QED  BY <1>2, <1>3

LEMMA StartRefreshDoes ==
    ASSUME IInv, NEW p \in Process, StartRefresh(p)
    PROVE  /\ ConnGrows /\ conn' \in ConnRow /\ conn'.status = conn.status
           /\ Goes(p)
           /\ UNCHANGED <<cred, browser, jobs, provider, history>>
<1> DEFINE b == Begin("refresh", "credentials")
           k == [b EXCEPT !.conn = conn']
<1>1. ConnGrows /\ conn' \in ConnRow /\ conn'.status = conn.status
  BY DateStays DEF StartRefresh
<1>2. b \in Job /\ b.pc = "credentials"
  BY BeginFacts DEF Op, Pc
<1>3. process' = [process EXCEPT ![p] = k]
  BY DEF StartRefresh, Become
<1> HIDE DEF b
<1>4. k.pc = "credentials"
  BY <1>2 DEF Job
<1> HIDE DEF k
<1>5. Goes(p)
  BY <1>3, <1>4, OnGoes DEF Storing
<1> QED  BY <1>1, <1>5 DEF StartRefresh

LEMMA AuthorizeDoes ==
    ASSUME IInv, Authorize
    PROVE  /\ Writes("authorization_pending", cred.tokens) /\ conn.status # "disconnected"
           /\ flows' = flows + 1 /\ states' = states \cup {flows + 1}
           /\ UNCHANGED <<cred, process, provider, history>>
<1> DEFINE c == [conn EXCEPT !.status = "authorization_pending", !.flow = flows + 1]
<1>1. /\ conn \in ConnRow /\ conn.ver \in Nat /\ flows \in Nat /\ MaxFlows \in Nat
      /\ flows + 1 \in Flow
  BY RowFacts, Widths DEF Authorize, ConnRow, Flow
<1>2. c \in ConnRow /\ c.status = "authorization_pending"
  BY <1>1 DEF ConnRow, Status
<1>3. conn' = Stored(c, conn.ver)
  BY DEF Authorize
<1> HIDE DEF c
<1>4. conn'.ver = conn.ver + 1 /\ conn'.status = "authorization_pending"
  BY <1>1, <1>2, <1>3, StoredConn
<1> QED  BY <1>4 DEF Authorize, Found, Writes

\* A status is written with the credentials it stands for: a refusal of a
\* connection that is connected takes the tokens the provider refuses.
LEMMA SetStatusDoes ==
    ASSUME IInv, SeenInv, NEW p \in Process, SetStatus(p)
    PROVE  /\ Goes(p)
           /\ UNCHANGED <<browser, jobs, provider, history>>
           /\ \/ UNCHANGED <<conn, cred>>
              \/ Writes("connected", cred.tokens) /\ conn.status = "connected"
              \/ /\ conn.status # "disconnected"
                 /\ \/ Writes("reauthorization_required", cred.tokens)
                       /\ conn.status # "connected"
                    \/ Writes("reauthorization_required", NoTokens)
                 /\ conn.status = "connected" => Spent(cred.tokens, turn, revoked)
<1> DEFINE old == process[p]
           refused == [conn EXCEPT !.status = "reauthorization_required", !.due = "none"]
           fresh == [conn EXCEPT !.status = "connected", !.due = "later"]
           empty == [cred EXCEPT !.tokens = NoTokens]
<1>0. /\ old \in Job /\ old # Idle /\ PlaceInv(old) /\ ConnInv(old, conn)
      /\ CredInv(old, conn, cred, turn, revoked) /\ old.pc = "status"
  BY JobFacts DEF At, SetStatus
<1>1. Goes(p) /\ UNCHANGED <<browser, jobs, provider, history>>
  BY ReturnGoes DEF SetStatus
<1>2. CASE ~StatusFits(p)
  BY <1>1, <1>2 DEF SetStatus
<1>3. CASE StatusFits(p)
  <2>0. /\ conn \in ConnRow /\ conn.ver \in Nat /\ cred \in CredRow
        /\ conn.status = old.conn.status /\ conn.status # "disconnected"
        /\ old.conn.ver = conn.ver
    BY <1>0, <1>3, RowFacts DEF StatusFits, Matches, ConnInv, ConnRow
  <2>1. refused \in ConnRow /\ refused.status = "reauthorization_required"
    BY <2>0 DEF ConnRow, Status
  <2>2. fresh \in ConnRow /\ fresh.status = "connected"
    BY <2>0 DEF ConnRow, Status
  <2>3. empty \in CredRow /\ empty.tokens = NoTokens
    BY <2>0 DEF CredRow
  <2>4. conn' = Stored(IF old.result = "denied" THEN refused ELSE fresh, conn.ver)
    BY <1>3 DEF SetStatus, Connected
  <2>5. cred' = IF Clears(p) THEN Stored(empty, cred.ver) ELSE cred
    BY <1>3 DEF SetStatus
  <2> HIDE DEF refused, fresh, empty
  <2>6. Stored(empty, cred.ver).tokens = NoTokens
    BY <2>3 DEF Stored, CredRow
  <2>7. CASE old.result # "denied"
    <3>1. conn.status = "connected"
      BY <1>0, <2>0, <2>7 DEF PlaceInv, ConnInv
    <3>2. cred' = cred
      BY <2>5, <2>7 DEF Clears
    <3>3. conn'.ver = conn.ver + 1 /\ conn'.status = "connected"
      BY <2>0, <2>2, <2>4, <2>7, StoredConn
    <3> QED  BY <1>1, <3>1, <3>2, <3>3 DEF Writes
  <2>8. CASE old.result = "denied"
    <3>1. conn'.ver = conn.ver + 1 /\ conn'.status = "reauthorization_required"
      BY <2>0, <2>1, <2>4, <2>8, StoredConn
    <3>2. cred'.tokens = IF Clears(p) THEN NoTokens ELSE cred.tokens
      BY <2>5, <2>6
    <3>3. conn.status = "connected" => Clears(p) /\ Spent(cred.tokens, turn, revoked)
      <4> HAVE conn.status = "connected"
      <4>1. old.op \in Refreshing
        BY <1>0 DEF PlaceInv
      <4>2. old.seen # Absent
        BY <1>0, <2>0, <4>1 DEF SeenInv, Seen
      <4>3. Clears(p) /\ old.seen = cred.ver
        BY <1>3, <2>8, <4>2 DEF Clears, StatusFits, Matches
      <4>4. cred.tokens # NoTokens
        BY DEF IInv, ConnectedIsKept
      <4> QED  BY <1>0, <2>0, <2>8, <4>3, <4>4 DEF CredInv
    <3> QED  BY <1>1, <2>0, <3>1, <3>2, <3>3 DEF Writes
  <2> QED  BY <2>7, <2>8
<1> QED  BY <1>2, <1>3

LEMMA ForgetDoes ==
    ASSUME IInv, NEW p \in Process, Forget(p)
    PROVE  /\ Goes(p) /\ conn.status = "disconnected"
           /\ UNCHANGED <<conn, browser, jobs, provider, faults>>
           /\ \/ UNCHANGED <<cred, forgotten>>
              \/ cred'.tokens = NoTokens /\ forgotten' = TRUE
<1> DEFINE c == [cred EXCEPT !.tokens = NoTokens]
<1>1. conn.status = "disconnected"
  BY JobFacts DEF At, Forget, ConnInv
<1>2. Goes(p) /\ UNCHANGED <<conn, browser, jobs, provider, faults>>
  BY ReturnGoes DEF Forget, Abort
<1>3. c \in CredRow /\ c.tokens = NoTokens
  BY RowFacts DEF CredRow
<1>4. Matches(cred, process[p].cred) => cred' = Stored(c, cred.ver) /\ forgotten' = TRUE
  BY DEF Forget
<1> HIDE DEF c
<1>5. Stored(c, cred.ver).tokens = NoTokens
  BY <1>3 DEF Stored, CredRow
<1> QED  BY <1>1, <1>2, <1>4, <1>5 DEF Forget

\* Only the owner of the lease stores tokens, and nobody does when the
\* connection is disconnected.
LEMMA SaveCommitDoes ==
    ASSUME IInv, NEW p \in Process, SaveCommit(p)
    PROVE  /\ Moves({p}) /\ SeenGo(p) /\ process'[p].pc \notin Holding
           /\ process[p].pc \in Storing
           /\ UNCHANGED <<conn, browser, jobs, provider, history>>
           /\ \/ cred' = cred
              \/ /\ cred'.tokens = process[p].tokens /\ process[p].tokens \in Tokens
                 /\ conn.status # "disconnected"
<1> DEFINE old == process[p]
           c == [cred EXCEPT !.tokens = old.tokens]
           k == [old EXCEPT !.pc = "connect", !.lease = Absent]
<1>0. /\ old \in Job /\ PlaceInv(old) /\ LeaseInv(old, conn, lock, faults)
      /\ CredInv(old, conn, cred, turn, revoked)
      /\ old.pc = "save" /\ old.pc \in Storing /\ old.op \in {"callback"} \cup Refreshing
  BY JobFacts DEF At, SaveCommit, PlaceInv, Storing
<1>1. UNCHANGED <<conn, browser, jobs, provider, history>>
  BY DEF SaveCommit
<1>2. ASSUME NEW result \in {"ok", "denied", "transient"}, old.op \in Refreshing,
             Refreshed(p, result)
      PROVE  Moves({p}) /\ SeenGo(p) /\ process'[p].pc \notin Holding
  <2>1. /\ Moves({p}) /\ (process'[p] # Idle => process'[p].pc = "status")
    BY <1>0, <1>2, RefreshedMoves
  <2>2. SeenGo(p)
    BY <1>0, <1>2, RefreshedGoes DEF Goes
  <2> QED  BY <2>1, <2>2 DEF Holding, Storing, Idle
<1>3. ASSUME Return(p)
      PROVE  Moves({p}) /\ SeenGo(p) /\ process'[p].pc \notin Holding
  <2>1. process'[p] = Idle
    BY <1>3, RowFacts DEF Return, Become
  <2> QED  BY <1>3, <2>1, ReturnGoes DEF Goes, Holding, Storing, Idle
<1>4. CASE ~SaveFits(p)
  <2>1. Fails(p, "transient") /\ cred' = cred
    BY <1>4 DEF SaveCommit
  <2> QED  BY <1>0, <1>1, <1>2, <1>3, <2>1 DEF Fails, Abort
<1>5. CASE SaveFits(p)
  <2>1. /\ cred \in CredRow /\ conn.status # "disconnected" /\ old.tokens \in Tokens
    BY <1>0, <1>5, RowFacts
       DEF SaveFits, Kept, Matches, LeaseInv, CredInv, Storing, Job
  <2>2. c \in CredRow /\ c.tokens = old.tokens
    BY <2>1 DEF CredRow
  <2>3. cred' = Stored(c, cred.ver)
    BY <1>5 DEF SaveCommit
  <2> HIDE DEF c
  <2>4. cred'.tokens = old.tokens
    BY <2>2, <2>3 DEF Stored, CredRow
  <2>5. CASE old.op = "callback"
    <3>1. process' = [process EXCEPT ![p] = k]
      BY <1>5, <2>5 DEF SaveCommit, Is, Become
    <3>2. k.pc = "connect" /\ k.op = "callback"
      BY <1>0, <2>5 DEF Job
    <3> HIDE DEF k
    <3>3. process'[p] = k
      BY <3>1, RowFacts
    <3>4. Goes(p)
      BY <3>1, <3>2, OnGoes DEF Storing, Refreshing
    <3> QED  BY <1>0, <1>1, <2>1, <2>4, <3>2, <3>3, <3>4 DEF Goes, Holding, Storing
  <2>6. CASE old.op # "callback"
    <3>1. Refreshed(p, "ok") /\ old.op \in Refreshing
      BY <1>0, <1>5, <2>6 DEF SaveCommit, Is
    <3> QED  BY <1>0, <1>1, <1>2, <2>1, <2>4, <3>1
  <2> QED  BY <2>5, <2>6
<1> QED  BY <1>4, <1>5

LEMMA ReadCredentialsDoes ==
    ASSUME IInv, NEW p \in Process, ReadCredentials(p)
    PROVE  /\ Moves({p}) /\ FreshGo(p)
           /\ process'[p] # Idle => process'[p].seen = cred.ver
<1> DEFINE old == process[p]
           s == [old EXCEPT !.seen = cred.ver]
           k1 == [s EXCEPT !.pc = "status", !.result = "denied"]
           k2 == [s EXCEPT !.pc = "acquire"]
<1>1. PICK k \in {k1, k2, Idle} : process' = [process EXCEPT ![p] = k]
  BY DEF ReadCredentials, Become, Return
<1>2. old \in Job /\ cred.ver \in Nat
  BY JobFacts, RowFacts DEF ReadCredentials, At, CredRow
<1>3. s \in Job /\ s.seen = cred.ver
  BY <1>2 DEF Job
<1> HIDE DEF s
<1>4. /\ k1.seen = cred.ver /\ k1.pc = "status"
      /\ k2.seen = cred.ver /\ k2.pc = "acquire"
  BY <1>3 DEF Job
<1> HIDE DEF k1, k2
<1>5. Moves({p}) /\ process'[p] = k
  BY <1>1, RowFacts DEF Moves
<1> QED  BY <1>1, <1>4, <1>5 DEF FreshGo, Storing, Idle

\* A flow that comes back has its first token, which nobody has.
LEMMA ExchangeDoes ==
    ASSUME IInv, NEW p \in Process, Exchange(p)
    PROVE  /\ UNCHANGED <<conn, cred, flows, jobs, provider, history>>
           /\ \/ Goes(p) /\ states' \in {states, states \ {process[p].flow}}
              \/ /\ Moves({p}) /\ SeenGo(p)
                 /\ process[p].flow \in states /\ states' = states \ {process[p].flow}
                 /\ process'[p].tokens = [flow |-> process[p].flow, turn |-> 0]
<1> DEFINE old == process[p]
           given == [flow |-> old.flow, turn |-> 0]
           k == [old EXCEPT !.pc = "check", !.tokens = given]
<1>0. old \in Job /\ old.op = "callback"
  BY JobFacts DEF At, Exchange, PlaceInv
<1>1. UNCHANGED <<conn, cred, flows, jobs, provider, history>>
  BY DEF Exchange
<1>2. CASE Abort(p) /\ states' \in {states, states \ {old.flow}}
  BY <1>1, <1>2, ReturnGoes DEF Abort
<1>3. CASE /\ old.flow \in states /\ states' = states \ {old.flow}
           /\ process' = [process EXCEPT ![p] = k]
  <2>1. k.op = "callback" /\ k.tokens = given
    BY <1>0 DEF Job
  <2> HIDE DEF k, given
  <2>2. Moves({p}) /\ process'[p] = k
    BY <1>3, RowFacts DEF Moves
  <2>3. SeenGo(p)
    BY <2>1, <2>2 DEF SeenGo, Refreshing
  <2> QED  BY <1>1, <1>3, <2>1, <2>2, <2>3 DEF given
<1> QED  BY <1>2, <1>3 DEF Exchange, Become

LEMMA RefreshDoes ==
    ASSUME IInv, NEW p \in Process, Refresh(p) \/ LoseRotation(p)
    PROVE  /\ Moves({p}) /\ SeenGo(p)
           /\ UNCHANGED <<conn, cred, browser, jobs, revoked, forgotten>>
           /\ \/ turn' = turn /\ FreshGo(p)
              \/ /\ process[p].pc = "refresh" /\ process[p].tokens \in Tokens
                 /\ Good(process[p].tokens) /\ process[p].tokens.turn < MaxTurns
                 /\ turn' = [turn EXCEPT ![process[p].tokens.flow] = @ + 1]
                 /\ process'[p].pc \in Holding =>
                       process'[p].tokens = [process[p].tokens EXCEPT !.turn = @ + 1]
<1> DEFINE old == process[p]
           next == [old.tokens EXCEPT !.turn = old.tokens.turn + 1]
           k == [old EXCEPT !.pc = "check", !.tokens = next]
<1>0. /\ old \in Job /\ old.pc = "refresh" /\ old.op \in Refreshing
      /\ old.tokens \in Tokens
  BY JobFacts DEF At, Refresh, LoseRotation, PlaceInv, CredInv, Job
<1>1. UNCHANGED <<conn, cred, browser, jobs, revoked, forgotten>>
  BY DEF Refresh, LoseRotation, history
<1>2. ASSUME NEW result \in {"denied", "transient"}, Refreshed(p, result)
      PROVE  /\ Moves({p}) /\ SeenGo(p) /\ FreshGo(p) /\ process'[p].pc \notin Holding
  <2>1. Goes(p)
    BY <1>0, <1>2, RefreshedGoes
  <2>2. process'[p] # Idle => process'[p].pc = "status"
    BY <1>0, <1>2, RefreshedMoves
  <2> QED  BY <2>1, <2>2 DEF Goes, Holding, Storing, Idle
<1>3. CASE turn' = turn /\ (Refreshed(p, "denied") \/ Refreshed(p, "transient"))
  BY <1>1, <1>2, <1>3
<1>4. CASE LoseRotation(p)
  <2>1. /\ Good(old.tokens) /\ old.tokens.turn < MaxTurns /\ Refreshed(p, "transient")
        /\ turn' = [turn EXCEPT ![old.tokens.flow] = @ + 1]
    BY <1>4 DEF LoseRotation
  <2> QED  BY <1>0, <1>1, <1>2, <2>1
<1>5. CASE /\ Good(old.tokens) /\ old.tokens.turn < MaxTurns
           /\ turn' = [turn EXCEPT ![old.tokens.flow] = @ + 1]
           /\ process' = [process EXCEPT ![p] = k]
  <2> HIDE DEF next
  <2>1. /\ k.pc = "check" /\ k.op = old.op /\ k.conn = old.conn /\ k.seen = old.seen
        /\ k.tokens = next
    BY <1>0 DEF Job
  <2> HIDE DEF k
  <2>2. Moves({p}) /\ process'[p] = k
    BY <1>5, RowFacts DEF Moves
  <2>3. SeenGo(p)
    BY <1>0, <2>1, <2>2 DEF SeenGo
  <2>4. process'[p].tokens = [old.tokens EXCEPT !.turn = @ + 1]
    BY <2>1, <2>2 DEF next
  <2> QED  BY <1>0, <1>1, <1>5, <2>2, <2>3, <2>4
<1> QED  BY <1>3, <1>4, <1>5 DEF Refresh, Become

\* A rotation takes the token it uses from everybody.
LEMMA RotationIsFresh ==
    ASSUME IInv, FreshInv, NEW p \in Process, Moves({p}), cred' = cred,
           process[p].pc = "refresh", process[p].tokens \in Tokens,
           Good(process[p].tokens), process[p].tokens.turn < MaxTurns,
           turn' = [turn EXCEPT ![process[p].tokens.flow] = @ + 1],
           process'[p].pc \in Holding =>
               process'[p].tokens = [process[p].tokens EXCEPT !.turn = @ + 1]
    PROVE  FreshInv'
<1> DEFINE t == process[p].tokens
           next == [t EXCEPT !.turn = @ + 1]
<1>1. /\ turn'[t.flow] = t.turn + 1
      /\ \A f \in Flow : f # t.flow => turn'[f] = turn[f]
  BY Rotates
<1>2. t.flow \in Flow /\ t.turn \in Nat /\ turn[t.flow] = t.turn
  BY Widths DEF Good
<1>3. next.flow = t.flow /\ next.turn = t.turn + 1
  BY DEF Tokens
<1> HIDE DEF next
<1>4. ASSUME NEW q \in Process, process[q].pc \in Holding
      PROVE  process[q].tokens \in Tokens /\ process[q].tokens.turn <= turn[process[q].tokens.flow]
  BY <1>4, JobFacts DEF Holding, Storing, CredInv, Job
<1>5. ASSUME NEW s \in Tokens, s.turn <= turn[s.flow] PROVE s # next
  BY <1>2, <1>3, <1>5, Widths
<1> SUFFICES ASSUME NEW r \in Process, process'[r].pc \in Storing
             PROVE  /\ turn'[process'[r].tokens.flow] = process'[r].tokens.turn
                    /\ cred.tokens # process'[r].tokens
                    /\ \A q \in Process \ {r} : process'[q].pc \in Holding =>
                           process'[q].tokens # process'[r].tokens
  BY DEF FreshInv, Fresh
<1>6. CASE r = p
  <2>1. process'[r].tokens = next
    BY <1>6 DEF Holding, next
  <2>2. cred.tokens # next
    <3>1. CASE cred.tokens = NoTokens
      BY <1>2, <1>3, <3>1, Widths
    <3>2. CASE cred.tokens # NoTokens
      BY <1>5, <3>2, RowFacts DEF IInv, RowsInv, CredRow
    <3> QED  BY <3>1, <3>2
  <2>3. ASSUME NEW q \in Process \ {r}, process'[q].pc \in Holding
        PROVE  process'[q].tokens # next
    <3>1. process'[q] = process[q]
      BY <1>6 DEF Moves
    <3> QED  BY <1>4, <1>5, <2>3, <3>1
  <2> QED  BY <1>1, <1>3, <2>1, <2>2, <2>3
<1>7. CASE r # p
  <2> DEFINE u == process[r].tokens
  <2>1. process'[r] = process[r] /\ process[r].pc \in Storing /\ process[r].pc \in Holding
    BY <1>7 DEF Moves, Holding
  <2>2. /\ turn[u.flow] = u.turn /\ cred.tokens # u
        /\ \A q \in Process \ {r} : process[q].pc \in Holding => process[q].tokens # u
    BY <2>1 DEF FreshInv, Fresh
  <2>3. u # t /\ u \in Tokens
    BY <1>4, <1>7, <2>1, <2>2 DEF Holding
  <2>4. u.flow # t.flow /\ u.flow \in Flow
    BY <1>2, <2>2, <2>3 DEF Tokens
  <2>5. ASSUME NEW q \in Process \ {r}, process'[q].pc \in Holding
        PROVE  process'[q].tokens # u
    <3>1. CASE q = p
      <4>1. process'[q].tokens = next
        BY <2>5, <3>1 DEF next
      <4> QED  BY <1>3, <2>4, <4>1
    <3>2. CASE q # p
      BY <2>2, <2>5, <3>2 DEF Moves
    <3> QED  BY <3>1, <3>2
  <2> QED  BY <1>1, <2>1, <2>2, <2>4, <2>5
<1> QED  BY <1>6, <1>7

LEMMA ExchangeIsFresh ==
    ASSUME IInv, FreshInv, NEW p \in Process, Moves({p}), UNCHANGED <<cred, turn>>,
           process[p] # Idle, NEW f \in states, process'[p].tokens = [flow |-> f, turn |-> 0]
    PROVE  FreshInv'
<1>1. f \in Flow
  BY RowFacts, Widths DEF Flow
<1>2. /\ turn[f] = 0 /\ cred.tokens.flow # f
      /\ \A q \in Process : process[q] # Idle => process[q].tokens.flow # f
  BY <1>1 DEF IInv, FlowsInv
<1>3. \A q \in Process : process[q].pc \in Holding => process[q] # Idle
  BY DEF Holding, Storing, Idle
<1> SUFFICES ASSUME NEW r \in Process, process'[r].pc \in Storing
             PROVE  /\ turn'[process'[r].tokens.flow] = process'[r].tokens.turn
                    /\ cred.tokens # process'[r].tokens
                    /\ \A q \in Process \ {r} : process'[q].pc \in Holding =>
                           process'[q].tokens # process'[r].tokens
  BY DEF FreshInv, Fresh
<1>4. CASE r = p
  <2>1. process'[r].tokens.flow = f /\ process'[r].tokens.turn = 0
    BY <1>4
  <2> QED  BY <1>2, <1>3, <1>4, <2>1 DEF Moves
<1>5. CASE r # p
  <2>1. process'[r] = process[r] /\ process[r] # Idle
    BY <1>3, <1>5 DEF Moves, Holding
  <2>2. /\ turn[process[r].tokens.flow] = process[r].tokens.turn
        /\ cred.tokens # process[r].tokens
        /\ \A q \in Process \ {r} : process[q].pc \in Holding =>
               process[q].tokens # process[r].tokens
    BY <2>1 DEF FreshInv, Fresh
  <2>3. process'[p].tokens # process'[r].tokens
    BY <1>2, <2>1
  <2> QED  BY <2>1, <2>2, <2>3 DEF Moves
<1> QED  BY <1>4, <1>5

LEMMA SaveIsFresh ==
    ASSUME IInv, FreshInv, NEW p \in Process, SaveCommit(p)
    PROVE  FreshInv'
<1>1. /\ Moves({p}) /\ process'[p].pc \notin Holding /\ process[p].pc \in Storing
      /\ turn' = turn /\ cred'.tokens \in {cred.tokens, process[p].tokens}
  BY SaveCommitDoes DEF provider
<1> SUFFICES ASSUME NEW r \in Process, process'[r].pc \in Storing
             PROVE  /\ turn'[process'[r].tokens.flow] = process'[r].tokens.turn
                    /\ cred'.tokens # process'[r].tokens
                    /\ \A q \in Process \ {r} : process'[q].pc \in Holding =>
                           process'[q].tokens # process'[r].tokens
  BY DEF FreshInv, Fresh
<1>2. r # p /\ process'[r] = process[r]
  BY <1>1 DEF Moves, Holding
<1>3. /\ turn[process[r].tokens.flow] = process[r].tokens.turn
      /\ cred.tokens # process[r].tokens
      /\ \A q \in Process \ {r} : process[q].pc \in Holding =>
             process[q].tokens # process[r].tokens
  BY <1>2 DEF FreshInv, Fresh
<1>4. process[p].tokens # process[r].tokens
  BY <1>1, <1>2, <1>3 DEF Holding
<1> QED  BY <1>1, <1>2, <1>3, <1>4 DEF Moves

-----------------------------------------------------------------------------
(* Every step keeps the invariant and the promise. *)

TokensInv == FreshInv /\ SeenInv

Quiet == UNCHANGED <<conn.status, cred.tokens, states, flows, turn, revoked, forgotten>>

Does == TokensInv' /\ (Promise!Next \/ Quiet)

LEMMA WritesGrows ==
    ASSUME IInv, NEW status, NEW tokens, Writes(status, tokens)
    PROVE  ConnGrows
  BY RowFacts DEF Writes, ConnGrows, ConnRow

\* The flows that came back.
LEMMA ComeBackFlow ==
    ASSUME IInv, NEW f \in Flow,
           \/ cred.tokens.flow = f
           \/ \E p \in Process : process[p] # Idle /\ process[p].tokens.flow = f
    PROVE  Promise!Granted(f)
<1>1. ~(f \in states \/ f > flows)
  BY DEF IInv, FlowsInv
<1>2. f \in Nat /\ flows \in Nat
  BY RowFacts, Widths
<1> QED  BY <1>1, <1>2 DEF Promise!Granted

\* Steps that write neither the connection nor the stored tokens.
LEMMA LocalDoes ==
    ASSUME IInv, TokensInv, NEW M \in SUBSET Process, Moves(M), conn' \in ConnRow,
           ConnGrows, \A p \in M : FreshGo(p) /\ SeenGo(p),
           UNCHANGED <<conn.status, cred.tokens, turn>>,
           Promise!Next \/ Quiet
    PROVE  Does
<1>1. FreshInv' /\ SeenInv'
  BY FreshKept, SeenKept DEF TokensInv
<1> QED  BY <1>1 DEF Does, TokensInv

LEMMA RunDoes ==
    ASSUME IInv, TokensInv, NEW p \in Process, Run(p)
    PROVE  Does
<1>0. /\ {p} \in SUBSET Process /\ FreshInv /\ SeenInv
      /\ conn' = conn => conn' \in ConnRow /\ ConnGrows
  BY RowFacts DEF TokensInv, ConnGrows
<1>1. conn' \in ConnRow
  <2>1. IInv'
    BY RunKeeps
  <2> QED  BY <2>1 DEF IInv, TypeOK, RowsTypeOK, ConnRow
<1>2. CASE \/ AcquireGuard(p) \/ AcquireFails(p) \/ SaveCheck(p) \/ SaveVersion(p)
           \/ StartDisconnect(p) \/ Enqueue(p) \/ StartTask(p) \/ Load(p)
           \/ Crash(p) \/ \E f \in Flow : StartCallback(p, f)
  <2>1. Goes(p)
    BY <1>2, LocalGoes
  <2>2. Quiet /\ conn' = conn
    BY <1>2 DEF AcquireGuard, AcquireFails, SaveCheck, SaveVersion, StartDisconnect, Enqueue,
                StartTask, Load, Crash, StartCallback, rows, browser, provider, history, Quiet
  <2> QED  BY <1>0, <2>1, <2>2, LocalDoes DEF Goes, Quiet
<1>3. CASE Clear(p)
  <2>1. Goes(p) /\ conn' = conn /\ UNCHANGED <<conn, cred, states, flows, turn, revoked>>
    BY <1>3, LocalGoes DEF Clear, browser, provider
  <2>2. CASE forgotten' = forgotten
    BY <1>0, <2>1, <2>2, LocalDoes DEF Goes, Quiet
  <2>3. CASE cred.ver = Absent /\ forgotten' = TRUE
    <3>1. conn.status = "disconnected" /\ cred.tokens = NoTokens
      BY <1>3, <2>3, JobFacts DEF Clear, At, ConnInv, IInv, RowsInv
    <3>2. Promise!Forget
      BY <2>1, <2>3, <3>1 DEF Promise!Forget
    <3> QED  BY <1>0, <2>1, <3>2, LocalDoes DEF Goes, Promise!Next
  <2> QED  BY <1>3, <2>2, <2>3 DEF Clear
<1>4. CASE Forget(p)
  <2>1. /\ Goes(p) /\ conn.status = "disconnected" /\ conn' = conn
        /\ UNCHANGED <<states, flows, turn, revoked>>
        /\ \/ UNCHANGED <<cred, forgotten>>
           \/ cred'.tokens = NoTokens /\ forgotten' = TRUE
    BY <1>4, ForgetDoes DEF browser, provider
  <2>2. FreshInv' /\ SeenInv'
    BY <1>0, <2>1, FreshKept, SeenKept DEF Goes
  <2>3. Quiet \/ Promise!Forget
    BY <2>1 DEF Quiet, Promise!Forget
  <2> QED  BY <2>2, <2>3 DEF Does, TokensInv, Promise!Next
<1>5. CASE SaveCommit(p)
  <2>1. /\ Moves({p}) /\ SeenGo(p) /\ conn' = conn /\ process[p].pc \in Storing
        /\ UNCHANGED <<states, flows, turn, revoked, forgotten>>
        /\ \/ cred' = cred
           \/ /\ cred'.tokens = process[p].tokens /\ process[p].tokens \in Tokens
              /\ conn.status # "disconnected"
    BY <1>5, SaveCommitDoes DEF browser, provider, history
  <2>2. FreshInv' /\ SeenInv'
    BY <1>0, <1>5, <2>1, SaveIsFresh, SeenKept
  <2>3. CASE cred' = cred
    BY <2>1, <2>2, <2>3 DEF Does, TokensInv, Quiet
  <2>4. CASE cred' # cred
    <3> DEFINE f == process[p].tokens.flow
    <3>1. f \in Flow /\ process[p] # Idle
      BY <2>1, <2>4, Widths DEF Storing, Idle
    <3>2. Promise!Granted(f)
      BY <3>1, ComeBackFlow
    <3>3. turn[f] = process[p].tokens.turn
      BY <1>0, <2>1 DEF FreshInv, Fresh
    <3>4. process[p].tokens = [flow |-> f, turn |-> turn[f]]
      BY <2>1, <2>4, <3>3 DEF Tokens
    <3>5. Promise!StoreTokens(f)
      BY <2>1, <2>4, <3>2, <3>4 DEF Promise!StoreTokens
    <3>6. Promise!Next
      BY <3>1, <3>5 DEF Promise!Next
    <3> QED  BY <2>2, <3>6 DEF Does, TokensInv
  <2> QED  BY <2>3, <2>4
<1>6. CASE Exchange(p)
  <2> DEFINE f == process[p].flow
  <2>1. /\ UNCHANGED <<conn, cred, flows, turn, revoked, forgotten>>
        /\ \/ Goes(p) /\ states' \in {states, states \ {f}}
           \/ /\ Moves({p}) /\ SeenGo(p) /\ f \in states /\ states' = states \ {f}
              /\ process'[p].tokens = [flow |-> f, turn |-> 0]
    BY <1>6, ExchangeDoes DEF provider, history
  <2>2. process[p] # Idle
    BY <1>6 DEF Exchange, At, Idle
  <2>3. FreshInv' /\ SeenInv'
    BY <1>0, <2>1, <2>2, FreshKept, SeenKept, ExchangeIsFresh DEF Goes
  <2>4. CASE states' = states
    BY <2>1, <2>3, <2>4 DEF Does, TokensInv, Quiet
  <2>5. CASE states' = states \ {f} /\ f \in states
    <3>1. f \in Flow
      BY <2>5, RowFacts, Widths DEF Flow
    <3>2. Promise!ComeBack(f)
      BY <2>1, <2>5 DEF Promise!ComeBack
    <3>3. Promise!Next
      BY <3>1, <3>2 DEF Promise!Next
    <3> QED  BY <2>3, <3>3 DEF Does, TokensInv
  <2>6. states' = states \/ (states' = states \ {f} /\ f \in states)
    BY <2>1
  <2> QED  BY <2>4, <2>5, <2>6
<1>7. CASE Connect(p)
  <2>1. /\ Goes(p) /\ UNCHANGED <<cred, states, flows, turn, revoked, forgotten>>
        /\ \/ conn' = conn
           \/ /\ Writes("connected", cred.tokens)
              /\ conn.status = "authorization_pending" /\ cred.tokens # NoTokens
    BY <1>7, ConnectDoes DEF browser, provider, history
  <2>2. FreshInv' /\ SeenInv'
    BY <1>0, <1>1, <2>1, FreshKept, SeenKept, WritesGrows DEF Goes
  <2>3. Quiet \/ Promise!Connect
    BY <2>1 DEF Quiet, Promise!Connect, Writes
  <2> QED  BY <2>2, <2>3 DEF Does, TokensInv, Promise!Next
<1>8. CASE Disable(p)
  <2>1. /\ Goes(p) /\ UNCHANGED <<cred, states, flows, turn, revoked, forgotten>>
        /\ \/ conn' = conn
           \/ Writes("disconnected", cred.tokens) /\ conn.status # "disconnected"
    BY <1>8, DisableDoes DEF browser, provider, history
  <2>2. FreshInv' /\ SeenInv'
    BY <1>0, <1>1, <2>1, FreshKept, SeenKept, WritesGrows DEF Goes
  <2>3. Quiet \/ Promise!Disconnect
    BY <2>1 DEF Quiet, Promise!Disconnect, Writes
  <2> QED  BY <2>2, <2>3 DEF Does, TokensInv, Promise!Next
<1>9. CASE Maintain(p)
  <2>1. /\ ConnGrows
        /\ Goes(p) \/ process' = process
        /\ UNCHANGED <<conn.status, cred, states, flows, turn, revoked, forgotten>>
    BY <1>9, MaintainDoes DEF browser, provider, history
  <2>2. CASE Goes(p)
    BY <1>0, <1>1, <2>1, <2>2, LocalDoes DEF Goes, Quiet
  <2>3. CASE process' = process
    <3>1. {} \in SUBSET Process /\ Moves({})
      BY <2>3 DEF Moves
    <3> QED  BY <1>1, <2>1, <3>1, LocalDoes DEF Quiet
  <2> QED  BY <2>1, <2>2, <2>3
<1>10. CASE StartRefresh(p)
  <2>1. /\ ConnGrows /\ Goes(p)
        /\ UNCHANGED <<conn.status, cred, states, flows, turn, revoked, forgotten>>
    BY <1>10, StartRefreshDoes DEF browser, provider, history
  <2> QED  BY <1>0, <1>1, <2>1, LocalDoes DEF Goes, Quiet
<1>11. CASE ReadCredentials(p)
  <2>1. UNCHANGED <<conn, cred, states, flows, turn, revoked, forgotten>>
    BY <1>11 DEF ReadCredentials, rows, browser, provider, history
  <2>2. /\ Moves({p}) /\ FreshGo(p)
        /\ process'[p] # Idle => process'[p].seen = cred.ver
    BY <1>11, ReadCredentialsDoes
  <2>3. FreshInv'
    BY <1>0, <2>1, <2>2, FreshKept
  <2>4. SeenInv'
    <3>1. conn.status = "connected" => cred.ver # Absent
      BY DEF IInv, RowsInv, ConnectedIsKept
    <3> QED  BY <1>0, <2>1, <2>2, <3>1 DEF SeenInv, Seen, Moves
  <2> QED  BY <2>1, <2>3, <2>4 DEF Does, TokensInv, Quiet
<1>12. CASE Refresh(p) \/ LoseRotation(p)
  <2> DEFINE t == process[p].tokens
  <2>1. /\ Moves({p}) /\ SeenGo(p)
        /\ UNCHANGED <<conn, cred, states, flows, revoked, forgotten>>
        /\ \/ turn' = turn /\ FreshGo(p)
           \/ /\ process[p].pc = "refresh" /\ t \in Tokens /\ Good(t) /\ t.turn < MaxTurns
              /\ turn' = [turn EXCEPT ![t.flow] = @ + 1]
              /\ process'[p].pc \in Holding =>
                     process'[p].tokens = [process[p].tokens EXCEPT !.turn = @ + 1]
    BY <1>12, RefreshDoes DEF browser
  <2>2. SeenInv'
    BY <1>0, <2>1, SeenKept
  <2>3. CASE turn' = turn /\ FreshGo(p)
    <3>1. FreshInv'
      BY <1>0, <2>1, <2>3, FreshKept
    <3> QED  BY <2>1, <2>2, <2>3, <3>1 DEF Does, TokensInv, Quiet
  <2>4. CASE /\ process[p].pc = "refresh" /\ t \in Tokens /\ Good(t) /\ t.turn < MaxTurns
             /\ turn' = [turn EXCEPT ![t.flow] = @ + 1]
             /\ process'[p].pc \in Holding =>
                    process'[p].tokens = [process[p].tokens EXCEPT !.turn = @ + 1]
    <3>1. FreshInv'
      BY <1>0, <2>1, <2>4, RotationIsFresh
    <3>2. t.flow \in Flow /\ process[p] # Idle
      BY <2>4, Widths DEF Idle
    <3>3. Promise!Granted(t.flow)
      BY <3>2, ComeBackFlow
    <3>4. Promise!Rotate(t.flow)
      BY <2>1, <2>4, <3>3 DEF Promise!Rotate, Good
    <3>5. Promise!Next
      BY <3>2, <3>4 DEF Promise!Next
    <3> QED  BY <2>2, <3>1, <3>5 DEF Does, TokensInv
  <2> QED  BY <2>1, <2>3, <2>4
<1>13. CASE SetStatus(p)
  <2>1. /\ Goes(p) /\ UNCHANGED <<states, flows, turn, revoked, forgotten>>
        /\ \/ UNCHANGED <<conn, cred>>
           \/ Writes("connected", cred.tokens) /\ conn.status = "connected"
           \/ /\ conn.status # "disconnected"
              /\ \/ Writes("reauthorization_required", cred.tokens)
                    /\ conn.status # "connected"
                 \/ Writes("reauthorization_required", NoTokens)
              /\ conn.status = "connected" => Spent(cred.tokens, turn, revoked)
    BY <1>0, <1>13, SetStatusDoes DEF browser, provider, history
  <2>2. ConnGrows /\ cred'.tokens \in {cred.tokens, NoTokens}
    BY <1>0, <2>1, WritesGrows DEF Writes
  <2>3. FreshInv' /\ SeenInv'
    BY <1>0, <1>1, <2>1, <2>2, FreshKept, SeenKept DEF Goes
  <2>4. Quiet \/ Promise!GiveUp
    BY <2>1 DEF Quiet, Writes, Promise!GiveUp, Promise!Refused, Spent
  <2> QED  BY <2>3, <2>4 DEF Does, TokensInv, Promise!Next
<1> QED
  BY <1>2, <1>3, <1>4, <1>5, <1>6, <1>7, <1>8, <1>9, <1>10, <1>11, <1>12, <1>13 DEF Run

LEMMA NextDoes ==
    ASSUME IInv, TokensInv, [Next]_vars
    PROVE  Does
<1>0. /\ {} \in SUBSET Process
      /\ conn' = conn => conn' \in ConnRow /\ ConnGrows
  BY RowFacts DEF ConnGrows
<1>1. CASE \E p \in Process : Run(p)
  BY <1>1, RunDoes
<1>2. CASE Authorize
  <2>1. /\ Writes("authorization_pending", cred.tokens) /\ conn.status # "disconnected"
        /\ flows' = flows + 1 /\ states' = states \cup {flows + 1}
        /\ UNCHANGED <<cred, process, turn, revoked, forgotten>>
    BY <1>2, AuthorizeDoes DEF provider, history
  <2>2. conn' \in ConnRow
    <3>1. IInv'
      BY <1>2, AuthorizeKeeps
    <3> QED  BY <3>1 DEF IInv, TypeOK, RowsTypeOK, ConnRow
  <2>3. Moves({}) /\ ConnGrows
    BY <2>1, WritesGrows DEF Moves
  <2>4. FreshInv' /\ SeenInv'
    BY <1>0, <2>1, <2>2, <2>3, FreshKept, SeenKept DEF TokensInv
  <2>5. Promise!Authorize
    BY <2>1 DEF Promise!Authorize, Writes
  <2> QED  BY <2>4, <2>5 DEF Does, TokensInv, Promise!Next
<1>3. ASSUME NEW f \in Flow, StateEnds(f) PROVE Does
  <2>1. /\ f \in states /\ states' = states \ {f}
        /\ UNCHANGED <<conn, cred, flows, process, turn, revoked, forgotten>>
    BY <1>3 DEF StateEnds, rows, provider, history
  <2>2. Promise!ComeBack(f)
    BY <2>1 DEF Promise!ComeBack
  <2>3. Moves({}) /\ Promise!Next
    BY <2>1, <2>2 DEF Moves, Promise!Next
  <2> QED  BY <1>0, <2>1, <2>3, LocalDoes
<1>4. CASE LeaseExpires
  <2>1. UNCHANGED <<conn, cred, states, flows, process, turn, revoked, forgotten>>
    BY <1>4 DEF LeaseExpires, browser, provider
  <2> QED  BY <1>0, <2>1, LocalDoes DEF Moves, Quiet
<1>5. CASE Revoke
  <2>1. /\ cred.tokens # NoTokens /\ revoked' = revoked \cup {cred.tokens.flow}
        /\ UNCHANGED <<conn, cred, states, flows, process, turn, forgotten>>
    BY <1>5 DEF Revoke, rows, browser, history
  <2>2. cred.tokens.flow \in Flow
    BY <2>1, RowFacts, Widths DEF CredRow
  <2>3. Promise!Granted(cred.tokens.flow)
    BY <2>2, ComeBackFlow
  <2>4. Promise!Revoke(cred.tokens.flow)
    BY <2>1, <2>3 DEF Promise!Revoke
  <2>5. Moves({}) /\ Promise!Next
    BY <2>1, <2>2, <2>4 DEF Moves, Promise!Next
  <2> QED  BY <1>0, <2>1, <2>5, LocalDoes
<1>6. CASE Tick
  <2>1. ConnGrows /\ conn' \in ConnRow /\ conn'.status = conn.status
    BY <1>6, DateStays DEF Tick
  <2>2. UNCHANGED <<cred, states, flows, process, turn, revoked, forgotten>>
    BY <1>6 DEF Tick, browser, provider, history
  <2> QED  BY <1>0, <2>1, <2>2, LocalDoes DEF Moves, Quiet
<1>7. CASE UNCHANGED vars
  <2>1. UNCHANGED <<conn, cred, states, flows, process, turn, revoked, forgotten>>
    BY <1>7 DEF vars, rows, browser, provider, history
  <2> QED  BY <1>0, <2>1, LocalDoes DEF Moves, Quiet
<1> QED  BY <1>1, <1>2, <1>3, <1>4, <1>5, <1>6, <1>7 DEF Next

\* The rows and the provider together keep the promise of ConnectionSpec:
\* callback, save, set_connection_status and disconnect store only the last
\* tokens of a flow that came back, give up what works only for tokens the
\* provider refuses, and store nothing after a disconnect.
THEOREM ConnectionRefinement == Spec => ImplementsConnectionSpec
<1>1. Init => TokensInv /\ Promise!Init
  <2> SUFFICES ASSUME Init PROVE TokensInv /\ Promise!Init
    OBVIOUS
  <2>1. \A p \in Process : process[p] = Idle
    BY DEF Init
  <2>2. TokensInv
    BY <2>1 DEF TokensInv, FreshInv, Fresh, SeenInv, Seen, Idle, Storing
  <2>3. Promise!Init
    BY DEF Init, Promise!Init
  <2> QED  BY <2>2, <2>3
<1>2. IInv /\ TokensInv /\ [Next]_vars => TokensInv'
  BY NextDoes DEF Does
<1>3. IInv /\ TokensInv /\ [Next]_vars
        => [Promise!Next]_<<conn.status, cred.tokens, states, flows, turn, revoked, forgotten>>
  BY NextDoes DEF Does, Quiet
<1> QED
  BY Inductive, <1>1, <1>2, <1>3, PTL
     DEF Spec, ImplementsConnectionSpec, Promise!Spec, Promise!vars
=============================================================================
