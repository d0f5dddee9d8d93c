-------------------------- MODULE CardFenceProofs --------------------------
(***************************************************************************)
(* CardFence.tla keeps its promises for every set of handlers, skills,     *)
(* texts and receipts.  The inductive invariant rests on one idea: every   *)
(* write to a living agent makes a new version of META, so a handler that  *)
(* still holds META's version holds all it has read (HandlerInv), and a    *)
(* receipt that still names it attests the card of now (ProofInv).  After  *)
(* a deletion nobody holds META's version, and the eraser's list has every *)
(* row that is left (EraserInv).  The last part shows that the rows        *)
(* implement AgentSpec.tla.                                                *)
(***************************************************************************)
EXTENDS CardFence, TLAPS

\* A handler that holds the version of META knows META, the skills it has
\* read, and the version of the card; the card a receipt attests is there.
HandlerInv(j, m, sk, c) ==
    /\ ~j.meta.deleted /\ j.meta.key # NoKey
    /\ j.op = "create" <=> j.meta.ver = Absent
    /\ j.op = "create" => j.meta.key = 1
    /\ j.op \notin {"create", "update"} => j.name = j.meta.name
    /\ j.op \in {"save", "remove"} => j.target \in Skill
    /\ j.pc = "old" => j.op \in {"save", "remove"}
    /\ j.op # "proof" /\ j.pc \in {"card", "commit"} => j.unread = {}
    /\ j.meta.ver <= m.ver
    /\ j.meta.ver = m.ver =>
          /\ j.op # "create" => j.meta = m
          /\ \A s \in Skill \ j.unread : j.seen[s] = sk[s].text
          /\ j.pc = "commit" => j.card = c.ver
          /\ j.pc = "commit" /\ j.op = "proof" => c.shown # NoText

\* Whatever is left of the agent is on the eraser's list, as it is now.
EraserInv(j, sk, c, pr) ==
    /\ c.shown # NoText => j.card = c.ver
    /\ \A s \in Skill : sk[s].text # NoText => j.skill[s] = sk[s].ver
    /\ \A i \in Proof : pr[i].claims # NoClaims => j.proof[i] = pr[i].ver

JobInv(j, m, sk, c, pr) ==
    /\ j \in Handling => HandlerInv(j, m, sk, c)
    /\ j \in Listing \cup Erasing => m.deleted
    /\ j \in Erasing => EraserInv(j, sk, c, pr)

\* A row that does not exist holds nothing; before META there is no other row.
MissingRows(m, sk, c, pr) ==
    /\ m.ver = Absent => /\ ~m.deleted /\ c.ver = Absent
                         /\ \A s \in Skill : sk[s].ver = Absent
    /\ c.ver = Absent => c.shown = NoText
    /\ \A s \in Skill : sk[s].ver = Absent => sk[s].text = NoText
    /\ \A i \in Proof : pr[i].ver = Absent => pr[i].claims = NoClaims

\* Receipts name past revisions; the one that names META's attests the card.
ProofInv(m, c, pr) ==
    \A i \in Proof :
        /\ pr[i].claims.revision <= m.ver
        /\ m.ver # Absent /\ ~m.deleted /\ pr[i].claims.revision = m.ver =>
              /\ c.shown # NoText /\ pr[i].claims.card = c.ver
              /\ pr[i].claims.key = m.key
              /\ \A k \in Proof \ {i} : pr[k].claims.revision # m.ver

IInv == /\ RowsTypeOK /\ process \in [Process -> Job]
        /\ MissingRows(meta, skill, card, proof)
        /\ ProofInv(meta, card, proof)
        /\ CardMatchesConfiguration
        /\ erased => meta.deleted
        /\ DeletionUnpublishes
        /\ \A p \in Process : JobInv(process[p], meta, skill, card, proof)

-----------------------------------------------------------------------------
(* Facts about jobs. *)

\* The kind of a job follows from its program counter.
LEMMA Kinds ==
    ASSUME NEW j \in Job
    PROVE  /\ j.pc = "idle" => j = Idle
           /\ j.pc = "meta" => j \in Retrying
           /\ j.pc \in {"old", "skills", "card", "commit"} => j \in Handling
           /\ j.pc = "list" => j \in Listing
           /\ j.pc = "erase" => j \in Erasing
           /\ j \in Handling => j \notin Listing \cup Erasing
  BY DEF Job, Idle, Retrying, Handling, Listing, Erasing

LEMMA AttemptTyped == 1 \in Nat
  OBVIOUS

\* A job that is no handler and no deletion knows nothing that could be wrong.
LEMMA FreeJobs ==
    ASSUME NEW m, NEW sk, NEW c, NEW pr
    PROVE  /\ Idle \in Job /\ JobInv(Idle, m, sk, c, pr)
           /\ \A j \in Retrying : j \in Job /\ JobInv(j, m, sk, c, pr)
  BY DEF Job, Idle, Retrying, Handling, Listing, Erasing, JobInv

LEMMA HandlingFields ==
    ASSUME NEW j \in Handling
    PROVE  /\ j \in Job /\ j.meta \in Meta /\ j.name \in Text /\ j.card \in Nat
           /\ j.old \in Nat /\ j.unread \subseteq Skill /\ j.seen \in [Skill -> Payload]
           /\ j.text \in Payload /\ j.meta.ver \in Nat /\ j.attempt \in Nat
  BY DEF Handling, Job, Meta

\* A handler is a job of its invariant, and of no other.
LEMMA HandlerJob ==
    ASSUME NEW j \in Handling, NEW m, NEW sk, NEW c, NEW pr, HandlerInv(j, m, sk, c)
    PROVE  j \in Job /\ JobInv(j, m, sk, c, pr)
  BY DEF Handling, Listing, Erasing, Job, JobInv

\* A step that reads: one invocation changes, the rows stay.
LEMMA ReadKeeps ==
    ASSUME IInv, NEW p \in Process, NEW j \in Job, Become(p, j),
           UNCHANGED <<rows, erased>>, JobInv(j, meta, skill, card, proof)
    PROVE  IInv'
  <1>1. /\ UNCHANGED <<meta, skill, card, proof, erased>>
        /\ process' = [process EXCEPT ![p] = j]
    BY DEF rows, Become
  <1>2. process' \in [Process -> Job]
    BY <1>1 DEF IInv
  <1>3. \A q \in Process : JobInv(process'[q], meta, skill, card, proof)
    BY <1>1 DEF IInv
  <1>4. /\ RowsTypeOK' /\ CardMatchesConfiguration' /\ DeletionUnpublishes'
        /\ (erased => meta.deleted)'
    BY <1>1 DEF IInv, RowsTypeOK, CardMatchesConfiguration, DeletionUnpublishes, Living
  <1>5. QED
    BY <1>1, <1>2, <1>3, <1>4 DEF IInv

LEMMA ReturnKeeps ==
    ASSUME IInv, NEW p \in Process, Return(p), UNCHANGED <<rows, erased>>
    PROVE  IInv'
  BY FreeJobs, ReadKeeps DEF Return

\* A handler that starts on a living agent.
Starting(j) ==
    /\ j \in Handling /\ j.meta = meta /\ j.op # "create" /\ j.unread = Skill
    /\ j.op \in {"save", "remove"} => j.target \in Skill
    /\ j.op # "update" => j.name = meta.name
    /\ \/ j.pc = "old" /\ j.op \in {"save", "remove"}
       \/ j.pc = "skills"
       \/ j.pc = "card" /\ j.op = "proof"

LEMMA BeginKnows ==
    ASSUME RowsTypeOK, Living, NEW j, Starting(j)
    PROVE  j \in Handling /\ HandlerInv(j, meta, skill, card)
  BY DEF RowsTypeOK, Meta, Living, HandlerInv, Absent, NoKey, Starting

\* What Begin reads of a living agent.
LEMMA BeginFields ==
    ASSUME RowsTypeOK, Living,
           NEW op \in {"update", "save", "remove", "proof", "republish"},
           NEW pc \in {"old", "skills", "card"}
    PROVE  LET b == Begin(op, pc)
           IN  /\ b \in Handling /\ b.pc = pc /\ b.op = op
               /\ b.meta = meta /\ b.unread = Skill /\ b.name = meta.name
  <1>1. meta \in Meta /\ meta.name \in Text
    BY DEF RowsTypeOK, Living, Meta, Payload
  <1>2. Empty \in [Skill -> Payload]
    BY DEF Empty, Payload
  <1> DEFINE b == Begin(op, pc)
  <1>3. /\ b = [pc |-> pc, op |-> op, meta |-> meta, name |-> meta.name, target |-> NoText,
                text |-> NoText, old |-> 0, unread |-> Skill, seen |-> Empty,
                card |-> 0, attempt |-> 1]
    BY DEF Begin, Absent
  <1>4. b \in Handling
    BY <1>1, <1>2, <1>3 DEF Handling, Payload
  <1>5. QED
    BY <1>3, <1>4

\* The arguments a handler keeps.
LEMMA NamedFields ==
    ASSUME NEW b \in Handling, NEW t \in Text
    PROVE  LET j == [b EXCEPT !.name = t]
           IN  /\ j \in Handling /\ j.pc = b.pc /\ j.op = b.op /\ j.meta = b.meta
               /\ j.unread = b.unread /\ j.target = b.target
  BY DEF Handling

LEMMA AimedFields ==
    ASSUME NEW b \in Handling, NEW s \in Skill
    PROVE  LET j == [b EXCEPT !.target = s]
           IN  /\ j \in Handling /\ j.pc = b.pc /\ j.op = b.op /\ j.meta = b.meta
               /\ j.unread = b.unread /\ j.target = s /\ j.name = b.name
  BY DEF Handling

LEMMA WordedFields ==
    ASSUME NEW b \in Handling, NEW t \in Text
    PROVE  LET j == [b EXCEPT !.text = t]
           IN  /\ j \in Handling /\ j.pc = b.pc /\ j.op = b.op /\ j.meta = b.meta
               /\ j.unread = b.unread /\ j.target = b.target /\ j.name = b.name
  BY DEF Handling, Payload

LEMMA TriedFields ==
    ASSUME NEW b \in Handling, NEW n \in Nat
    PROVE  LET j == [b EXCEPT !.attempt = n]
           IN  /\ j \in Handling /\ j.pc = b.pc /\ j.op = b.op /\ j.meta = b.meta
               /\ j.unread = b.unread /\ j.target = b.target /\ j.name = b.name
  BY DEF Handling

LEMMA LivingNamed ==
    ASSUME RowsTypeOK, Living
    PROVE  meta \in Meta /\ meta.name \in Text /\ meta.ver \in Nat
  BY DEF RowsTypeOK, Living, Meta, Payload

LEMMA StartKeeps ==
    ASSUME IInv, Living, NEW p \in Process, NEW j, Starting(j), Become(p, j),
           UNCHANGED <<rows, erased>>
    PROVE  IInv'
  <1>1. RowsTypeOK
    BY DEF IInv
  <1>2. j \in Handling /\ HandlerInv(j, meta, skill, card)
    BY <1>1, BeginKnows
  <1>3. j \in Job /\ JobInv(j, meta, skill, card, proof)
    BY <1>2, HandlerJob
  <1>4. QED
    BY <1>3, ReadKeeps

-----------------------------------------------------------------------------
(* The steps that read. *)

LEMMA StartUpdateStep ==
    ASSUME IInv, NEW p \in Process, NEW t \in Text, StartUpdate(p, t)
    PROVE  IInv'
  <1> DEFINE b == Begin("update", "skills")
             j == [b EXCEPT !.name = t]
  <1>1. RowsTypeOK /\ Living /\ Become(p, j) /\ UNCHANGED <<rows, erased>>
    BY DEF IInv, StartUpdate, Admitted
  <1>2. b \in Handling /\ b.pc = "skills" /\ b.op = "update" /\ b.meta = meta /\ b.unread = Skill
        /\ b.name = meta.name
    BY <1>1, BeginFields
  <1> HIDE DEF b
  <1>3. Starting(j)
    BY <1>2, NamedFields DEF Starting
  <1>4. QED
    BY <1>1, <1>3, StartKeeps

LEMMA StartSaveSkillStep ==
    ASSUME IInv, NEW p \in Process, NEW s \in Skill, NEW t \in Text, StartSaveSkill(p, s, t)
    PROVE  IInv'
  <1> DEFINE b == Begin("save", "old")
             d == [b EXCEPT !.target = s]
             j == [d EXCEPT !.text = t]
  <1>1. RowsTypeOK /\ Living /\ Become(p, j) /\ UNCHANGED <<rows, erased>>
    BY DEF IInv, StartSaveSkill, Admitted
  <1>2. b \in Handling /\ b.pc = "old" /\ b.op = "save" /\ b.meta = meta /\ b.unread = Skill
        /\ b.name = meta.name
    BY <1>1, BeginFields
  <1> HIDE DEF b
  <1>3. d \in Handling /\ d.pc = b.pc /\ d.op = b.op /\ d.meta = b.meta /\ d.unread = Skill /\ d.target = s
        /\ d.name = b.name
    BY <1>2, AimedFields
  <1> HIDE DEF d
  <1>4. Starting(j)
    BY <1>2, <1>3, WordedFields DEF Starting
  <1>5. QED
    BY <1>1, <1>4, StartKeeps

LEMMA StartRemoveSkillStep ==
    ASSUME IInv, NEW p \in Process, NEW s \in Skill, StartRemoveSkill(p, s)
    PROVE  IInv'
  <1> DEFINE b == Begin("remove", "old")
             j == [b EXCEPT !.target = s]
  <1>1. RowsTypeOK /\ Living /\ Become(p, j) /\ UNCHANGED <<rows, erased>>
    BY DEF IInv, StartRemoveSkill, Admitted
  <1>2. b \in Handling /\ b.pc = "old" /\ b.op = "remove" /\ b.meta = meta /\ b.unread = Skill
        /\ b.name = meta.name
    BY <1>1, BeginFields
  <1> HIDE DEF b
  <1>3. Starting(j)
    BY <1>2, AimedFields DEF Starting
  <1>4. QED
    BY <1>1, <1>3, StartKeeps

LEMMA StartControlProofStep ==
    ASSUME IInv, NEW p \in Process, StartControlProof(p)
    PROVE  IInv'
  <1> DEFINE b == Begin("proof", "card")
  <1>1. RowsTypeOK /\ Living /\ Become(p, b) /\ UNCHANGED <<rows, erased>>
    BY DEF IInv, StartControlProof, Admitted
  <1>2. b \in Handling /\ b.pc = "card" /\ b.op = "proof" /\ b.meta = meta /\ b.unread = Skill
        /\ b.name = meta.name
    BY <1>1, BeginFields
  <1> HIDE DEF b
  <1>3. Starting(b)
    BY <1>2 DEF Starting
  <1>4. QED
    BY <1>1, <1>3, StartKeeps

LEMMA StartRepublishStep ==
    ASSUME IInv, NEW p \in Process, StartRepublish(p)
    PROVE  IInv'
  <1> DEFINE j == [pc |-> "meta", op |-> "republish", attempt |-> 1]
  <1>1. Become(p, j) /\ UNCHANGED <<rows, erased>>
    BY DEF StartRepublish
  <1>2. j \in Retrying
    BY DEF Retrying
  <1>3. QED
    BY <1>1, <1>2, FreeJobs, ReadKeeps

LEMMA ReadMetaStep ==
    ASSUME IInv, NEW p \in Process, ReadMeta(p)
    PROVE  IInv'
  <1> DEFINE b == Begin("republish", "skills")
             j == [b EXCEPT !.attempt = process[p].attempt]
  <1>1. RowsTypeOK /\ UNCHANGED <<rows, erased>> /\ process[p] \in Retrying
    BY Kinds DEF IInv, ReadMeta, At
  <1>2. CASE ~Living
    BY <1>1, <1>2, ReturnKeeps DEF ReadMeta
  <1>3. CASE Living
    <2>1. Become(p, j) /\ process[p].attempt \in Nat
      BY <1>1, <1>3 DEF ReadMeta, Retrying
    <2>2. b \in Handling /\ b.pc = "skills" /\ b.op = "republish" /\ b.meta = meta /\ b.unread = Skill
        /\ b.name = meta.name
      BY <1>1, <1>3, BeginFields
    <2> HIDE DEF b
    <2>3. Starting(j)
      BY <2>1, <2>2, TriedFields DEF Starting
    <2>4. QED
      BY <1>1, <1>3, <2>1, <2>3, StartKeeps
  <1>4. QED
    BY <1>2, <1>3

\* The creation reads nothing, since there is nothing.
LEMMA StartCreateStep ==
    ASSUME IInv, NEW p \in Process, NEW t \in Text, StartCreate(p, t)
    PROVE  IInv'
  <1> DEFINE m == [meta EXCEPT !.name = t, !.key = 1]
             j == [Begin("create", "card") EXCEPT !.name = t, !.unread = {}, !.meta = m]
  <1>1. /\ RowsTypeOK /\ meta.ver = Absent /\ UNCHANGED <<rows, erased>> /\ Become(p, j)
        /\ MissingRows(meta, skill, card, proof)
    BY DEF IInv, StartCreate
  <1>2. m \in Meta /\ m.ver = Absent /\ m.key = 1 /\ ~m.deleted
    BY <1>1 DEF RowsTypeOK, Meta, Payload, MissingRows
  <1> HIDE DEF m
  <1>3. Empty \in [Skill -> Payload] /\ \A s \in Skill : Empty[s] = NoText
    BY DEF Empty, Payload
  <1>4. j \in Handling
    BY <1>2, <1>3 DEF Begin, Handling, Payload, Absent
  <1>5. j.pc = "card" /\ j.op = "create" /\ j.meta = m /\ j.unread = {} /\ j.seen = Empty
    BY DEF Begin
  <1> HIDE DEF j
  <1>6. HandlerInv(j, meta, skill, card)
    BY <1>1, <1>2, <1>3, <1>5 DEF HandlerInv, MissingRows, NoKey, Absent, RowsTypeOK
  <1>7. QED
    BY <1>1, <1>4, <1>6, HandlerJob, ReadKeeps

\* A step of a handler that only reads.
LEMMA HandlerKeeps ==
    ASSUME IInv, NEW p \in Process, NEW j \in Handling, Become(p, j),
           UNCHANGED <<rows, erased>>, HandlerInv(j, meta, skill, card)
    PROVE  IInv'
  BY HandlerJob, ReadKeeps

LEMMA ReadOldStep ==
    ASSUME IInv, NEW p \in Process, ReadOld(p)
    PROVE  IInv'
  <1> DEFINE b == process[p]
             n == skill[b.target].ver
             j == [b EXCEPT !.pc = "skills", !.old = n]
  <1>1. /\ RowsTypeOK /\ UNCHANGED <<rows, erased>> /\ b.pc = "old" /\ b \in Handling
        /\ HandlerInv(b, meta, skill, card)
    BY Kinds DEF IInv, ReadOld, At, JobInv
  <1>2. CASE Return(p)
    BY <1>1, <1>2, ReturnKeeps
  <1>3. CASE ~Return(p)
    <2>1. Become(p, j)
      BY <1>3 DEF ReadOld
    <2>2. n \in Nat
      BY <1>1 DEF HandlerInv, RowsTypeOK
    <2> HIDE DEF b, n
    <2>3. j \in Handling
      BY <1>1, <2>2 DEF Handling
    <2>4. HandlerInv(j, meta, skill, card)
      BY <1>1, <2>2 DEF HandlerInv, Handling
    <2>5. QED
      BY <1>1, <2>1, <2>3, <2>4, HandlerKeeps
  <1>4. QED
    BY <1>2, <1>3

LEMMA ReadSkillStep ==
    ASSUME IInv, NEW p \in Process, NEW s \in Skill, ReadSkill(p, s)
    PROVE  IInv'
  <1> DEFINE b == process[p]
             t == skill[s].text
             j == [b EXCEPT !.unread = @ \ {s}, !.seen[s] = t]
  <1>1. /\ RowsTypeOK /\ UNCHANGED <<rows, erased>> /\ b.pc = "skills" /\ b \in Handling
        /\ HandlerInv(b, meta, skill, card) /\ Become(p, j)
    BY Kinds DEF IInv, ReadSkill, At, JobInv
  <1>2. t \in Payload
    BY <1>1 DEF RowsTypeOK, Payload
  <1> HIDE DEF b
  <1>3. /\ j.pc = b.pc /\ j.op = b.op /\ j.meta = b.meta /\ j.target = b.target
        /\ j.name = b.name /\ j.unread = b.unread \ {s} /\ j.seen = [b.seen EXCEPT ![s] = t]
    BY <1>1 DEF Handling
  <1>4. j \in Handling
    BY <1>1, <1>2 DEF Handling
  <1>5. \A u \in Skill : j.seen[u] = IF u = s THEN t ELSE b.seen[u]
    BY <1>1, <1>3 DEF Handling
  <1> HIDE DEF j
  <1>6. HandlerInv(j, meta, skill, card)
    BY <1>1, <1>3, <1>5 DEF HandlerInv
  <1>7. QED
    BY <1>1, <1>4, <1>6, HandlerKeeps

LEMMA ReadCardStep ==
    ASSUME IInv, NEW p \in Process, ReadCard(p)
    PROVE  IInv'
  <1> DEFINE b == process[p]
             n == card.ver
             j == [b EXCEPT !.pc = "commit", !.card = n]
  <1>1. /\ RowsTypeOK /\ UNCHANGED <<rows, erased>> /\ b \in Handling
        /\ (b.pc = "skills" /\ b.unread = {}) \/ b.pc = "card"
        /\ HandlerInv(b, meta, skill, card)
    BY Kinds DEF IInv, ReadCard, At, SkillsRead, JobInv
  <1>2. CASE Return(p)
    BY <1>1, <1>2, ReturnKeeps
  <1>3. CASE ~Return(p)
    <2>1. Become(p, j) /\ (b.op = "proof" => card.shown # NoText)
      BY <1>3 DEF ReadCard, Is
    <2>2. n \in Nat
      BY <1>1 DEF RowsTypeOK
    <2> HIDE DEF b
    <2>3. j \in Handling
      BY <1>1, <2>2 DEF Handling
    <2>4. HandlerInv(j, meta, skill, card)
      BY <1>1, <2>1, <2>2 DEF HandlerInv, Handling
    <2>5. QED
      BY <1>1, <2>1, <2>3, <2>4, HandlerKeeps
  <1>4. QED
    BY <1>2, <1>3

LEMMA ConflictStep ==
    ASSUME IInv, NEW p \in Process, Conflict(p)
    PROVE  IInv'
  <1> DEFINE j == [pc |-> "meta", op |-> "republish", attempt |-> process[p].attempt + 1]
  <1>1. UNCHANGED <<rows, erased>> /\ process[p].attempt \in Nat /\ (Return(p) \/ Become(p, j))
    BY Kinds, HandlingFields DEF IInv, Conflict, At
  <1>2. j \in Retrying
    BY <1>1 DEF Retrying
  <1>3. QED
    BY <1>1, <1>2, FreeJobs, ReadKeeps, ReturnKeeps

LEMMA AbandonStep ==
    ASSUME IInv, NEW p \in Process, Abandon(p)
    PROVE  IInv'
  BY ReturnKeeps DEF Abandon

LEMMA ListRowsStep ==
    ASSUME IInv, NEW p \in Process, ListRows(p)
    PROVE  IInv'
  <1> DEFINE sv == [s \in Skill |-> skill[s].ver]
             pv == [i \in Proof |-> proof[i].ver]
             j == [pc |-> "erase", op |-> "delete", card |-> card.ver, skill |-> sv, proof |-> pv]
  <1>1. /\ RowsTypeOK /\ UNCHANGED <<rows, erased>> /\ process[p] \in Listing
        /\ JobInv(process[p], meta, skill, card, proof) /\ Become(p, j)
    BY Kinds DEF IInv, ListRows, At
  <1>2. meta.deleted
    BY <1>1 DEF JobInv
  <1>3. card.ver \in Nat /\ sv \in [Skill -> Nat] /\ pv \in [Proof -> Nat]
    BY <1>1 DEF RowsTypeOK
  <1>4. j \in Erasing /\ j \notin Handling
    BY <1>3 DEF Erasing, Handling
  <1>5. EraserInv(j, skill, card, proof)
    BY DEF EraserInv
  <1>6. j \in Job /\ JobInv(j, meta, skill, card, proof)
    BY <1>2, <1>4, <1>5 DEF Job, JobInv
  <1>7. QED
    BY <1>1, <1>6, ReadKeeps
-----------------------------------------------------------------------------
(* The steps that make a new version of META. *)

LEMMA MetaStored ==
    ASSUME NEW m \in Meta
    PROVE  LET new == Stored(m, m.ver)
           IN  /\ new \in Meta /\ new.ver = m.ver + 1 /\ new.name = m.name
               /\ new.key = m.key /\ new.deleted = m.deleted
  BY DEF Stored, Meta

LEMMA SkillStored ==
    ASSUME NEW r \in [ver : Nat, text : Payload], NEW t \in Payload, NEW v \in Nat
    PROVE  LET new == Stored([r EXCEPT !.text = t], v)
           IN  new \in [ver : Nat, text : Payload] /\ new.ver = v + 1 /\ new.text = t
  <1> DEFINE d == [r EXCEPT !.text = t]
  <1>1. d \in [ver : Nat, text : Payload] /\ d.text = t
    OBVIOUS
  <1> HIDE DEF d
  <1>2. Stored(d, v) \in [ver : Nat, text : Payload] /\ Stored(d, v).ver = v + 1 /\ Stored(d, v).text = d.text
    BY <1>1 DEF Stored
  <1>3. QED
    BY <1>1, <1>2 DEF d

LEMMA CardStored ==
    ASSUME NEW r \in [ver : Nat, shown : Shown \cup {NoText}],
           NEW s \in Shown \cup {NoText}, NEW v \in Nat
    PROVE  LET new == Stored([r EXCEPT !.shown = s], v)
           IN  /\ new \in [ver : Nat, shown : Shown \cup {NoText}]
               /\ new.ver = v + 1 /\ new.shown = s
  <1> DEFINE d == [r EXCEPT !.shown = s]
  <1>1. d \in [ver : Nat, shown : Shown \cup {NoText}] /\ d.shown = s
    OBVIOUS
  <1> HIDE DEF d
  <1>2. Stored(d, v) \in [ver : Nat, shown : Shown \cup {NoText}] /\ Stored(d, v).ver = v + 1 /\ Stored(d, v).shown = d.shown
    BY <1>1 DEF Stored
  <1>3. QED
    BY <1>1, <1>2 DEF d

LEMMA ProofStored ==
    ASSUME NEW r \in [ver : Nat, claims : Claims], NEW c \in Claims, NEW v \in Nat
    PROVE  LET new == Stored([r EXCEPT !.claims = c], v)
           IN  new \in [ver : Nat, claims : Claims] /\ new.ver = v + 1 /\ new.claims = c
  <1> DEFINE d == [r EXCEPT !.claims = c]
  <1>1. d \in [ver : Nat, claims : Claims] /\ d.claims = c
    OBVIOUS
  <1> HIDE DEF d
  <1>2. Stored(d, v) \in [ver : Nat, claims : Claims] /\ Stored(d, v).ver = v + 1 /\ Stored(d, v).claims = d.claims
    BY <1>1 DEF Stored
  <1>3. QED
    BY <1>1, <1>2 DEF d

\* A handler that held META's version holds an old one now, and a living agent
\* has no eraser.
LEMMA BumpKeepsJob ==
    ASSUME meta.ver \in Nat, ~meta.deleted, NEW j \in Job,
           JobInv(j, meta, skill, card, proof),
           NEW m, m.ver = meta.ver + 1, NEW sk, NEW c, NEW pr
    PROVE  JobInv(j, m, sk, c, pr)
  <1>1. CASE j \in Handling
    <2>1. HandlerInv(j, meta, skill, card) /\ j.meta.ver \in Nat
      BY <1>1, HandlingFields DEF JobInv
    <2>2. j.meta.ver # m.ver /\ j.meta.ver <= m.ver
      BY <2>1 DEF HandlerInv
    <2>3. HandlerInv(j, m, sk, c)
      BY <2>1, <2>2 DEF HandlerInv
    <2>4. QED
      BY <1>1, <2>3, HandlerJob
  <1>2. CASE j \notin Handling
    BY <1>2 DEF JobInv
  <1>3. QED
    BY <1>1, <1>2

\* Receipts that named META's version name an old one now.
LEMMA BumpKeepsProofs ==
    ASSUME RowsTypeOK, ProofInv(meta, card, proof), NEW m, m.ver = meta.ver + 1, NEW c
    PROVE  ProofInv(m, c, proof)
  BY DEF RowsTypeOK, Meta, Claims, ProofInv

\* What all of them do to the invariant: the writer p turns to job j, the rest
\* follows.
LEMMA BumpKeeps ==
    ASSUME IInv, ~meta.deleted, NEW p \in Process, NEW j \in Job, Become(p, j),
           JobInv(j, meta', skill', card', proof'), meta'.ver = meta.ver + 1,
           RowsTypeOK', MissingRows(meta', skill', card', proof'), ProofInv(meta', card', proof'),
           CardMatchesConfiguration', UNCHANGED erased
    PROVE  IInv'
  <1>1. process' = [process EXCEPT ![p] = j] /\ process' \in [Process -> Job]
    BY DEF Become, IInv
  <1>2. ~erased /\ ~erased'
    BY DEF IInv
  <1>3. meta.ver \in Nat
    BY DEF IInv, RowsTypeOK, Meta
  <1>4. ASSUME NEW q \in Process
        PROVE  JobInv(process'[q], meta', skill', card', proof')
    <2>1. CASE q = p
      BY <1>1, <2>1 DEF IInv
    <2>2. CASE q # p
      <3>1. /\ process'[q] = process[q] /\ process[q] \in Job
            /\ JobInv(process[q], meta, skill, card, proof)
        BY <1>1, <2>2 DEF IInv
      <3>2. QED
        BY <1>3, <3>1, BumpKeepsJob
    <2>3. QED
      BY <2>1, <2>2
  <1>5. DeletionUnpublishes'
    BY <1>2 DEF DeletionUnpublishes
  <1>6. QED
    BY <1>1, <1>2, <1>4, <1>5 DEF IInv

LEMMA RotateKeyStep ==
    ASSUME IInv, RotateKey
    PROVE  IInv'
  <1> DEFINE m == [meta EXCEPT !.key = @ + 1]
  <1>1. /\ RowsTypeOK /\ Living /\ meta' = Stored(m, meta.ver)
        /\ UNCHANGED <<skill, card, proof, process, erased>>
    BY DEF IInv, RotateKey
  <1>2. meta \in Meta /\ meta.ver \in Nat /\ meta.name # NoText /\ meta.ver # Absent /\ ~meta.deleted
    BY <1>1 DEF RowsTypeOK, Living, Meta, Payload
  <1>3. /\ m \in Meta /\ m.ver = meta.ver /\ m.key = meta.key + 1 /\ m.name = meta.name
        /\ ~m.deleted
    BY <1>2 DEF Meta
  <1> HIDE DEF m
  <1>4. /\ meta' \in Meta /\ meta'.ver = meta.ver + 1 /\ meta'.key = meta.key + 1
        /\ meta'.name = meta.name /\ ~meta'.deleted
    BY <1>1, <1>3, MetaStored
  <1>5. meta'.ver # Absent /\ meta'.key # NoKey /\ meta'.ver \in Nat
    BY <1>2, <1>4 DEF Meta, Absent, NoKey
  <1>6. RowsTypeOK'
    BY <1>1, <1>2, <1>4, <1>5 DEF RowsTypeOK, Meta, Payload
  <1>7. MissingRows(meta', skill', card', proof')
    BY <1>1, <1>5 DEF IInv, MissingRows
  <1>8. ProofInv(meta', card', proof')
    BY <1>1, <1>4, BumpKeepsProofs DEF IInv
  <1>9. CardMatchesConfiguration'
    BY <1>1, <1>2, <1>4 DEF IInv, CardMatchesConfiguration, Living
  <1>10. ~erased /\ DeletionUnpublishes'
    BY <1>1, <1>2 DEF IInv, DeletionUnpublishes
  <1>11. ASSUME NEW q \in Process
         PROVE  JobInv(process'[q], meta', skill', card', proof')
    BY <1>1, <1>2, <1>4, BumpKeepsJob DEF IInv
  <1>12. QED
    BY <1>1, <1>6, <1>7, <1>8, <1>9, <1>10, <1>11 DEF IInv

LEMMA StartDeleteStep ==
    ASSUME IInv, NEW p \in Process, StartDelete(p)
    PROVE  IInv'
  <1> DEFINE m == Revoked(meta)
             j == [pc |-> "list", op |-> "delete"]
  <1>1. /\ RowsTypeOK /\ Living /\ meta' = Stored(m, meta.ver)
        /\ UNCHANGED <<skill, card, proof, erased>> /\ Become(p, j)
    BY DEF IInv, StartDelete
  <1>2. meta \in Meta /\ meta.ver \in Nat /\ meta.name # NoText /\ meta.ver # Absent /\ ~meta.deleted
    BY <1>1 DEF RowsTypeOK, Living, Meta, Payload
  <1>3. m \in Meta /\ m.ver = meta.ver /\ m.key = NoKey /\ m.name = meta.name /\ m.deleted
    BY <1>2 DEF Meta, Revoked, NoKey
  <1> HIDE DEF m
  <1>4. /\ meta' \in Meta /\ meta'.ver = meta.ver + 1 /\ meta'.key = NoKey
        /\ meta'.name = meta.name /\ meta'.deleted
    BY <1>1, <1>3, MetaStored
  <1>5. meta'.ver # Absent /\ meta'.ver \in Nat
    BY <1>2, <1>4 DEF Meta, Absent
  <1>6. RowsTypeOK'
    BY <1>1, <1>2, <1>4, <1>5 DEF RowsTypeOK, Meta, Payload
  <1>7. MissingRows(meta', skill', card', proof')
    BY <1>1, <1>5 DEF IInv, MissingRows
  <1>8. ProofInv(meta', card', proof')
    BY <1>1, <1>4, BumpKeepsProofs DEF IInv
  <1>9. CardMatchesConfiguration'
    BY <1>4 DEF CardMatchesConfiguration, Living
  <1>10. j \in Job /\ JobInv(j, meta', skill', card', proof')
    BY <1>4 DEF Job, JobInv, Handling, Listing, Erasing
  <1>11. QED
    BY <1>1, <1>2, <1>4, <1>6, <1>7, <1>8, <1>9, <1>10, BumpKeeps

\* What a handler whose conditions hold knows of the rows it is to write.
LEMMA WriterKnows ==
    ASSUME IInv, NEW p \in Process, At(p, "commit"), Matches(meta, process[p].meta.ver)
    PROVE  LET b == process[p]
           IN  /\ RowsTypeOK /\ b \in Handling /\ b.meta.ver = meta.ver /\ ~meta.deleted
               /\ ~b.meta.deleted /\ b.meta.key # NoKey /\ b.meta \in Meta
               /\ b.op = "create" => meta.ver = Absent /\ b.meta.key = 1
               /\ b.op # "create" => b.meta = meta /\ Living
               /\ b.op \in {"save", "remove", "proof", "republish"} => b.name = meta.name
               /\ b.op \in {"save", "remove"} => b.target \in Skill
               /\ b.card = card.ver
               /\ b.op # "proof" => \A s \in Skill : b.seen[s] = skill[s].text
               /\ b.op = "proof" => card.shown # NoText
  <1> DEFINE b == process[p]
  <1>1. /\ RowsTypeOK /\ b \in Handling /\ b.pc = "commit" /\ b.meta.ver = meta.ver
        /\ HandlerInv(b, meta, skill, card) /\ MissingRows(meta, skill, card, proof)
        /\ b.meta \in Meta
    BY Kinds, HandlingFields DEF IInv, At, Matches, JobInv
  <1> HIDE DEF b
  <1>2. ~meta.deleted /\ ~b.meta.deleted /\ b.meta.key # NoKey
    BY <1>1 DEF HandlerInv, MissingRows
  <1>3. /\ b.op = "create" => meta.ver = Absent /\ b.meta.key = 1
        /\ b.op # "create" => b.meta = meta /\ Living
        /\ b.op \in {"save", "remove", "proof", "republish"} => b.name = meta.name
    BY <1>1, <1>2 DEF HandlerInv, Living
  <1>4. /\ b.op \in {"save", "remove"} => b.target \in Skill
        /\ b.card = card.ver
        /\ b.op = "proof" => card.shown # NoText
    BY <1>1 DEF HandlerInv
  <1>5. b.op # "proof" => \A s \in Skill : b.seen[s] = skill[s].text
    BY <1>1 DEF HandlerInv
  <1>6. QED
    BY <1>1, <1>2, <1>3, <1>4, <1>5 DEF b

\* The card shows the skills as the same transaction leaves them.
LEMMA PublishedSkills ==
    ASSUME IInv, NEW p \in Process, Publish(p)
    PROVE  /\ skill' \in [Skill -> [ver : Nat, text : Payload]]
           /\ \A s \in Skill : skill'[s].ver = Absent => skill[s].ver = Absent /\ skill'[s].text = skill[s].text
           /\ Proposed(p) = [s \in Skill |-> skill'[s].text]
  <1> DEFINE b == process[p]
             t == b.target
             new == Stored([skill[t] EXCEPT !.text = b.text], b.old)
  <1>1. /\ RowsTypeOK /\ b \in Handling /\ (b.op \in {"save", "remove"} => t \in Skill)
        /\ \A s \in Skill : b.seen[s] = skill[s].text
    BY WriterKnows DEF Publish, PublishFits, Is
  <1>2. /\ skill \in [Skill -> [ver : Nat, text : Payload]]
        /\ b.seen \in [Skill -> Payload] /\ b.text \in Payload /\ b.old \in Nat
    BY <1>1, HandlingFields DEF RowsTypeOK, Payload
  <1>3. CASE b.op \notin {"save", "remove"}
    <2>1. skill' = skill /\ Proposed(p) = b.seen
      BY <1>3 DEF Publish, Proposed
    <2>2. QED
      BY <1>1, <1>2, <2>1
  <1>4. CASE b.op \in {"save", "remove"}
    <2>1. /\ skill' = [skill EXCEPT ![t] = new] /\ t \in Skill
          /\ Proposed(p) = [b.seen EXCEPT ![t] = b.text]
      BY <1>1, <1>4 DEF Publish, Proposed
    <2>2. new \in [ver : Nat, text : Payload] /\ new.ver = b.old + 1 /\ new.text = b.text
      BY <1>2, <2>1, SkillStored
    <2> HIDE DEF new, b
    <2>3. /\ skill' \in [Skill -> [ver : Nat, text : Payload]]
          /\ \A s \in Skill : skill'[s] = IF s = t THEN new ELSE skill[s]
      BY <1>2, <2>1, <2>2
    <2>4. \A s \in Skill : (s = t => skill'[s].text = b.text /\ skill'[s].ver # Absent)
      BY <1>2, <2>2, <2>3 DEF Absent
    <2>5. Proposed(p) \in [Skill -> Payload]
      BY <1>2, <2>1
    <2>6. \A s \in Skill : Proposed(p)[s] = skill'[s].text
      BY <1>1, <1>2, <2>1, <2>3, <2>4
    <2>7. QED
      BY <2>3, <2>4, <2>5, <2>6
  <1>5. QED
    BY <1>3, <1>4

LEMMA PublishStep ==
    ASSUME IInv, NEW p \in Process, Publish(p)
    PROVE  IInv'
  <1> DEFINE b == process[p]
             m == [b.meta EXCEPT !.name = b.name]
             shown == [name |-> b.name, skills |-> Proposed(p)]
  <1>1. /\ RowsTypeOK /\ b \in Handling /\ b.meta.ver = meta.ver /\ ~meta.deleted
        /\ ~b.meta.deleted /\ b.meta.key # NoKey /\ b.meta \in Meta /\ b.card = card.ver
    BY WriterKnows DEF Publish, PublishFits
  <1>2. b.name \in Text /\ b.meta.ver \in Nat /\ meta.ver \in Nat
    BY <1>1, HandlingFields
  <1>3. /\ meta' = Stored(m, m.ver) /\ UNCHANGED <<proof, erased>> /\ Return(p)
        /\ card' = Stored([card EXCEPT !.shown = shown], card.ver)
    BY <1>1 DEF Publish, Meta
  <1>4. m \in Meta /\ m.ver = meta.ver /\ m.name = b.name /\ m.key = b.meta.key /\ ~m.deleted
    BY <1>1, <1>2 DEF Meta, Payload
  <1>5. shown \in Shown
    <2>1. Proposed(p) \in [Skill -> Payload]
      BY PublishedSkills
    <2>2. QED
      BY <1>2, <2>1 DEF Shown, Payload
  <1> HIDE DEF m, b
  <1>6. /\ meta' \in Meta /\ meta'.ver = meta.ver + 1 /\ meta'.name = b.name
        /\ meta'.key = b.meta.key /\ ~meta'.deleted
    BY <1>3, <1>4, MetaStored
  <1>7. /\ card' \in [ver : Nat, shown : Shown \cup {NoText}] /\ card'.ver = card.ver + 1
        /\ card'.shown = shown /\ card.ver \in Nat
    BY <1>1, <1>3, <1>5, CardStored DEF RowsTypeOK
  <1>8. meta'.ver # Absent /\ card'.ver # Absent /\ meta'.name # NoText
    BY <1>2, <1>6, <1>7, CardAssumption DEF Absent
  <1>9. RowsTypeOK'
    BY <1>1, <1>3, <1>6, <1>7, <1>8, PublishedSkills DEF RowsTypeOK, Meta, Payload
  <1>10. MissingRows(meta', skill', card', proof')
    BY <1>3, <1>8, PublishedSkills DEF IInv, MissingRows
  <1>11. ProofInv(meta', card', proof')
    BY <1>1, <1>3, <1>6, BumpKeepsProofs DEF IInv
  <1>12. CardMatchesConfiguration'
    BY <1>6, <1>7, PublishedSkills DEF CardMatchesConfiguration
  <1>13. JobInv(Idle, meta', skill', card', proof') /\ Idle \in Job /\ Become(p, Idle)
    BY <1>3, FreeJobs DEF Return
  <1>14. QED
    BY <1>1, <1>3, <1>6, <1>9, <1>10, <1>11, <1>12, <1>13, BumpKeeps

LEMMA IssueStep ==
    ASSUME IInv, NEW p \in Process, NEW i \in Proof, Issue(p, i)
    PROVE  IInv'
  <1> DEFINE b == process[p]
             cl == [revision |-> b.meta.ver + 1, card |-> b.card, key |-> b.meta.key,
                    expired |-> FALSE]
             new == Stored([proof[i] EXCEPT !.claims = cl], Absent)
  <1>1. /\ RowsTypeOK /\ b \in Handling /\ b.meta.ver = meta.ver /\ ~meta.deleted /\ b.op = "proof"
        /\ b.meta = meta /\ b.meta.key # NoKey /\ Living /\ b.card = card.ver /\ card.shown # NoText
    BY WriterKnows DEF Issue, IssueFits, Is
  <1>2. /\ meta' = Stored(meta, meta.ver) /\ UNCHANGED <<skill, card, erased>> /\ Return(p)
        /\ proof' = [proof EXCEPT ![i] = new]
    BY <1>1 DEF Issue
  <1>3. meta \in Meta /\ meta.name \in Text /\ meta.ver \in Nat /\ b.card \in Nat
    BY <1>1, LivingNamed, HandlingFields
  <1>4. /\ meta' \in Meta /\ meta'.ver = meta.ver + 1 /\ meta'.name = meta.name
        /\ meta'.key = meta.key /\ meta'.deleted = meta.deleted
    BY <1>2, <1>3, MetaStored
  <1>5. meta'.ver # Absent /\ meta'.ver \in Nat
    BY <1>3, <1>4 DEF Absent, Meta
  <1>6. cl \in Claims
    BY <1>1, <1>3 DEF Claims, Meta
  <1>7. proof \in [Proof -> [ver : Nat, claims : Claims]]
    BY <1>1 DEF RowsTypeOK, Claims
  <1>8. cl.revision = meta'.ver /\ cl.card = card.ver /\ cl.key = meta'.key
    BY <1>1, <1>4
  <1> HIDE DEF cl
  <1>9. new \in [ver : Nat, claims : Claims] /\ new.ver = 1 /\ new.claims = cl
    BY <1>6, <1>7, ProofStored DEF Absent
  <1> HIDE DEF new
  <1>10. /\ proof' \in [Proof -> [ver : Nat, claims : Claims]]
         /\ \A k \in Proof : proof'[k] = IF k = i THEN new ELSE proof[k]
    BY <1>2, <1>7, <1>9
  <1>11. RowsTypeOK'
    BY <1>1, <1>2, <1>3, <1>4, <1>5, <1>10 DEF RowsTypeOK, Meta, Payload, Claims, Living
  <1>12. MissingRows(meta', skill', card', proof')
    BY <1>2, <1>5, <1>9, <1>10 DEF IInv, MissingRows, Absent
  <1>13. ProofInv(meta', card', proof')
    <2>1. \A k \in Proof : k # i => proof'[k].claims.revision < meta'.ver
      BY <1>3, <1>4, <1>7, <1>10 DEF IInv, ProofInv, Claims
    <2>2. proof'[i].claims.revision = meta'.ver /\ proof'[i].claims.card = card'.ver /\ proof'[i].claims.key = meta'.key
      BY <1>2, <1>8, <1>9, <1>10
    <2>3. \A k \in Proof : proof'[k].claims.revision \in Nat
      BY <1>10 DEF Claims
    <2>4. QED
      BY <1>1, <1>2, <1>5, <2>1, <2>2, <2>3 DEF ProofInv
  <1>14. CardMatchesConfiguration'
    BY <1>1, <1>2, <1>4 DEF IInv, CardMatchesConfiguration, Living
  <1>15. JobInv(Idle, meta', skill', card', proof') /\ Idle \in Job /\ Become(p, Idle)
    BY <1>2, FreeJobs DEF Return
  <1>16. QED
    BY <1>1, <1>2, <1>4, <1>11, <1>12, <1>13, <1>14, <1>15, BumpKeeps

-----------------------------------------------------------------------------
(* The steps of a deletion, and the clock. *)

\* While META says deleted, no handler holds its version: a handler's META was
\* read or made alive.
LEMMA DeletedShutsOut ==
    ASSUME RowsTypeOK, MissingRows(meta, skill, card, proof), meta.deleted,
           NEW j \in Handling, HandlerInv(j, meta, skill, card), NEW sk, NEW c
    PROVE  HandlerInv(j, meta, sk, c)
  BY DEF HandlerInv, MissingRows

\* A row that is cleared, or was written since it was listed, holds nothing
\* that the list needs.
LEMMA ErasedRows ==
    ASSUME NEW v \in Nat
    PROVE  /\ \A r \in [ver : Nat, shown : Shown \cup {NoText}] :
                (r.shown # NoText => v = r.ver) =>
                   LET new == ErasedRow(r, v, [r EXCEPT !.shown = NoText])
                   IN  /\ new \in [ver : Nat, shown : Shown \cup {NoText}]
                       /\ new.shown = NoText /\ (new.ver = Absent => r.ver = Absent)
           /\ \A r \in [ver : Nat, text : Payload] :
                (r.text # NoText => v = r.ver) =>
                   LET new == ErasedRow(r, v, [r EXCEPT !.text = NoText])
                   IN  /\ new \in [ver : Nat, text : Payload]
                       /\ new.text = NoText /\ (new.ver = Absent => r.ver = Absent)
           /\ \A r \in [ver : Nat, claims : Claims] :
                (r.claims # NoClaims => v = r.ver) =>
                   LET new == ErasedRow(r, v, [r EXCEPT !.claims = NoClaims])
                   IN  /\ new \in [ver : Nat, claims : Claims]
                       /\ new.claims = NoClaims /\ (new.ver = Absent => r.ver = Absent)
  <1>1. NoText \in Shown \cup {NoText} /\ NoText \in Payload /\ NoClaims \in Claims
    BY DEF Payload, NoClaims, Claims, Absent, NoKey
  <1>2. v + 1 # Absent
    BY DEF Absent
  <1>3. ASSUME NEW r \in [ver : Nat, shown : Shown \cup {NoText}], r.shown # NoText => v = r.ver
        PROVE  LET new == ErasedRow(r, v, [r EXCEPT !.shown = NoText])
               IN  /\ new \in [ver : Nat, shown : Shown \cup {NoText}]
                   /\ new.shown = NoText /\ (new.ver = Absent => r.ver = Absent)
    BY <1>1, <1>2, <1>3, CardStored DEF ErasedRow, Matches
  <1>4. ASSUME NEW r \in [ver : Nat, text : Payload], r.text # NoText => v = r.ver
        PROVE  LET new == ErasedRow(r, v, [r EXCEPT !.text = NoText])
               IN  /\ new \in [ver : Nat, text : Payload]
                   /\ new.text = NoText /\ (new.ver = Absent => r.ver = Absent)
    BY <1>1, <1>2, <1>4, SkillStored DEF ErasedRow, Matches
  <1>5. ASSUME NEW r \in [ver : Nat, claims : Claims], r.claims # NoClaims => v = r.ver
        PROVE  LET new == ErasedRow(r, v, [r EXCEPT !.claims = NoClaims])
               IN  /\ new \in [ver : Nat, claims : Claims]
                   /\ new.claims = NoClaims /\ (new.ver = Absent => r.ver = Absent)
    BY <1>1, <1>2, <1>5, ProofStored DEF ErasedRow, Matches
  <1>6. QED
    BY <1>3, <1>4, <1>5

\* A step that clears a row of a deleted agent: the rows keep what they had or
\* lose it, and the other invocations know enough.
Cleared ==
    /\ card'.shown # NoText => card'.ver = card.ver /\ card.shown # NoText
    /\ \A s \in Skill :
          skill'[s].text # NoText => skill'[s].ver = skill[s].ver /\ skill[s].text # NoText
    /\ \A i \in Proof :
          proof'[i].claims # NoClaims => proof'[i].ver = proof[i].ver /\ proof[i].claims # NoClaims

LEMMA ClearKeepsJob ==
    ASSUME RowsTypeOK, MissingRows(meta, skill, card, proof), meta.deleted, UNCHANGED meta, Cleared,
           NEW j \in Job, JobInv(j, meta, skill, card, proof)
    PROVE  JobInv(j, meta', skill', card', proof')
  <1>1. CASE j \in Handling
    BY <1>1, DeletedShutsOut, HandlerJob DEF JobInv
  <1>2. CASE j \in Erasing
    <2>1. EraserInv(j, skill, card, proof) /\ j \notin Handling
      BY <1>2, Kinds DEF JobInv
    <2>2. EraserInv(j, skill', card', proof')
      BY <2>1 DEF EraserInv, Cleared
    <2>3. QED
      BY <2>1, <2>2 DEF JobInv
  <1>3. CASE j \notin Handling \cup Erasing
    BY <1>3 DEF JobInv
  <1>4. QED
    BY <1>1, <1>2, <1>3

LEMMA ClearKeeps ==
    ASSUME IInv, meta.deleted, UNCHANGED <<meta, erased>>, Cleared, RowsTypeOK',
           MissingRows(meta', skill', card', proof'), ProofInv(meta', card', proof'),
           process' \in [Process -> Job],
           \A p \in Process : process'[p] = process[p] \/ JobInv(process'[p], meta', skill', card', proof')
    PROVE  IInv'
  <1>1. RowsTypeOK /\ MissingRows(meta, skill, card, proof)
    BY DEF IInv
  <1>2. ASSUME NEW p \in Process
        PROVE  JobInv(process'[p], meta', skill', card', proof')
    BY <1>1, ClearKeepsJob DEF IInv
  <1>3. CardMatchesConfiguration' /\ (erased => meta.deleted)'
    BY DEF CardMatchesConfiguration, Living
  <1>4. DeletionUnpublishes'
    <2>1. ASSUME NEW i \in Proof, erased
          PROVE  proof'[i].claims = NoClaims
      BY <2>1 DEF IInv, Cleared, DeletionUnpublishes
    <2>2. ASSUME NEW s \in Skill, erased
          PROVE  skill'[s].text = NoText
      BY <2>2 DEF IInv, Cleared, DeletionUnpublishes
    <2>3. erased => card'.shown = NoText
      BY DEF IInv, Cleared, DeletionUnpublishes
    <2>4. QED
      BY <2>1, <2>2, <2>3 DEF DeletionUnpublishes
  <1>5. QED
    BY <1>2, <1>3, <1>4 DEF IInv

\* What an eraser knows.
LEMMA EraserKnows ==
    ASSUME IInv, NEW p \in Process, At(p, "erase")
    PROVE  LET b == process[p]
           IN  /\ b \in Erasing /\ b.card \in Nat /\ b.skill \in [Skill -> Nat]
               /\ b.proof \in [Proof -> Nat] /\ meta.deleted
               /\ EraserInv(b, skill, card, proof)
               /\ RowsTypeOK /\ MissingRows(meta, skill, card, proof) /\ ProofInv(meta, card, proof)
  <1>1. process[p] \in Erasing /\ JobInv(process[p], meta, skill, card, proof)
    BY Kinds DEF IInv, At
  <1>2. QED
    BY <1>1 DEF IInv, JobInv, Erasing

LEMMA EraseCardStep ==
    ASSUME IInv, NEW p \in Process, EraseCard(p)
    PROVE  IInv'
  <1> DEFINE b == process[p]
             j == [b EXCEPT !.card = Absent]
             new == ErasedRow(card, b.card, [card EXCEPT !.shown = NoText])
  <1>1. /\ b \in Erasing /\ b.card \in Nat /\ EraserInv(b, skill, card, proof) /\ meta.deleted
        /\ RowsTypeOK /\ MissingRows(meta, skill, card, proof) /\ ProofInv(meta, card, proof)
    BY EraserKnows DEF EraseCard
  <1>2. card' = new /\ Become(p, j) /\ UNCHANGED <<meta, skill, proof, erased>>
    BY DEF EraseCard
  <1> HIDE DEF b
  <1>3. /\ new \in [ver : Nat, shown : Shown \cup {NoText}] /\ new.shown = NoText
        /\ new.ver = Absent => card.ver = Absent
    BY <1>1, ErasedRows DEF RowsTypeOK, EraserInv
  <1> HIDE DEF new
  <1>4. j \in Erasing /\ j.card = Absent /\ j.skill = b.skill /\ j.proof = b.proof
    BY <1>1 DEF Erasing, Absent
  <1> HIDE DEF j
  <1>5. RowsTypeOK'
    BY <1>1, <1>2, <1>3 DEF RowsTypeOK
  <1>6. MissingRows(meta', skill', card', proof')
    BY <1>1, <1>2, <1>3 DEF MissingRows, RowsTypeOK, Absent
  <1>7. Cleared
    BY <1>2, <1>3 DEF Cleared
  <1>8. EraserInv(j, skill', card', proof')
    BY <1>1, <1>2, <1>3, <1>4 DEF EraserInv
  <1>9. j \in Job /\ JobInv(j, meta', skill', card', proof')
    BY <1>1, <1>2, <1>4, <1>8, Kinds DEF Job, JobInv
  <1>10. /\ process' \in [Process -> Job]
         /\ \A q \in Process : process'[q] = process[q] \/ JobInv(process'[q], meta', skill', card', proof')
    BY <1>2, <1>9 DEF IInv, Become
  <1>11. ProofInv(meta', card', proof')
    BY <1>1, <1>2 DEF ProofInv
  <1>12. QED
    BY <1>1, <1>2, <1>5, <1>6, <1>7, <1>10, <1>11, ClearKeeps

LEMMA EraseSkillStep ==
    ASSUME IInv, NEW p \in Process, NEW s \in Skill, EraseSkill(p, s)
    PROVE  IInv'
  <1> DEFINE b == process[p]
             j == [b EXCEPT !.skill[s] = Absent]
             new == ErasedRow(skill[s], b.skill[s], [skill[s] EXCEPT !.text = NoText])
  <1>1. /\ b \in Erasing /\ b.skill \in [Skill -> Nat] /\ EraserInv(b, skill, card, proof)
        /\ meta.deleted
        /\ RowsTypeOK /\ MissingRows(meta, skill, card, proof) /\ ProofInv(meta, card, proof)
    BY EraserKnows DEF EraseSkill
  <1>2. skill' = [skill EXCEPT ![s] = new] /\ Become(p, j) /\ UNCHANGED <<meta, card, proof, erased>>
    BY DEF EraseSkill
  <1> HIDE DEF b
  <1>3. /\ new \in [ver : Nat, text : Payload] /\ new.text = NoText
        /\ new.ver = Absent => skill[s].ver = Absent
    BY <1>1, ErasedRows DEF RowsTypeOK, EraserInv, Payload
  <1> HIDE DEF new
  <1>4. /\ skill' \in [Skill -> [ver : Nat, text : Payload]]
        /\ \A u \in Skill : skill'[u] = IF u = s THEN new ELSE skill[u]
    BY <1>1, <1>2, <1>3 DEF RowsTypeOK, Payload
  <1>5. /\ j \in Erasing /\ j.card = b.card /\ j.proof = b.proof
        /\ j.skill = [b.skill EXCEPT ![s] = Absent]
    BY <1>1 DEF Erasing, Absent
  <1> HIDE DEF j
  <1>6. \A u \in Skill : u # s => j.skill[u] = b.skill[u]
    BY <1>1, <1>5
  <1>7. RowsTypeOK'
    BY <1>1, <1>2, <1>4 DEF RowsTypeOK, Payload
  <1>8. MissingRows(meta', skill', card', proof')
    BY <1>1, <1>2, <1>3, <1>4 DEF MissingRows
  <1>9. Cleared
    BY <1>2, <1>3, <1>4 DEF Cleared
  <1>10. EraserInv(j, skill', card', proof')
    BY <1>1, <1>2, <1>3, <1>4, <1>5, <1>6 DEF EraserInv
  <1>11. j \in Job /\ JobInv(j, meta', skill', card', proof')
    BY <1>1, <1>2, <1>5, <1>10, Kinds DEF Job, JobInv
  <1>12. /\ process' \in [Process -> Job]
         /\ \A q \in Process : process'[q] = process[q] \/ JobInv(process'[q], meta', skill', card', proof')
    BY <1>2, <1>11 DEF IInv, Become
  <1>13. ProofInv(meta', card', proof')
    BY <1>1, <1>2
  <1>14. QED
    BY <1>1, <1>2, <1>7, <1>8, <1>9, <1>12, <1>13, ClearKeeps

LEMMA EraseProofStep ==
    ASSUME IInv, NEW p \in Process, NEW i \in Proof, EraseProof(p, i)
    PROVE  IInv'
  <1> DEFINE b == process[p]
             j == [b EXCEPT !.proof[i] = Absent]
             new == ErasedRow(proof[i], b.proof[i], [proof[i] EXCEPT !.claims = NoClaims])
  <1>1. /\ b \in Erasing /\ b.proof \in [Proof -> Nat] /\ EraserInv(b, skill, card, proof)
        /\ meta.deleted
        /\ RowsTypeOK /\ MissingRows(meta, skill, card, proof) /\ ProofInv(meta, card, proof)
    BY EraserKnows DEF EraseProof
  <1>2. proof' = [proof EXCEPT ![i] = new] /\ Become(p, j) /\ UNCHANGED <<meta, skill, card, erased>>
    BY DEF EraseProof
  <1> HIDE DEF b
  <1>3. /\ new \in [ver : Nat, claims : Claims] /\ new.claims = NoClaims
        /\ new.ver = Absent => proof[i].ver = Absent
    BY <1>1, ErasedRows DEF RowsTypeOK, EraserInv, Claims
  <1> HIDE DEF new
  <1>4. /\ proof' \in [Proof -> [ver : Nat, claims : Claims]]
        /\ \A k \in Proof : proof'[k] = IF k = i THEN new ELSE proof[k]
    BY <1>1, <1>2, <1>3 DEF RowsTypeOK, Claims
  <1>5. /\ j \in Erasing /\ j.card = b.card /\ j.skill = b.skill
        /\ j.proof = [b.proof EXCEPT ![i] = Absent]
    BY <1>1 DEF Erasing, Absent
  <1> HIDE DEF j
  <1>6. \A k \in Proof : k # i => j.proof[k] = b.proof[k]
    BY <1>1, <1>5
  <1>7. RowsTypeOK'
    BY <1>1, <1>2, <1>4 DEF RowsTypeOK, Claims
  <1>8. MissingRows(meta', skill', card', proof')
    BY <1>1, <1>2, <1>3, <1>4 DEF MissingRows
  <1>9. Cleared
    BY <1>2, <1>3, <1>4 DEF Cleared
  <1>10. EraserInv(j, skill', card', proof')
    BY <1>1, <1>2, <1>3, <1>4, <1>5, <1>6 DEF EraserInv
  <1>11. j \in Job /\ JobInv(j, meta', skill', card', proof')
    BY <1>1, <1>2, <1>5, <1>10, Kinds DEF Job, JobInv
  <1>12. /\ process' \in [Process -> Job]
         /\ \A q \in Process : process'[q] = process[q] \/ JobInv(process'[q], meta', skill', card', proof')
    BY <1>2, <1>11 DEF IInv, Become
  <1>13. ProofInv(meta', card', proof')
    <2>1. NoClaims.revision = 0 /\ 0 <= meta.ver
      BY <1>1 DEF NoClaims, RowsTypeOK, Meta
    <2>2. QED
      BY <1>1, <1>2, <1>3, <1>4, <2>1 DEF ProofInv
  <1>14. QED
    BY <1>1, <1>2, <1>7, <1>8, <1>9, <1>12, <1>13, ClearKeeps

LEMMA DeletedStep ==
    ASSUME IInv, NEW p \in Process, Deleted(p)
    PROVE  IInv'
  <1> DEFINE b == process[p]
  <1>1. /\ EraserInv(b, skill, card, proof) /\ meta.deleted
        /\ RowsTypeOK /\ MissingRows(meta, skill, card, proof)
    BY EraserKnows DEF Deleted
  <1>2. /\ b.card = Absent /\ (\A s \in Skill : b.skill[s] = Absent)
        /\ (\A i \in Proof : b.proof[i] = Absent)
        /\ erased' = TRUE /\ UNCHANGED <<meta, skill, card, proof>>
        /\ process' = [process EXCEPT ![p] = Idle]
    BY DEF Deleted, rows, Return, Become
  <1> HIDE DEF b
  <1>3. /\ card.shown = NoText /\ (\A s \in Skill : skill[s].text = NoText)
        /\ \A i \in Proof : proof[i].claims = NoClaims
    BY <1>1, <1>2 DEF EraserInv, MissingRows
  <1>4. DeletionUnpublishes' /\ (erased => meta.deleted)'
    BY <1>1, <1>2, <1>3 DEF DeletionUnpublishes
  <1>5. RowsTypeOK' /\ CardMatchesConfiguration'
    BY <1>1, <1>2 DEF RowsTypeOK, CardMatchesConfiguration, Living
  <1>6. process' \in [Process -> Job]
    BY <1>2, FreeJobs DEF IInv
  <1>7. \A q \in Process : JobInv(process'[q], meta, skill, card, proof)
    BY <1>2, FreeJobs DEF IInv
  <1>8. QED
    BY <1>2, <1>4, <1>5, <1>6, <1>7 DEF IInv

LEMMA ExpireStep ==
    ASSUME IInv, NEW i \in Proof, Expire(i)
    PROVE  IInv'
  <1> DEFINE old == proof[i].claims
             cl == [old EXCEPT !.expired = TRUE]
             new == [proof[i] EXCEPT !.claims = cl]
  <1>1. /\ RowsTypeOK /\ old.revision # 0 /\ proof' = [proof EXCEPT ![i] = new]
        /\ UNCHANGED <<meta, skill, card, process, erased>>
    BY DEF IInv, Expire
  <1>2. proof \in [Proof -> [ver : Nat, claims : Claims]]
    BY <1>1 DEF RowsTypeOK, Claims
  <1>3. old \in Claims
    BY <1>2
  <1> HIDE DEF old
  <1>4. /\ cl \in Claims /\ cl.revision = old.revision /\ cl.card = old.card /\ cl.key = old.key
    BY <1>3 DEF Claims
  <1> HIDE DEF cl
  <1>5. new \in [ver : Nat, claims : Claims] /\ new.ver = proof[i].ver /\ new.claims = cl
    BY <1>2, <1>4
  <1>6. cl # NoClaims /\ old # NoClaims
    BY <1>1, <1>4 DEF NoClaims
  <1> HIDE DEF new
  <1>7. /\ proof' \in [Proof -> [ver : Nat, claims : Claims]]
        /\ \A k \in Proof : proof'[k] = IF k = i THEN new ELSE proof[k]
    BY <1>1, <1>2, <1>5
  <1>8. RowsTypeOK'
    BY <1>1, <1>7 DEF RowsTypeOK, Claims
  <1>9. MissingRows(meta', skill', card', proof')
    BY <1>1, <1>5, <1>6, <1>7 DEF IInv, MissingRows, old
  <1>10. ProofInv(meta', card', proof')
    BY <1>1, <1>4, <1>5, <1>7 DEF IInv, ProofInv, old
  <1>11. CardMatchesConfiguration' /\ (erased => meta.deleted)'
    BY <1>1 DEF IInv, CardMatchesConfiguration, Living
  <1>12. ~erased
    BY <1>6 DEF IInv, DeletionUnpublishes, old
  <1>13. ASSUME NEW q \in Process
         PROVE  JobInv(process[q], meta, skill, card, proof')
    <2>1. JobInv(process[q], meta, skill, card, proof)
      BY DEF IInv
    <2>2. \A k \in Proof : proof'[k].ver = proof[k].ver /\
              (proof'[k].claims # NoClaims => proof[k].claims # NoClaims)
      BY <1>5, <1>6, <1>7 DEF old
    <2>3. QED
      BY <2>1, <2>2 DEF JobInv, EraserInv
  <1>14. QED
    BY <1>1, <1>8, <1>9, <1>10, <1>11, <1>12, <1>13 DEF IInv, DeletionUnpublishes

-----------------------------------------------------------------------------
(* The theorems. *)

LEMMA InitIInv == Init => IInv
  <1> SUFFICES ASSUME Init PROVE IInv
    OBVIOUS
  <1>1. /\ skill = [s \in Skill |-> [ver |-> 0, text |-> NoText]]
        /\ card = [ver |-> 0, shown |-> NoText] /\ ~erased
        /\ proof = [i \in Proof |-> [ver |-> 0, claims |-> NoClaims]]
        /\ process = [p \in Process |-> Idle]
    BY DEF Init, Absent
  <1>2. NoClaims \in Claims /\ NoClaims.revision = 0
    BY DEF NoClaims, Claims, Absent, NoKey
  <1>3. \/ meta.ver = Absent /\ ~meta.deleted
        \/ meta.ver = 1 /\ meta.name \in Text /\ meta.key = 1 /\ ~meta.deleted
    BY DEF Init
  <1>4. meta \in Meta
    <2>1. CASE meta = [ver |-> Absent, name |-> NoText, key |-> NoKey, deleted |-> FALSE]
      BY <2>1 DEF Meta, Payload, Absent, NoKey
    <2>2. ASSUME NEW t \in Text, meta = [ver |-> 1, name |-> t, key |-> 1, deleted |-> FALSE]
          PROVE  meta \in Meta
      BY <2>2 DEF Meta, Payload
    <2>3. QED
      BY <2>1, <2>2 DEF Init
  <1>5. RowsTypeOK
    <2>1. meta.ver # Absent => meta.name # NoText /\ (meta.deleted <=> meta.key = NoKey)
      BY <1>3, CardAssumption DEF NoKey
    <2>2. skill \in [Skill -> [ver : Nat, text : Text \cup {NoText}]]
      BY <1>1
    <2>3. card \in [ver : Nat, shown : Shown \cup {NoText}]
      BY <1>1
    <2>4. proof \in [Proof -> [ver : Nat, claims : Claims]]
      BY <1>1, <1>2
    <2>5. erased \in BOOLEAN
      BY DEF Init
    <2>6. QED
      BY <1>4, <2>1, <2>2, <2>3, <2>4, <2>5 DEF RowsTypeOK, Meta, Payload, Claims
  <1>6. MissingRows(meta, skill, card, proof)
    BY <1>1, <1>3 DEF MissingRows, Absent
  <1>7. ProofInv(meta, card, proof)
    BY <1>1, <1>2, <1>3 DEF ProofInv, Absent
  <1>8. CardMatchesConfiguration /\ DeletionUnpublishes
    BY <1>1 DEF CardMatchesConfiguration, DeletionUnpublishes, Absent
  <1>9. process \in [Process -> Job] /\ \A p \in Process : JobInv(process[p], meta, skill, card, proof)
    BY <1>1, FreeJobs
  <1>10. QED
    BY <1>1, <1>5, <1>6, <1>7, <1>8, <1>9 DEF IInv

LEMMA StutterKeeps ==
    ASSUME IInv, UNCHANGED vars
    PROVE  IInv'
  BY DEF IInv, vars, rows, RowsTypeOK, MissingRows, ProofInv, CardMatchesConfiguration, Living,
         DeletionUnpublishes, JobInv, HandlerInv, EraserInv

LEMMA NextKeeps == IInv /\ [Next]_vars => IInv'
  <1> SUFFICES ASSUME IInv, [Next]_vars PROVE IInv'
    OBVIOUS
  <1>1. ASSUME NEW p \in Process, Run(p)
        PROVE  IInv'
    <2>1. ASSUME NEW t \in Text, StartCreate(p, t) \/ StartUpdate(p, t) PROVE IInv'
      BY <2>1, StartCreateStep, StartUpdateStep
    <2>2. ASSUME NEW s \in Skill, NEW t \in Text, StartSaveSkill(p, s, t) PROVE IInv'
      BY <2>2, StartSaveSkillStep
    <2>3. ASSUME NEW s \in Skill, StartRemoveSkill(p, s) \/ ReadSkill(p, s) \/ EraseSkill(p, s)
          PROVE  IInv'
      BY <2>3, StartRemoveSkillStep, ReadSkillStep, EraseSkillStep
    <2>4. ASSUME NEW i \in Proof, Issue(p, i) \/ EraseProof(p, i) PROVE IInv'
      BY <2>4, IssueStep, EraseProofStep
    <2>5. CASE StartControlProof(p) \/ StartRepublish(p) \/ ReadMeta(p) \/ ReadOld(p) \/ ReadCard(p)
      BY <2>5, StartControlProofStep, StartRepublishStep, ReadMetaStep, ReadOldStep, ReadCardStep
    <2>6. CASE Publish(p) \/ Conflict(p) \/ Abandon(p)
      BY <2>6, PublishStep, ConflictStep, AbandonStep
    <2>7. CASE StartDelete(p) \/ ListRows(p) \/ EraseCard(p) \/ Deleted(p)
      BY <2>7, StartDeleteStep, ListRowsStep, EraseCardStep, DeletedStep
    <2>8. QED
      BY <1>1, <2>1, <2>2, <2>3, <2>4, <2>5, <2>6, <2>7 DEF Run
  <1>2. CASE RotateKey
    BY <1>2, RotateKeyStep
  <1>3. ASSUME NEW i \in Proof, Expire(i)
        PROVE  IInv'
    BY <1>3, ExpireStep
  <1>4. CASE UNCHANGED vars
    BY <1>4, StutterKeeps
  <1>5. QED
    BY <1>1, <1>2, <1>3, <1>4 DEF Next

THEOREM Inductive == Spec => []IInv
  <1>1. Init => IInv
    BY InitIInv
  <1>2. IInv /\ [Next]_vars => IInv'
    BY NextKeeps
  <1>3. QED
    BY <1>1, <1>2, PTL DEF Spec

\* The rows and the local state of every handler keep their shape, and only a
\* deletion takes the owner's key away.
THEOREM TypeCorrect == Spec => []TypeOK
  <1>1. IInv => TypeOK
    BY DEF IInv, TypeOK
  <1>2. QED
    BY <1>1, Inductive, PTL

\* Whichever handlers overlap, the card of a living agent shows its name and
\* its skills as they are stored (publish_card).
THEOREM CardIsCurrent == Spec => []CardMatchesConfiguration
  <1>1. IInv => CardMatchesConfiguration
    BY DEF IInv
  <1>2. QED
    BY <1>1, Inductive, PTL

\* A receipt the public endpoint calls active attests the card and the key of
\* now, and it is the only one (control_proof_status).
THEOREM ActiveProofIsSound == Spec => []ActiveProofAttests
  <1>1. IInv => ActiveProofAttests
    BY DEF IInv, ProofInv, ActiveProofAttests, Active, Living
  <1>2. QED
    BY <1>1, Inductive, PTL

\* Once a deletion is answered, nothing of the agent is left or comes back
\* (delete_agent).
THEOREM DeletionIsFinal == Spec => []DeletionUnpublishes
  <1>1. IInv => DeletionUnpublishes
    BY DEF IInv
  <1>2. QED
    BY <1>1, Inductive, PTL

\* A request writes only while the key it was admitted with is valid: a
\* rotation or deletion during its signature shuts it out (owner, publish_card).
THEOREM CommitsUnderItsKey == Spec => KeyHoldsAtCommit
  <1> DEFINE A == \A p \in Process :
                     At(p, "commit") /\ process[p].op # "create" /\ process'[p] # process[p] /\ meta' # meta
                         => Living /\ process[p].meta.key = meta.key
  <1>1. IInv /\ [Next]_vars => [A]_vars
    <2> SUFFICES ASSUME IInv, Next, NEW p \in Process, At(p, "commit"), process[p].op # "create",
                        process'[p] # process[p], meta' # meta
                 PROVE  Living /\ process[p].meta.key = meta.key
      OBVIOUS
    <2>1. CASE At(p, "commit") /\ Matches(meta, process[p].meta.ver)
      BY <2>1, WriterKnows
    <2>2. ASSUME NEW q \in Process, Run(q)
          PROVE  q = p /\ Matches(meta, process[p].meta.ver)
      <3>1. Publish(q) \/ StartDelete(q) \/ \E i \in Proof : Issue(q, i)
        BY <2>2 DEF Run, StartCreate, StartUpdate, StartSaveSkill, StartRemoveSkill, ReadSkill,
                    EraseSkill, StartControlProof, StartRepublish, ReadMeta, ReadOld, ReadCard,
                    Conflict, Abandon, ListRows, EraseCard, Deleted, EraseProof, rows
      <3>2. \E j : process' = [process EXCEPT ![q] = j]
        BY <3>1 DEF Publish, StartDelete, Issue, Return, Become
      <3>3. q = p
        BY <3>2 DEF IInv
      <3>4. QED
        BY <3>1, <3>3 DEF Publish, PublishFits, StartDelete, Issue, IssueFits, At
    <2>3. Next => \E q \in Process : Run(q)
      BY DEF Next, RotateKey, Expire
    <2>4. QED
      BY <2>1, <2>2, <2>3
  <1>2. QED
    BY <1>1, Inductive, PTL DEF Spec, KeyHoldsAtCommit

-----------------------------------------------------------------------------
(* The rows refine AgentSpec. *)

Quiet == UNCHANGED <<Agent, Texts, card.shown, Issued, ActiveNow, erased>>

\* What a reader sees follows from the rows it is in.
LEMMA SameRows ==
    /\ UNCHANGED meta => Agent' = Agent
    /\ UNCHANGED skill => Texts' = Texts
    /\ UNCHANGED proof => Issued' = Issued
    /\ UNCHANGED <<meta, proof>> => ActiveNow' = ActiveNow
  <1>1. UNCHANGED meta => Agent' = Agent
    BY DEF Agent
  <1>2. UNCHANGED skill => Texts' = Texts
    BY DEF Texts
  <1>3. UNCHANGED proof => Issued' = Issued
    BY DEF Issued
  <1>4. UNCHANGED <<meta, proof>> => ActiveNow' = ActiveNow
    BY DEF ActiveNow, Active, Living
  <1>5. QED
    BY <1>1, <1>2, <1>3, <1>4

LEMMA QuietSteps ==
    ASSUME UNCHANGED <<rows, erased>>
    PROVE  Quiet
  BY SameRows DEF rows, Quiet

\* The agent is there or not as META says.
LEMMA AgentStates ==
    /\ Living => Agent = [state |-> "living", name |-> meta.name, key |-> meta.key]
    /\ meta.ver = Absent => Agent.state = "none"
    /\ meta.ver # Absent /\ meta.deleted =>
          Agent = [state |-> "deleted", name |-> meta.name, key |-> meta.key]
  BY DEF Agent, Living

\* With a new version of META every receipt there was is over.
LEMMA BumpEndsProofs ==
    ASSUME IInv, meta'.ver = meta.ver + 1, UNCHANGED proof
    PROVE  ActiveNow' = {}
  <1>1. \A i \in Proof : proof[i].claims.revision \in Nat /\ proof[i].claims.revision <= meta.ver
    BY DEF IInv, ProofInv, RowsTypeOK, Meta, Claims
  <1>2. meta.ver \in Nat
    BY DEF IInv, RowsTypeOK, Meta
  <1>3. \A i \in Proof : proof'[i].claims.revision # meta'.ver
    BY <1>1, <1>2
  <1>4. QED
    BY <1>3 DEF ActiveNow, Active

\* Of a deleted agent no receipt is active.
LEMMA DeletedEndsProofs ==
    ASSUME IInv, meta.deleted
    PROVE  /\ ActiveNow = {} /\ Agent.state = "deleted"
           /\ UNCHANGED meta => ActiveNow' = {}
  <1>1. meta.ver # Absent
    BY DEF IInv, MissingRows
  <1>2. QED
    BY <1>1, AgentStates DEF ActiveNow, Active, Living

LEMMA PublishRefines ==
    ASSUME IInv, NEW p \in Process, Publish(p)
    PROVE  Promise!Next
  <1> DEFINE b == process[p]
             m == [b.meta EXCEPT !.name = b.name]
             new == [state |-> "living", name |-> b.name, key |-> b.meta.key]
  <1>1. /\ RowsTypeOK /\ b \in Handling /\ b.meta.ver = meta.ver /\ ~b.meta.deleted /\ b.meta \in Meta
        /\ b.op = "create" => meta.ver = Absent /\ b.meta.key = 1
        /\ b.op # "create" => b.meta = meta /\ Living
        /\ b.op \in {"save", "remove", "proof", "republish"} => b.name = meta.name
        /\ b.op \in {"save", "remove"} => b.target \in Skill
        /\ b.op # "proof" => \A s \in Skill : b.seen[s] = skill[s].text
    BY WriterKnows DEF Publish, PublishFits
  <1>2. /\ b.name \in Text /\ b.text \in Payload /\ meta.ver \in Nat /\ b.seen \in [Skill -> Payload]
        /\ b.op \in {"create", "update", "save", "remove", "republish"}
    BY <1>1, HandlingFields DEF Handling, Publish, Is
  <1>3. /\ meta' = Stored(m, m.ver) /\ UNCHANGED <<proof, erased>>
        /\ card' = Stored([card EXCEPT !.shown = [name |-> b.name, skills |-> Proposed(p)]], b.card)
    BY <1>1 DEF Publish, Meta
  <1>4. /\ m \in Meta /\ m.ver = meta.ver /\ m.name = b.name /\ m.key = b.meta.key /\ ~m.deleted
    BY <1>1, <1>2 DEF Meta, Payload
  <1>5. card'.shown = [name |-> b.name, skills |-> Texts']
    <2>1. Proposed(p) = Texts'
      BY PublishedSkills DEF Texts
    <2>2. Proposed(p) \in [Skill -> Payload]
      BY PublishedSkills
    <2>3. [name |-> b.name, skills |-> Proposed(p)] \in Shown
      BY <1>2, <2>2 DEF Shown, Payload
    <2>4. b.card \in Nat /\ card \in [ver : Nat, shown : Shown \cup {NoText}]
      BY <1>1, HandlingFields DEF RowsTypeOK
    <2>5. QED
      BY <1>3, <2>1, <2>3, <2>4, CardStored
  <1> HIDE DEF m
  <1>6. /\ meta'.ver = meta.ver + 1 /\ meta'.name = b.name /\ meta'.key = b.meta.key /\ ~meta'.deleted
    BY <1>3, <1>4, MetaStored
  <1>7. Agent' = new
    <2>1. meta'.ver # Absent
      BY <1>2, <1>6 DEF Absent
    <2>2. QED
      BY <1>6, <2>1 DEF Agent
  <1>8. ActiveNow' = {} /\ Issued' = Issued /\ erased' = erased
    BY <1>3, <1>6, BumpEndsProofs, SameRows
  <1>9. ASSUME NEW texts, Texts' = texts PROVE Promise!Publish(new, texts)
    BY <1>5, <1>7, <1>8, <1>9 DEF Promise!Publish
  <1>10. CASE b.op = "create"
    <2>1. Texts' = Texts /\ Agent.state = "none"
      BY <1>1, <1>10, AgentStates, SameRows DEF Publish
    <2>2. new = [state |-> "living", name |-> b.name, key |-> 1]
      BY <1>1, <1>10
    <2>3. Promise!Create(b.name)
      BY <1>9, <2>1, <2>2 DEF Promise!Create
    <2>4. QED
      BY <1>2, <2>3 DEF Promise!Next
  <1>11. CASE b.op \in {"update", "republish"}
    <2>1. Texts' = Texts
      BY <1>11, SameRows DEF Publish
    <2>2. Agent = [state |-> "living", name |-> meta.name, key |-> meta.key] /\ b.meta = meta
      BY <1>1, <1>11, AgentStates
    <2>3. new = [Agent EXCEPT !.name = b.name]
      BY <2>2
    <2>4. Promise!Rename(b.name)
      BY <1>9, <2>1, <2>2, <2>3 DEF Promise!Rename, Promise!Living
    <2>5. QED
      BY <1>2, <2>4 DEF Promise!Next
  <1>12. CASE b.op \in {"save", "remove"}
    <2>1. Agent = [state |-> "living", name |-> meta.name, key |-> meta.key] /\ b.meta = meta
      BY <1>1, <1>12, AgentStates
    <2>2. new = Agent
      BY <1>1, <1>12, <2>1
    <2>3. Texts' = [Texts EXCEPT ![b.target] = b.text]
      <3>1. Texts' = Proposed(p)
        BY PublishedSkills DEF Texts
      <3>2. Proposed(p) = [b.seen EXCEPT ![b.target] = b.text]
        BY <1>12 DEF Proposed
      <3>3. b.seen = Texts
        BY <1>1, <1>2, <1>12 DEF Texts
      <3>4. QED
        BY <3>1, <3>2, <3>3
    <2>4. Promise!ChangeSkill(b.target, b.text)
      <3> DEFINE texts == [Texts EXCEPT ![b.target] = b.text]
      <3>1. Promise!Publish(new, texts)
        BY <1>9, <2>3
      <3>2. Agent.state = "living"
        BY <2>1
      <3> HIDE DEF new
      <3>3. QED
        BY <2>2, <3>1, <3>2 DEF Promise!ChangeSkill, Promise!Living
    <2>5. QED
      BY <1>1, <1>2, <1>12, <2>4 DEF Promise!Next, Payload
  <1>13. QED
    BY <1>2, <1>10, <1>11, <1>12

LEMMA IssueRefines ==
    ASSUME IInv, NEW p \in Process, NEW i \in Proof, Issue(p, i)
    PROVE  Promise!Issue(i)
  <1> DEFINE b == process[p]
             cl == [revision |-> b.meta.ver + 1, card |-> b.card, key |-> b.meta.key,
                    expired |-> FALSE]
             new == Stored([proof[i] EXCEPT !.claims = cl], Absent)
  <1>1. /\ RowsTypeOK /\ b \in Handling /\ b.meta.ver = meta.ver /\ b.meta = meta /\ Living
        /\ card.shown # NoText
    BY WriterKnows DEF Issue, IssueFits, Is
  <1>2. /\ meta' = Stored(meta, meta.ver) /\ UNCHANGED <<skill, card, erased>>
        /\ proof' = [proof EXCEPT ![i] = new] /\ proof[i].ver = Absent
    BY <1>1 DEF Issue
  <1>3. meta \in Meta /\ meta.ver \in Nat /\ b.card \in Nat
    BY <1>1, LivingNamed, HandlingFields
  <1>4. /\ meta'.ver = meta.ver + 1 /\ meta'.name = meta.name
        /\ meta'.key = meta.key /\ meta'.deleted = meta.deleted
    BY <1>2, <1>3, MetaStored
  <1>5. cl \in Claims /\ cl.revision = meta'.ver /\ ~cl.expired
    BY <1>1, <1>3, <1>4 DEF Claims, Meta
  <1>6. proof \in [Proof -> [ver : Nat, claims : Claims]]
    BY <1>1 DEF RowsTypeOK, Claims
  <1> HIDE DEF cl, b
  <1>7. new.ver = 1 /\ new.claims = cl
    BY <1>5, <1>6, ProofStored DEF Absent
  <1> HIDE DEF new
  <1>8. \A k \in Proof : proof'[k] = IF k = i THEN new ELSE proof[k]
    BY <1>2, <1>6
  <1>9. Living'
    BY <1>1, <1>3, <1>4 DEF Living, Absent
  <1>10. Issued' = Issued \cup {i} /\ i \notin Issued
    BY <1>2, <1>7, <1>8 DEF Issued, Absent
  <1>11. ActiveNow' = {i}
    <2>1. \A k \in Proof \ {i} : proof'[k].claims.revision # meta'.ver
      BY <1>3, <1>4, <1>6, <1>8 DEF IInv, ProofInv, Claims
    <2>2. proof'[i].claims.revision = meta'.ver /\ ~proof'[i].claims.expired /\ proof'[i].ver # Absent
      BY <1>5, <1>7, <1>8 DEF Absent
    <2>3. QED
      BY <1>9, <2>1, <2>2 DEF ActiveNow, Active, Living
  <1>12. /\ Agent = [state |-> "living", name |-> meta.name, key |-> meta.key]
         /\ Agent' = Agent
    BY <1>1, <1>4, <1>9, AgentStates DEF Agent, Living
  <1>13. Texts' = Texts /\ card'.shown = card.shown
    BY <1>2, SameRows
  <1>14. QED
    BY <1>1, <1>2, <1>10, <1>11, <1>12, <1>13 DEF Promise!Issue, Promise!Living

LEMMA RotateKeyRefines ==
    ASSUME IInv, RotateKey
    PROVE  Promise!RotateKey
  <1> DEFINE m == [meta EXCEPT !.key = @ + 1]
  <1>1. /\ RowsTypeOK /\ Living /\ meta' = Stored(m, meta.ver)
        /\ UNCHANGED <<skill, card, proof, erased>>
    BY DEF IInv, RotateKey
  <1>2. meta \in Meta /\ meta.ver \in Nat
    BY <1>1, LivingNamed
  <1>3. /\ m \in Meta /\ m.ver = meta.ver /\ m.key = meta.key + 1 /\ m.name = meta.name
        /\ ~m.deleted
    BY <1>1, <1>2 DEF Meta, Living
  <1> HIDE DEF m
  <1>4. /\ meta'.ver = meta.ver + 1 /\ meta'.key = meta.key + 1
        /\ meta'.name = meta.name /\ ~meta'.deleted
    BY <1>1, <1>3, MetaStored
  <1>5. ActiveNow' = {} /\ Issued' = Issued /\ Texts' = Texts
    BY <1>1, <1>4, BumpEndsProofs, SameRows
  <1>6. Agent = [state |-> "living", name |-> meta.name, key |-> meta.key]
    BY <1>1, AgentStates
  <1>7. Agent' = [state |-> "living", name |-> meta.name, key |-> meta.key + 1]
    BY <1>2, <1>4 DEF Agent, Absent
  <1>8. Agent' = [Agent EXCEPT !.key = @ + 1]
    BY <1>6, <1>7
  <1>9. QED
    BY <1>1, <1>5, <1>6, <1>8 DEF Promise!RotateKey, Promise!Living

LEMMA StartDeleteRefines ==
    ASSUME IInv, NEW p \in Process, StartDelete(p)
    PROVE  Promise!Delete
  <1> DEFINE m == Revoked(meta)
  <1>1. /\ RowsTypeOK /\ Living /\ meta' = Stored(m, meta.ver)
        /\ UNCHANGED <<skill, card, proof, erased>>
    BY DEF IInv, StartDelete
  <1>2. meta \in Meta /\ meta.ver \in Nat
    BY <1>1, LivingNamed
  <1>3. m \in Meta /\ m.ver = meta.ver /\ m.key = NoKey /\ m.name = meta.name /\ m.deleted
    BY <1>2 DEF Meta, Revoked, NoKey
  <1> HIDE DEF m
  <1>4. /\ meta'.ver = meta.ver + 1 /\ meta'.key = NoKey
        /\ meta'.name = meta.name /\ meta'.deleted
    BY <1>1, <1>3, MetaStored
  <1>5. ActiveNow' = {} /\ Issued' = Issued /\ Texts' = Texts
    BY <1>1, <1>4, BumpEndsProofs, SameRows
  <1>6. Agent = [state |-> "living", name |-> meta.name, key |-> meta.key]
    BY <1>1, AgentStates
  <1>7. Agent' = [state |-> "deleted", name |-> meta.name, key |-> NoKey]
    BY <1>2, <1>4 DEF Agent, Absent
  <1>8. Agent' = [Agent EXCEPT !.state = "deleted", !.key = NoKey]
    <2> DEFINE d == [Agent EXCEPT !.state = "deleted"]
    <2>1. d = [state |-> "deleted", name |-> meta.name, key |-> meta.key]
      BY <1>6
    <2> HIDE DEF d
    <2>2. [d EXCEPT !.key = NoKey] = [state |-> "deleted", name |-> meta.name, key |-> NoKey]
      BY <2>1
    <2>3. QED
      BY <1>7, <2>2 DEF d
  <1>9. NoKey = Promise!NoKey
    BY DEF NoKey, Promise!NoKey
  <1>10. QED
    BY <1>1, <1>5, <1>6, <1>8, <1>9 DEF Promise!Delete, Promise!Living

LEMMA EraseCardRefines ==
    ASSUME IInv, NEW p \in Process, EraseCard(p)
    PROVE  Promise!Erase
  <1> DEFINE b == process[p]
             new == ErasedRow(card, b.card, [card EXCEPT !.shown = NoText])
  <1>1. /\ b.card \in Nat /\ EraserInv(b, skill, card, proof) /\ meta.deleted /\ RowsTypeOK
    BY EraserKnows DEF EraseCard
  <1>2. card' = new /\ UNCHANGED <<meta, skill, proof, erased>>
    BY DEF EraseCard
  <1> HIDE DEF b
  <1>3. new.shown = NoText
    BY <1>1, ErasedRows DEF RowsTypeOK, EraserInv
  <1>4. card'.shown = NoText
    BY <1>2, <1>3
  <1>5. Agent.state = "deleted"
    BY <1>1, DeletedEndsProofs
  <1>6. UNCHANGED <<Agent, Texts, Issued, ActiveNow, erased>>
    BY <1>2, SameRows
  <1>7. QED
    BY <1>4, <1>5, <1>6 DEF Promise!Erase

LEMMA EraseSkillRefines ==
    ASSUME IInv, NEW p \in Process, NEW s \in Skill, EraseSkill(p, s)
    PROVE  Promise!Erase
  <1> DEFINE b == process[p]
             new == ErasedRow(skill[s], b.skill[s], [skill[s] EXCEPT !.text = NoText])
  <1>1. /\ b.skill \in [Skill -> Nat] /\ EraserInv(b, skill, card, proof) /\ meta.deleted /\ RowsTypeOK
    BY EraserKnows DEF EraseSkill
  <1>2. skill' = [skill EXCEPT ![s] = new] /\ UNCHANGED <<meta, card, proof, erased>>
    BY DEF EraseSkill
  <1> HIDE DEF b
  <1>3. new.text = NoText
    BY <1>1, ErasedRows DEF RowsTypeOK, EraserInv, Payload
  <1> HIDE DEF new
  <1>4. \A u \in Skill : skill'[u].text = IF u = s THEN NoText ELSE skill[u].text
    BY <1>1, <1>2, <1>3 DEF RowsTypeOK
  <1>5. Texts' = [Texts EXCEPT ![s] = NoText]
    <2>1. Texts' = [u \in Skill |-> skill'[u].text]
      BY DEF Texts
    <2>2. [Texts EXCEPT ![s] = NoText] = [u \in Skill |-> IF u = s THEN NoText ELSE skill[u].text]
      BY DEF Texts
    <2>3. QED
      BY <1>4, <2>1, <2>2
  <1>6. Agent.state = "deleted"
    BY <1>1, DeletedEndsProofs
  <1>7. UNCHANGED <<Agent, card.shown, Issued, ActiveNow, erased>>
    BY <1>2, SameRows
  <1>8. QED
    BY <1>5, <1>6, <1>7 DEF Promise!Erase

\* A receipt that is cleared was over since META was deleted.
LEMMA EraseProofRefines ==
    ASSUME IInv, NEW p \in Process, NEW i \in Proof, EraseProof(p, i)
    PROVE  Quiet
  <1> DEFINE b == process[p]
             d == [proof[i] EXCEPT !.claims = NoClaims]
             new == ErasedRow(proof[i], b.proof[i], d)
  <1>1. /\ b.proof \in [Proof -> Nat] /\ b.proof[i] # Absent /\ meta.deleted
        /\ proof \in [Proof -> [ver : Nat, claims : Claims]]
    BY EraserKnows DEF EraseProof, RowsTypeOK, Claims
  <1>2. proof' = [proof EXCEPT ![i] = new] /\ UNCHANGED <<meta, skill, card, erased>>
    BY DEF EraseProof
  <1>3. new.ver = Absent <=> proof[i].ver = Absent
    <2>1. CASE ~Matches(proof[i], b.proof[i])
      BY <2>1 DEF ErasedRow
    <2>2. CASE Matches(proof[i], b.proof[i])
      <3>1. new = Stored(d, b.proof[i])
        BY <2>2 DEF ErasedRow
      <3>2. NoClaims \in Claims
        BY DEF NoClaims, Claims, Absent, NoKey
      <3>3. Stored(d, b.proof[i]).ver = b.proof[i] + 1
        BY <1>1, <3>2, ProofStored
      <3>4. QED
        BY <1>1, <2>2, <3>1, <3>3 DEF Matches, Absent
    <2>3. QED
      BY <2>1, <2>2
  <1> HIDE DEF new
  <1>4. Issued' = Issued
    BY <1>1, <1>2, <1>3 DEF Issued
  <1>5. ActiveNow' = ActiveNow
    BY <1>1, <1>2, DeletedEndsProofs
  <1>6. QED
    BY <1>2, <1>4, <1>5, SameRows DEF Quiet

LEMMA DeletedRefines ==
    ASSUME IInv, NEW p \in Process, Deleted(p)
    PROVE  Promise!Answer
  <1>1. erased' = TRUE /\ UNCHANGED <<meta, skill, card, proof>>
    BY DEF Deleted, rows
  <1>2. DeletionUnpublishes' /\ meta.deleted
    BY <1>1, DeletedStep DEF IInv
  <1>3. card.shown = NoText /\ \A s \in Skill : skill[s].text = NoText
    BY <1>1, <1>2 DEF DeletionUnpublishes
  <1>4. Texts = [s \in Skill |-> NoText]
    BY <1>3 DEF Texts
  <1>5. Agent.state = "deleted"
    BY <1>2, DeletedEndsProofs
  <1>6. UNCHANGED <<Agent, Texts, card.shown, Issued, ActiveNow>>
    BY <1>1, SameRows
  <1>7. QED
    BY <1>1, <1>3, <1>4, <1>5, <1>6 DEF Promise!Answer

LEMMA ExpireRefines ==
    ASSUME IInv, NEW i \in Proof, Expire(i)
    PROVE  Promise!Expire(i)
  <1> DEFINE old == proof[i].claims
             cl == [old EXCEPT !.expired = TRUE]
             new == [proof[i] EXCEPT !.claims = cl]
  <1>1. proof' = [proof EXCEPT ![i] = new] /\ UNCHANGED <<meta, skill, card, erased>>
    BY DEF Expire
  <1>2. proof \in [Proof -> [ver : Nat, claims : Claims]]
    BY DEF IInv, RowsTypeOK, Claims
  <1>3. old \in Claims
    BY <1>2
  <1> HIDE DEF old
  <1>4. cl.expired = TRUE
    BY <1>3 DEF Claims
  <1> HIDE DEF cl
  <1>5. new.ver = proof[i].ver /\ new.claims = cl
    BY <1>2
  <1> HIDE DEF new
  <1>6. \A k \in Proof : proof'[k] = IF k = i THEN new ELSE proof[k]
    BY <1>1, <1>2
  <1>7. Issued' = Issued
    BY <1>5, <1>6 DEF Issued
  <1>8. ActiveNow' = ActiveNow \ {i}
    BY <1>1, <1>4, <1>5, <1>6 DEF ActiveNow, Active, Living
  <1>9. QED
    BY <1>1, <1>7, <1>8, SameRows DEF Promise!Expire

LEMMA RunRefines ==
    ASSUME IInv, NEW p \in Process, Run(p)
    PROVE  Promise!Next \/ Quiet
  <1>1. CASE \/ \E t \in Text : StartCreate(p, t) \/ StartUpdate(p, t)
             \/ \E s \in Skill, t \in Text : StartSaveSkill(p, s, t)
             \/ \E s \in Skill : StartRemoveSkill(p, s) \/ ReadSkill(p, s)
             \/ StartControlProof(p) \/ StartRepublish(p)
             \/ ReadMeta(p) \/ ReadOld(p) \/ ReadCard(p)
             \/ Conflict(p) \/ Abandon(p) \/ ListRows(p)
    BY <1>1, QuietSteps DEF StartCreate, StartUpdate, StartSaveSkill, StartRemoveSkill, ReadSkill,
            StartControlProof, StartRepublish, ReadMeta, ReadOld, ReadCard, Conflict, Abandon, ListRows
  <1>2. ASSUME NEW s \in Skill, EraseSkill(p, s)
        PROVE  Promise!Next
    BY <1>2, EraseSkillRefines DEF Promise!Next
  <1>3. ASSUME NEW i \in Proof, Issue(p, i)
        PROVE  Promise!Next
    BY <1>3, IssueRefines DEF Promise!Next
  <1>4. CASE \E i \in Proof : EraseProof(p, i)
    BY <1>4, EraseProofRefines
  <1>5. CASE Publish(p)
    BY <1>5, PublishRefines
  <1>6. CASE StartDelete(p) \/ EraseCard(p) \/ Deleted(p)
    BY <1>6, StartDeleteRefines, EraseCardRefines, DeletedRefines DEF Promise!Next
  <1>7. QED
    BY <1>1, <1>2, <1>3, <1>4, <1>5, <1>6 DEF Run

LEMMA StepRefines ==
    ASSUME IInv, [Next]_vars
    PROVE  [Promise!Next]_<<Agent, Texts, card.shown, Issued, ActiveNow, erased>>
  <1> SUFFICES Promise!Next \/ Quiet
    BY DEF Quiet
  <1>1. ASSUME NEW p \in Process, Run(p)
        PROVE  Promise!Next \/ Quiet
    BY <1>1, RunRefines
  <1>2. CASE RotateKey
    BY <1>2, RotateKeyRefines DEF Promise!Next
  <1>3. ASSUME NEW i \in Proof, Expire(i)
        PROVE  Promise!Next
    BY <1>3, ExpireRefines DEF Promise!Next
  <1>4. CASE UNCHANGED vars
    BY <1>4, QuietSteps DEF vars
  <1>5. QED
    BY <1>1, <1>2, <1>3, <1>4 DEF Next

\* Readers see one agent: its configuration and card change together, its
\* receipts end with either, and after a deletion it only goes (publish_card,
\* control_proof, delete_agent).
THEOREM AgentRefinement == Spec => ImplementsAgentSpec
  <1>1. Init => Promise!Init
    <2> SUFFICES ASSUME Init PROVE Promise!Init
      OBVIOUS
    <2>1. Texts = [s \in Skill |-> NoText] /\ card.shown = NoText /\ erased = FALSE
      BY DEF Init, Texts
    <2>2. Issued = {} /\ ActiveNow = {}
      BY DEF Init, Issued, ActiveNow, Active
    <2>3. \/ Agent = [state |-> "none", name |-> NoText, key |-> Promise!NoKey]
          \/ \E t \in Text : Agent = [state |-> "living", name |-> t, key |-> 1]
      <3>1. CASE meta = [ver |-> Absent, name |-> NoText, key |-> NoKey, deleted |-> FALSE]
        BY <3>1 DEF Agent, NoKey, Promise!NoKey
      <3>2. ASSUME NEW t \in Text, meta = [ver |-> 1, name |-> t, key |-> 1, deleted |-> FALSE]
            PROVE  Agent = [state |-> "living", name |-> t, key |-> 1]
        BY <3>2 DEF Agent, Absent
      <3>3. QED
        BY <3>1, <3>2 DEF Init
    <2>4. QED
      BY <2>1, <2>2, <2>3 DEF Promise!Init
  <1>2. IInv /\ [Next]_vars => [Promise!Next]_<<Agent, Texts, card.shown, Issued, ActiveNow, erased>>
    BY StepRefines
  <1>3. QED
    BY <1>1, <1>2, Inductive, PTL DEF Spec, ImplementsAgentSpec, Promise!Spec, Promise!vars
=============================================================================
