------------------------------ MODULE CardFence ------------------------------
(***************************************************************************)
(* The public configuration of one agent: its metadata (META), its skills, *)
(* the signed card made of both, and the hosting control receipts that     *)
(* attest the card (src/api.rs).  Every handler reads several rows, waits  *)
(* for a signature of KMS and writes in one transaction; META is the fence *)
(* they share.  Nothing orders the handlers, and each may end anywhere.    *)
(* A read followed by a compare-and-swap of the same row, with nothing in  *)
(* between that others could see, is one action.                           *)
(***************************************************************************)
EXTENDS Integers, Store

CONSTANTS
    Process,     \* invocations of the API and of the operator's publish-cards
    Skill,       \* identifiers of skills
    Text,        \* what an owner writes: a name, the public part of a skill
    Proof,       \* identifiers of the receipts, each used once
    NoText,      \* a payload that is null
    MaxVersion   \* bound: version of META at which no handler starts

ASSUME CardAssumption == MaxVersion \in Nat /\ NoText \notin Text

VARIABLES
    meta,      \* META: version, name, owner key, deleted
    skill,     \* SKILL#: version and text of each
    card,      \* CARD: version and the name and skills it shows
    proof,     \* CONTROL#: version, and the claims that matter
    process,   \* the local state of every invocation
    erased     \* history: a DELETE was answered with success

rows == <<meta, skill, card, proof>>
vars == <<rows, process, erased>>

Shown    == [name : Text, skills : [Skill -> Text \cup {NoText}]]
Empty    == [s \in Skill |-> NoText]
NoKey    == 0
Idle     == [pc |-> "idle"]
Attempts == 3

\* A receipt that does not exist, or whose payload a deletion has cleared.
NoClaims == [revision |-> 0, card |-> Absent, key |-> NoKey, expired |-> FALSE]

\* An agent nobody has created yet, or one from before the cards were signed.
Init ==
    /\ \/ meta = [ver |-> Absent, name |-> NoText, key |-> NoKey, deleted |-> FALSE]
       \/ \E t \in Text : meta = [ver |-> 1, name |-> t, key |-> 1, deleted |-> FALSE]
    /\ skill = [s \in Skill |-> [ver |-> Absent, text |-> NoText]]
    /\ card = [ver |-> Absent, shown |-> NoText]
    /\ proof = [i \in Proof |-> [ver |-> Absent, claims |-> NoClaims]]
    /\ process = [p \in Process |-> Idle]
    /\ erased = FALSE

At(p, pc) == process[p].pc = pc
Is(p, op) == process[p].op = op
Become(p, job) == process' = [process EXCEPT ![p] = job]
Return(p) == Become(p, Idle)

\* agent(): META is there and not deleted.
Living == meta.ver # Absent /\ ~meta.deleted

\* meta is what was read or is to be written; old and card are the versions
\* the transaction expects; seen holds the skills read so far.
Begin(op, pc) ==
    [pc |-> pc, op |-> op, meta |-> meta, name |-> meta.name, target |-> NoText,
     text |-> NoText, old |-> Absent, unread |-> Skill, seen |-> Empty,
     card |-> Absent, attempt |-> 1]

-----------------------------------------------------------------------------
(* What the handlers read. *)

\* A new identifier and a new key: nothing to read but the card.
StartCreate(p, t) ==
    /\ At(p, "idle")
    /\ meta.ver = Absent
    /\ \A q \in Process : process[q] = Idle
    /\ Become(p, [Begin("create", "card") EXCEPT !.name = t, !.unread = {},
                      !.meta = [meta EXCEPT !.name = t, !.key = 1]])
    /\ UNCHANGED <<rows, erased>>

\* owner(): the key presented is the key of META now.
Admitted(p) == At(p, "idle") /\ Living /\ meta.ver < MaxVersion

StartUpdate(p, t) ==
    /\ Admitted(p)
    /\ Become(p, [Begin("update", "skills") EXCEPT !.name = t])
    /\ UNCHANGED <<rows, erased>>

StartSaveSkill(p, s, t) ==
    /\ Admitted(p)
    /\ Become(p, [Begin("save", "old") EXCEPT !.target = s, !.text = t])
    /\ UNCHANGED <<rows, erased>>

StartRemoveSkill(p, s) ==
    /\ Admitted(p)
    /\ Become(p, [Begin("remove", "old") EXCEPT !.target = s])
    /\ UNCHANGED <<rows, erased>>

StartControlProof(p) ==
    /\ Admitted(p)
    /\ Become(p, Begin("proof", "card"))
    /\ UNCHANGED <<rows, erased>>

\* publish-cards needs no owner key.
StartRepublish(p) ==
    /\ At(p, "idle")
    /\ meta.ver < MaxVersion
    /\ Become(p, [pc |-> "meta", op |-> "republish", attempt |-> 1])
    /\ UNCHANGED <<rows, erased>>

\* An attempt of republish_existing_card; a deleted agent stays unpublished.
ReadMeta(p) ==
    /\ At(p, "meta")
    /\ IF Living
          THEN Become(p, [Begin("republish", "skills") EXCEPT !.attempt = process[p].attempt])
          ELSE Return(p)
    /\ UNCHANGED <<rows, erased>>

\* The row of the skill itself; only an existing one is removed.
ReadOld(p) ==
    /\ At(p, "old")
    /\ IF Is(p, "remove") /\ skill[process[p].target].ver = Absent
          THEN Return(p)
          ELSE Become(p, [process[p] EXCEPT !.pc = "skills",
                              !.old = skill[process[p].target].ver])
    /\ UNCHANGED <<rows, erased>>

\* skills(): the pages of the list are no snapshot, so every row is a read of
\* its own.
ReadSkill(p, s) ==
    /\ At(p, "skills")
    /\ s \in process[p].unread
    /\ Become(p, [process[p] EXCEPT !.unread = @ \ {s}, !.seen[s] = skill[s].text])
    /\ UNCHANGED <<rows, erased>>

SkillsRead(p) == At(p, "skills") /\ process[p].unread = {}

\* A card to replace need not be there; a card to attest must be.
ReadCard(p) ==
    /\ SkillsRead(p) \/ At(p, "card")
    /\ IF Is(p, "proof") /\ card.shown = NoText
          THEN Return(p)
          ELSE Become(p, [process[p] EXCEPT !.pc = "commit", !.card = card.ver])
    /\ UNCHANGED <<rows, erased>>

-----------------------------------------------------------------------------
(* What they write. *)

\* The skills of the new snapshot: those that were read, with the change.
Proposed(p) ==
    IF process[p].op \in {"save", "remove"}
       THEN [process[p].seen EXCEPT ![process[p].target] = process[p].text]
       ELSE process[p].seen

\* Mutant: the card is the fence, and META is not looked at.
FitsByCard(p) ==
    /\ Matches(card, process[p].card)
    /\ process[p].op \in {"save", "remove"} =>
           Matches(skill[process[p].target], process[p].old)

\* The conditions of the transaction of publish_card.
PublishFits(p) ==
    /\ Matches(meta, process[p].meta.ver)
    /\ Matches(card, process[p].card)
    /\ process[p].op \in {"save", "remove"} =>
           Matches(skill[process[p].target], process[p].old)

\* The handler has its signature: META, the skill and the card, or nothing.
Publish(p) ==
    /\ At(p, "commit") /\ ~Is(p, "proof")
    /\ PublishFits(p)
    /\ meta' = Stored([process[p].meta EXCEPT !.name = process[p].name], process[p].meta.ver)
    /\ card' = Stored([card EXCEPT !.shown = [name |-> process[p].name,
                                              skills |-> Proposed(p)]], process[p].card)
    /\ skill' = IF process[p].op \in {"save", "remove"}
                   THEN [skill EXCEPT ![process[p].target] =
                            Stored([@ EXCEPT !.text = process[p].text], process[p].old)]
                   ELSE skill
    /\ Return(p)
    /\ UNCHANGED <<proof, erased>>

\* Mutant: META is overwritten, whatever was written to it since it was read.
IssueFitsAlways(p) == TRUE

\* The condition on META; the receipt is new.
IssueFits(p) == Matches(meta, process[p].meta.ver)

\* The receipt names the revision its own transaction makes of META.
Issue(p, i) ==
    /\ At(p, "commit") /\ Is(p, "proof")
    /\ proof[i].ver = Absent
    /\ IssueFits(p)
    /\ meta' = Stored(process[p].meta, process[p].meta.ver)
    /\ proof' = [proof EXCEPT ![i] =
                    Stored([@ EXCEPT !.claims = [revision |-> process[p].meta.ver + 1,
                                                 card     |-> process[p].card,
                                                 key      |-> process[p].meta.key,
                                                 expired  |-> FALSE]], Absent)]
    /\ Return(p)
    /\ UNCHANGED <<skill, card, erased>>

\* The transaction is refused: a condition failed, or another transaction was
\* in flight.  The operator's command tries again, an owner is told.
Conflict(p) ==
    /\ At(p, "commit")
    /\ IF Is(p, "republish") /\ process[p].attempt < Attempts
          THEN Become(p, [pc |-> "meta", op |-> "republish", attempt |-> process[p].attempt + 1])
          ELSE Return(p)
    /\ UNCHANGED <<rows, erased>>

\* No signature, an error of the store, or the end of the process.
Abandon(p) ==
    /\ ~At(p, "idle")
    /\ Return(p)
    /\ UNCHANGED <<rows, erased>>

-----------------------------------------------------------------------------
(* rotate_key and delete_agent write META alone. *)

RotateKey ==
    /\ Living /\ meta.ver < MaxVersion
    /\ meta' = Stored([meta EXCEPT !.key = @ + 1], meta.ver)
    /\ UNCHANGED <<skill, card, proof, process, erased>>

\* Mutant: the digest of the key stays.
RevokedKeyKept(row) == [row EXCEPT !.deleted = TRUE]

Revoked(row) == [row EXCEPT !.key = NoKey, !.deleted = TRUE]

\* META first; from then on the agent is not found.
StartDelete(p) ==
    /\ At(p, "idle")
    /\ Living
    /\ meta' = Stored(Revoked(meta), meta.ver)
    /\ Become(p, [pc |-> "list", op |-> "delete"])
    /\ UNCHANGED <<skill, card, proof, erased>>

\* The list of the other rows, with their versions; Absent: nothing to do.
ListRows(p) ==
    /\ At(p, "list")
    /\ Become(p, [pc |-> "erase", op |-> "delete", card |-> card.ver,
                  skill |-> [s \in Skill |-> skill[s].ver],
                  proof |-> [i \in Proof |-> proof[i].ver]])
    /\ UNCHANGED <<rows, erased>>

\* The payload of a listed row is cleared; a conflict is ignored.
ErasedRow(row, expected, payload) ==
    IF Matches(row, expected) THEN Stored(payload, expected) ELSE row

EraseCard(p) ==
    /\ At(p, "erase") /\ process[p].card # Absent
    /\ card' = ErasedRow(card, process[p].card, [card EXCEPT !.shown = NoText])
    /\ Become(p, [process[p] EXCEPT !.card = Absent])
    /\ UNCHANGED <<meta, skill, proof, erased>>

EraseSkill(p, s) ==
    /\ At(p, "erase") /\ process[p].skill[s] # Absent
    /\ skill' = [skill EXCEPT ![s] =
                    ErasedRow(@, process[p].skill[s], [@ EXCEPT !.text = NoText])]
    /\ Become(p, [process[p] EXCEPT !.skill[s] = Absent])
    /\ UNCHANGED <<meta, card, proof, erased>>

EraseProof(p, i) ==
    /\ At(p, "erase") /\ process[p].proof[i] # Absent
    /\ proof' = [proof EXCEPT ![i] =
                    ErasedRow(@, process[p].proof[i], [@ EXCEPT !.claims = NoClaims])]
    /\ Become(p, [process[p] EXCEPT !.proof[i] = Absent])
    /\ UNCHANGED <<meta, skill, card, erased>>

Deleted(p) ==
    /\ At(p, "erase")
    /\ process[p].card = Absent
    /\ \A s \in Skill : process[p].skill[s] = Absent
    /\ \A i \in Proof : process[p].proof[i] = Absent
    /\ erased' = TRUE
    /\ Return(p)
    /\ UNCHANGED rows

\* Ten minutes after its issue a receipt is over.
Expire(i) ==
    /\ proof[i].claims.revision # 0 /\ ~proof[i].claims.expired
    /\ proof' = [proof EXCEPT ![i].claims.expired = TRUE]
    /\ UNCHANGED <<meta, skill, card, process, erased>>

Run(p) ==
    \/ (\E t \in Text : StartCreate(p, t) \/ StartUpdate(p, t))
    \/ (\E s \in Skill, t \in Text : StartSaveSkill(p, s, t))
    \/ (\E s \in Skill : StartRemoveSkill(p, s) \/ ReadSkill(p, s) \/ EraseSkill(p, s))
    \/ StartControlProof(p) \/ StartRepublish(p)
    \/ ReadMeta(p) \/ ReadOld(p) \/ ReadCard(p)
    \/ Publish(p) \/ Conflict(p) \/ Abandon(p)
    \/ StartDelete(p) \/ ListRows(p) \/ EraseCard(p) \/ Deleted(p)
    \/ \E i \in Proof : Issue(p, i) \/ EraseProof(p, i)

Next ==
    \/ \E p \in Process : Run(p)
    \/ RotateKey
    \/ \E i \in Proof : Expire(i)

Spec == Init /\ [][Next]_vars

-----------------------------------------------------------------------------
(* The shape of the state. *)

Payload == Text \cup {NoText}
Meta    == [ver : Nat, name : Payload, key : Nat, deleted : BOOLEAN]
Claims  == [revision : Nat, card : Nat, key : Nat, expired : BOOLEAN]

\* The local states of an invocation, one set for each kind.
Retrying == [pc : {"meta"}, op : {"republish"}, attempt : Nat]
Handling == [pc : {"old", "skills", "card", "commit"},
             op : {"create", "update", "save", "remove", "proof", "republish"},
             meta : Meta, name : Text, target : Skill \cup {NoText}, text : Payload,
             old : Nat, unread : SUBSET Skill, seen : [Skill -> Payload],
             card : Nat, attempt : Nat]
Listing  == [pc : {"list"}, op : {"delete"}]
Erasing  == [pc : {"erase"}, op : {"delete"}, card : Nat,
             skill : [Skill -> Nat], proof : [Proof -> Nat]]
Job      == {Idle} \cup Retrying \cup Handling \cup Listing \cup Erasing

\* The rows; only a deletion takes the owner's key away.
RowsTypeOK ==
    /\ meta \in Meta
    /\ meta.ver # Absent => meta.name # NoText /\ (meta.deleted <=> meta.key = NoKey)
    /\ skill \in [Skill -> [ver : Nat, text : Payload]]
    /\ card \in [ver : Nat, shown : Shown \cup {NoText}]
    /\ proof \in [Proof -> [ver : Nat, claims : Claims]]
    /\ erased \in BOOLEAN

\* Every row and every invocation holds what the code can store in it.
TypeOK == RowsTypeOK /\ process \in [Process -> Job]

-----------------------------------------------------------------------------
(* Properties. *)

\* The card of a living agent shows its name and its skills as they are stored
\* now, whichever handlers overlapped ("Mixed reads therefore cannot commit",
\* src/api.rs, publish_card).
CardMatchesConfiguration ==
    Living /\ card.ver # Absent =>
        card.shown = [name |-> meta.name, skills |-> [s \in Skill |-> skill[s].text]]

\* control_proof_status: what the public endpoint answers for a receipt.
Active(i) ==
    /\ proof[i].ver # Absent
    /\ Living
    /\ proof[i].claims.revision = meta.ver
    /\ ~proof[i].claims.expired

\* An active receipt attests the bytes the card endpoint serves now, it was
\* issued to the holder of the key that is valid now, and no other is active
\* (docs/api.md, "Experimental hosting control receipts").
ActiveProofAttests ==
    \A i \in Proof : Active(i) =>
        /\ card.shown # NoText /\ proof[i].claims.card = card.ver
        /\ proof[i].claims.key = meta.key
        /\ \A j \in Proof \ {i} : ~Active(j)

\* Once a deletion has been answered no card, skill or receipt of the agent is
\* left, and no handler that was admitted before brings one back.
DeletionUnpublishes ==
    erased =>
        /\ card.shown = NoText
        /\ \A s \in Skill : skill[s].text = NoText
        /\ \A i \in Proof : proof[i].claims = NoClaims

\* A request that changes an agent does so under the key it was admitted with:
\* a rotation or a deletion while it waited for its signature shuts it out.
KeyHoldsAtCommit ==
    [][\A p \in Process :
           At(p, "commit") /\ process[p].op # "create" /\ process'[p] # process[p] /\ meta' # meta
               => Living /\ process[p].meta.key = meta.key]_vars

\* What the rows show of the agent changes as one thing: its configuration
\* together with its card, an active receipt together with either, whichever
\* handlers overlapped, and the card and skills of a deleted agent only go
\* (publish_card, control_proof, delete_agent; docs/card-signing.md).
Agent == [state |-> IF meta.ver = Absent THEN "none"
                    ELSE IF meta.deleted THEN "deleted" ELSE "living",
          name |-> meta.name, key |-> meta.key]

Texts     == [s \in Skill |-> skill[s].text]
Issued    == {i \in Proof : proof[i].ver # Absent}
ActiveNow == {i \in Proof : Active(i)}

Promise == INSTANCE AgentSpec WITH
    agent <- Agent, skills <- Texts, shown <- card.shown,
    issued <- Issued, active <- ActiveNow, gone <- erased
ImplementsAgentSpec == Promise!Spec
=============================================================================
