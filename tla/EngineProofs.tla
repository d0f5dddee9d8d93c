---------------------------- MODULE EngineProofs ----------------------------
(***************************************************************************)
(* Proofs about Engine.tla.  The identifiers of a run are those its        *)
(* transcript uses: a batch brings new ones, and each moves from the calls *)
(* to handle to the answers of the batch, and with them to a message.  An  *)
(* action that reached a server has its answer there, or is the call whose *)
(* connector is being listed again.                                        *)
(***************************************************************************)
EXTENDS Engine, FiniteSetTheorems, SequenceTheorems, TLAPS

-----------------------------------------------------------------------------
(* The inductive invariant. *)

Discovering == {"discover", "list", "grant"}

Used(m)     == Uses(m, Len(m))
Answered(m) == Answers(m, Len(m))

\* The run before a batch, and the place of each call in one.
PlaceInv ==
    /\ pc \in Discovering => todo # <<>>
    /\ pc \in {"call", "send"} => calls # <<>>
    /\ pc \in {"idle", "model"} => calls = <<>>
    /\ calls = <<>> => answers = {}
    /\ pc = "send" => Valid(Head(calls))
    /\ pc \in Running => turn < MaxTurns
    /\ calls # <<>> => RoundLeft

\* The action whose result is there and whose connector is listed again.
Current == IF pc \in Discovering /\ calls # <<>> THEN {Head(calls).id} ELSE {}

\* Every identifier is used once: pending calls have no answer.
BatchInv ==
    pc \in Running =>
        /\ seen = Used(messages) /\ Answered(messages) \subseteq seen
        /\ answers \subseteq seen /\ Ids(calls) \subseteq seen
        /\ \A i, j \in DOMAIN calls : calls[i].id = calls[j].id => i = j
        /\ \A i \in DOMAIN calls : calls[i].id \notin Answered(messages) \cup answers

\* Where the actions are that reached a server.
ExecutedInv ==
    \A i \in Id :
        /\ executed[i] <= 1
        /\ executed[i] > 0 =>
               /\ pc \in Running => i \in Answered(messages) \cup answers \cup Current
               /\ pc = "idle" \/ (pc = "completed" /\ conversation) => i \in Used(stored)
               /\ pc \in {"idle", "completed"} => i \in told

\* The transcript a conversation waits with.
StoredInv == pc = "idle" \/ (pc = "completed" /\ conversation) => Complete(stored)

\* The request of this turn of the loop has not been sent.
Unsent == pc = "model" \/ (pc \in Discovering /\ calls = <<>>)

ReservedInv ==
    \A k \in DOMAIN reserved :
        /\ reserved[k] <= 1
        /\ reserved[k] > 0 /\ pc \in Running \cup {"idle"} =>
               \/ k[1] < turn
               \/ k[1] = turn /\ pc \in Running
                    /\ (k[2] < round \/ (k[2] = round /\ ~Unsent))

UncertainInv == uncertain => pc = "unknown"

IInv ==
    /\ RunTypeOK /\ PlaceInv /\ BatchInv /\ ExecutedInv /\ StoredInv
    /\ ReservedInv /\ UncertainInv

-----------------------------------------------------------------------------
(* Transcripts. *)

LEMMA Members ==
    ASSUME NEW m
    PROVE  /\ \A x : x \in Used(m) <=> \E i \in 1 .. Len(m) : x \in m[i].uses
           /\ \A x : x \in Answered(m) <=> \E i \in 1 .. Len(m) : x \in m[i].answers
  BY DEF Used, Answered, Uses, Answers

LEMMA Appended ==
    ASSUME NEW m \in Seq(Message), NEW x \in Message
    PROVE  /\ Append(m, x) \in Seq(Message)
           /\ Used(Append(m, x)) = Used(m) \cup x.uses
           /\ Answered(Append(m, x)) = Answered(m) \cup x.answers
<1> DEFINE n == Append(m, x)
<1>1. /\ n \in Seq(Message) /\ Len(n) = Len(m) + 1 /\ Len(m) \in Nat
      /\ \A i \in 1 .. Len(m) : n[i] = m[i]
      /\ n[Len(m) + 1] = x
  OBVIOUS
<1> HIDE DEF n
<1>2. \A i : i \in 1 .. Len(n) <=> i \in 1 .. Len(m) \/ i = Len(m) + 1
  BY <1>1
<1>3. \A y : y \in Used(n) <=> y \in Used(m) \/ y \in x.uses
  BY <1>1, <1>2, Members
<1>4. \A y : y \in Answered(n) <=> y \in Answered(m) \/ y \in x.answers
  BY <1>1, <1>2, Members
<1> QED  BY <1>1, <1>3, <1>4 DEF n

LEMMA TypesOfMessages ==
    /\ \A as \in SUBSET Id : FromUser(as) \in Message /\ FromUser(as).uses = {}
                               /\ FromUser(as).answers = as
    /\ Text \in Message /\ Text.uses = {} /\ Text.answers = {}
    /\ \A cs \in Seq(Call) : FromModel(cs) \in Message /\ FromModel(cs).uses = Ids(cs)
                               /\ FromModel(cs).answers = {} /\ Ids(cs) \subseteq Id
<1>1. ASSUME NEW cs \in Seq(Call) PROVE Ids(cs) \subseteq Id
  <2>1. \A i \in DOMAIN cs : cs[i] \in Call
    OBVIOUS
  <2>2. \A c \in Call : c.id \in Id
    BY DEF Call
  <2> QED  BY <2>1, <2>2 DEF Ids
<1> QED  BY <1>1 DEF FromUser, Text, FromModel, Message

LEMMA EmptyTranscript == Used(<<>>) = {} /\ Answered(<<>>) = {}
  BY DEF Used, Answered, Uses, Answers

\* The identifiers of a transcript.
LEMMA IdsOfTranscript ==
    ASSUME NEW m \in Seq(Message)
    PROVE  Used(m) \subseteq Id /\ Answered(m) \subseteq Id
<1>1. \A i \in 1 .. Len(m) : m[i].uses \subseteq Id /\ m[i].answers \subseteq Id
  <2>1. \A i \in 1 .. Len(m) : m[i] \in Message
    OBVIOUS
  <2>2. \A x \in Message : x.uses \subseteq Id /\ x.answers \subseteq Id
    BY DEF Message
  <2> QED  BY <2>1, <2>2
<1> QED  BY <1>1, Members

\* What is used has an answer, and what is answered was used.
LEMMA CompleteFacts ==
    ASSUME NEW m \in Seq(Message), Complete(m)
    PROVE  Used(m) = Answered(m)
<1>1. Used(m) \subseteq Answered(m)
  BY DEF Complete, Pending, Used, Answered
<1>2. ASSUME NEW x, x \in Answered(m) PROVE x \in Used(m)
  <2>1. PICK i \in 1 .. Len(m) : x \in m[i].answers
    BY <1>2, Members
  <2>2. x \in Uses(m, i - 1)
    BY <2>1 DEF Complete, Pending
  <2>3. PICK j \in 1 .. (i - 1) : x \in m[j].uses
    BY <2>2 DEF Uses
  <2>4. j \in 1 .. Len(m)
    BY <2>1, <2>3
  <2> QED  BY <2>3, <2>4, Members
<1> QED  BY <1>1, <1>2

-----------------------------------------------------------------------------
(* Batches. *)

LEMMA BatchFacts ==
    ASSUME NEW cs \in SeqOf(Call, MaxBatch) \ {<<>>}
    PROVE  /\ cs \in Seq(Call) /\ cs # <<>> /\ Len(cs) \in Nat \ {0}
           /\ Ids(cs) \subseteq Id
           /\ Fresh(cs) => \A i, j \in DOMAIN cs : cs[i].id = cs[j].id => i = j
<1>1. PICK n \in Nat : cs \in [1 .. n -> Call]
  BY EngineAssumption DEF SeqOf
<1>2. cs \in Seq(Call)
  BY <1>1
<1>3. cs # <<>> /\ Len(cs) \in Nat \ {0} /\ DOMAIN cs = 1 .. Len(cs)
  BY <1>2
<1>4. Ids(cs) \subseteq Id
  BY <1>2, TypesOfMessages
<1>5. ASSUME Fresh(cs), NEW i \in DOMAIN cs, NEW j \in DOMAIN cs, cs[i].id = cs[j].id
      PROVE  i = j
  <2> DEFINE f == [k \in 1 .. Len(cs) |-> cs[k].id]
  <2>1. f \in Surjection(1 .. Len(cs), Ids(cs))
    BY <1>3 DEF Surjection, Ids
  <2>2. IsFiniteSet(1 .. Len(cs)) /\ Cardinality(1 .. Len(cs)) = Len(cs)
    <3>1. Len(cs) \in Int /\ 1 \in Int /\ Len(cs) - 1 + 1 = Len(cs) /\ 1 <= Len(cs)
      BY <1>3
    <3> QED  BY <3>1, FS_Interval
  <2>3. f \in Injection(1 .. Len(cs), Ids(cs))
    BY <1>5, <2>1, <2>2, FS_Surjection DEF Fresh
  <2> QED  BY <1>3, <1>5, <2>3 DEF Injection, IsInjective
<1> QED  BY <1>2, <1>3, <1>4, <1>5

\* The calls after the first.
LEMMA Rest ==
    ASSUME NEW cs \in Seq(Call), cs # <<>>
    PROVE  /\ Head(cs) \in Call /\ Head(cs) = cs[1] /\ 1 \in DOMAIN cs
           /\ Head(cs).id \in Ids(cs) /\ Head(cs).id \in Id
           /\ Tail(cs) \in Seq(Call)
           /\ Len(cs) \in Nat /\ (Len(cs) > 1 <=> Tail(cs) # <<>>)
           /\ \A i \in DOMAIN Tail(cs) : i + 1 \in DOMAIN cs /\ Tail(cs)[i] = cs[i + 1]
                                           /\ i \in Nat \ {0}
<1>1. Head(cs) \in Call /\ Head(cs) = cs[1] /\ 1 \in DOMAIN cs
  OBVIOUS
<1>2. /\ Tail(cs) \in Seq(Call) /\ Len(Tail(cs)) = Len(cs) - 1 /\ Len(cs) \in Nat \ {0}
      /\ \A i \in 1 .. Len(Tail(cs)) : Tail(cs)[i] = cs[i + 1]
  OBVIOUS
<1>3. /\ DOMAIN cs = 1 .. Len(cs) /\ DOMAIN Tail(cs) = 1 .. Len(Tail(cs))
  BY <1>2
<1>4. Len(cs) > 1 <=> Tail(cs) # <<>>
  <2>1. Tail(cs) = <<>> <=> Len(Tail(cs)) = 0
    BY <1>2, EmptySeq
  <2> QED  BY <1>2, <2>1
<1>5. Head(cs).id \in Ids(cs) /\ Head(cs).id \in Id
  BY <1>1 DEF Ids, Call
<1>6. \A i \in DOMAIN Tail(cs) : i + 1 \in DOMAIN cs /\ i \in Nat \ {0}
  BY <1>2, <1>3
<1> QED  BY <1>1, <1>2, <1>3, <1>4, <1>5, <1>6

-----------------------------------------------------------------------------
(* Steps. *)

LEMMA Numbers ==
    /\ MaxRounds \in Nat \ {0} /\ MaxTurns \in Nat \ {0} /\ MaxVersion \in Nat \ {0}
    /\ Connectors \in Seq(Connector) /\ ConnectorOf \in [Tool -> Connector]
    /\ Nothing \in Definitions
  BY EngineAssumption DEF Connector, Nothing, Definitions, Gone

\* A run ends.  Of what happened outside only bounds matter, unless the task is
\* answered.
LEMMA EndKeeps ==
    ASSUME IInv, NEW outcome \in Ended, End(outcome), UNCHANGED world,
           executed' \in [Id -> Nat], \A i \in Id : executed'[i] <= 1,
           told' \subseteq Id, DOMAIN reserved' = DOMAIN reserved,
           reserved' \in [DOMAIN reserved -> Nat], \A k \in DOMAIN reserved : reserved'[k] <= 1,
           uncertain' \in BOOLEAN, uncertain' => outcome = "unknown",
           outcome = "completed" => /\ ~conversation
                                    /\ \A i \in Id : executed'[i] > 0 => i \in told'
    PROVE  IInv'
<1>1. RunTypeOK'
  BY Numbers DEF IInv, RunTypeOK, End, world
<1>2. pc' \notin Running /\ pc' # "idle" /\ calls' = <<>> /\ answers' = {} /\ pc' = outcome
  BY DEF End, Ended, Running
<1>3. PlaceInv' /\ BatchInv' /\ StoredInv' /\ UncertainInv'
  BY <1>2 DEF PlaceInv, BatchInv, StoredInv, UncertainInv, Discovering, Running, world
<1>4. ExecutedInv'
  BY <1>2 DEF ExecutedInv, world
<1>5. ReservedInv'
  BY <1>2 DEF ReservedInv
<1> QED  BY <1>1, <1>3, <1>4, <1>5 DEF IInv

LEMMA EndQuietly ==
    ASSUME IInv, NEW outcome \in Ended \ {"completed"}, End(outcome), UNCHANGED world,
           UNCHANGED <<told, reserved, executed>>,
           uncertain' \in BOOLEAN, uncertain' => outcome = "unknown"
    PROVE  IInv'
<1>1. /\ executed \in [Id -> Nat] /\ \A i \in Id : executed[i] <= 1
      /\ told \subseteq Id /\ reserved \in [DOMAIN reserved -> Nat]
      /\ \A k \in DOMAIN reserved : reserved[k] <= 1
  BY DEF IInv, RunTypeOK, ExecutedInv, ReservedInv
<1> QED  BY <1>1, EndKeeps

LEMMA InterruptKeeps ==
    ASSUME IInv, Interrupt
    PROVE  IInv'
<1>1. "failed" \in Ended \ {"completed"} /\ uncertain' = uncertain /\ uncertain \in BOOLEAN
  BY DEF Ended, Interrupt, ghosts, IInv, RunTypeOK
<1>2. ~uncertain
  BY DEF Interrupt, IInv, UncertainInv, Running
<1> QED  BY <1>1, <1>2, EndQuietly DEF Interrupt, ghosts

LEMMA DiscoveryFailsKeeps ==
    ASSUME IInv, DiscoveryFails
    PROVE  IInv'
<1>1. /\ "failed" \in Ended \ {"completed"} /\ "unknown" \in Ended \ {"completed"}
      /\ uncertain' \in BOOLEAN /\ UNCHANGED <<told, reserved, executed>> /\ UNCHANGED world
  BY DEF Ended, DiscoveryFails
<1>2. CASE calls = <<>>
  <2>1. End("failed") /\ ~uncertain'
    BY <1>2 DEF DiscoveryFails
  <2> QED  BY <1>1, <2>1, EndQuietly
<1>3. CASE calls # <<>>
  <2>1. End("unknown")
    BY <1>3 DEF DiscoveryFails
  <2> QED  BY <1>1, <2>1, EndQuietly
<1> QED  BY <1>2, <1>3

\* What holds of a state, in one place.
LEMMA StateFacts ==
    ASSUME IInv
    PROVE  /\ messages \in Seq(Message) /\ stored \in Seq(Message) /\ calls \in Seq(Call)
           /\ todo \in Seq(Connector) /\ answers \subseteq Id /\ seen \subseteq Id
           /\ registry \in Definitions /\ offered \in Definitions /\ listed \in Definitions
           /\ executed \in [Id -> Nat] /\ told \subseteq Id
           /\ turn \in 0 .. MaxTurns /\ round \in 0 .. MaxRounds - 1
           /\ reserved \in [(0 .. MaxTurns - 1) \X (0 .. MaxRounds - 1) -> Nat]
           /\ uncertain \in BOOLEAN /\ conversation \in BOOLEAN
           /\ PlaceInv /\ BatchInv /\ ExecutedInv /\ StoredInv /\ ReservedInv /\ UncertainInv
           /\ \A i \in Id : executed[i] \in Nat /\ executed[i] <= 1
           /\ pc # "unknown" => ~uncertain
  BY DEF IInv, RunTypeOK, ExecutedInv, UncertainInv

LEMMA LoseCallKeeps ==
    ASSUME IInv, LoseCall
    PROVE  IInv'
<1> DEFINE id == Head(calls).id
<1>1. /\ calls # <<>> /\ calls \in Seq(Call) /\ pc \in Running /\ pc # "unknown"
      /\ executed \in [Id -> Nat]
  BY StateFacts DEF LoseCall, PlaceInv, Running
<1>2. id \in Id /\ \E i \in DOMAIN calls : calls[i].id = id
  BY <1>1, Rest
<1>3. pc = "send" => executed[id] = 0
  <2> HAVE pc = "send"
  <2>1. id \notin Answered(messages) \cup answers \cup Current
    BY <1>1, <1>2, StateFacts DEF BatchInv, Current, Discovering
  <2> QED  BY <1>1, <1>2, <2>1, StateFacts DEF ExecutedInv
<1>4. executed' \in [Id -> Nat] /\ \A i \in Id : executed'[i] <= 1
  <2>1. CASE executed' = executed
    BY <2>1, StateFacts
  <2>2. CASE pc = "send" /\ executed' = [executed EXCEPT ![id] = @ + 1]
    <3>1. \A i \in Id : executed'[i] = IF i = id THEN 1 ELSE executed[i]
      BY <1>1, <1>2, <1>3, <2>2
    <3>2. executed' \in [Id -> Nat]
      BY <1>1, <1>2, <1>3, <2>2
    <3>3. \A i \in Id : executed[i] <= 1
      BY StateFacts
    <3> QED  BY <3>1, <3>2, <3>3
  <2> QED  BY <2>1, <2>2 DEF LoseCall, Executed
<1>5. /\ told' \subseteq Id /\ reserved' = reserved /\ reserved \in [DOMAIN reserved -> Nat]
      /\ \A k \in DOMAIN reserved : reserved[k] <= 1
      /\ uncertain' = TRUE /\ UNCHANGED world
  BY StateFacts DEF LoseCall, ReservedInv
<1>6. "unknown" \in Ended /\ End("unknown")
  BY DEF Ended, LoseCall, Unanswered
<1> QED  BY <1>4, <1>5, <1>6, EndKeeps

\* A request is sent once, and tells the model what was done.
LEMMA RequestFacts ==
    ASSUME IInv, Request
    PROVE  /\ pc = "model" /\ calls = <<>> /\ answers = {} /\ turn \in 0 .. MaxTurns - 1
           /\ DOMAIN reserved' = DOMAIN reserved /\ reserved' \in [DOMAIN reserved -> Nat]
           /\ \A k \in DOMAIN reserved : reserved'[k] <= 1
           /\ \A k \in DOMAIN reserved : reserved'[k] > 0 =>
                  k[1] < turn \/ (k[1] = turn /\ k[2] <= round)
           /\ told' \subseteq Id
           /\ \A i \in Id : executed[i] > 0 => i \in Answered(messages) /\ i \in told'
           /\ Answered(messages) \subseteq Used(messages) /\ seen = Used(messages)
           /\ ~uncertain
<1> DEFINE r == <<turn, round>>
           D == (0 .. MaxTurns - 1) \X (0 .. MaxRounds - 1)
<1>1. pc = "model" /\ pc \in Running /\ pc \notin Discovering
  BY DEF Request, Running, Discovering
<1>2. calls = <<>> /\ answers = {} /\ turn < MaxTurns /\ ~uncertain
  BY <1>1, StateFacts DEF PlaceInv
<1>3. turn \in 0 .. MaxTurns - 1 /\ round \in 0 .. MaxRounds - 1
  BY <1>2, StateFacts, Numbers
<1>4. r \in D /\ reserved \in [D -> Nat] /\ r[1] = turn /\ r[2] = round
  BY <1>3, StateFacts
<1>5. reserved' = [reserved EXCEPT ![r] = @ + 1]
  BY DEF Request, ReservationId
<1>6. \A k \in D : k[1] \in Nat /\ k[2] \in Nat /\ k = <<k[1], k[2]>>
  BY Numbers
<1>14. \A k \in D : /\ reserved[k] \in Nat /\ reserved[k] <= 1
                    /\ reserved[k] > 0 => k[1] < turn \/ (k[1] = turn /\ k[2] < round)
  <2>1. Unsent /\ ReservedInv /\ DOMAIN reserved = D
    BY <1>1, <1>4, StateFacts DEF Unsent
  <2> HIDE DEF D
  <2>2. \A k \in D : reserved[k] \in Nat
    BY <1>4
  <2> QED  BY <1>1, <2>1, <2>2 DEF ReservedInv
<1>7. reserved[r] = 0
  <2>1. turn \in Nat /\ round \in Nat /\ reserved[r] \in Nat
    BY <1>3, <1>4
  <2>2. ~(reserved[r] > 0)
    BY <1>4, <1>14, <2>1
  <2> QED  BY <2>1, <2>2
<1> HIDE DEF r, D
<1>8. /\ reserved' \in [D -> Nat] /\ \A k \in D : reserved'[k] = IF k = r THEN 1 ELSE reserved[k]
      /\ DOMAIN reserved = D /\ DOMAIN reserved' = D
  BY <1>4, <1>5, <1>7
<1>9. \A k \in D : reserved'[k] <= 1
  BY <1>8, <1>14
<1>10. ASSUME NEW k \in D, reserved'[k] > 0
       PROVE  k[1] < turn \/ (k[1] = turn /\ k[2] <= round)
  <2>1. CASE k = r
    BY <1>3, <1>4, <2>1
  <2>2. CASE k # r
    BY <1>3, <1>6, <1>8, <1>10, <1>14, <2>2
  <2> QED  BY <2>1, <2>2
<1>11. Answered(messages) \subseteq Id /\ told' = told \cup Answered(messages)
  BY StateFacts, IdsOfTranscript DEF Request, Answered
<1>12. \A i \in Id : executed[i] > 0 => i \in Answered(messages)
  BY <1>1, <1>2, StateFacts DEF ExecutedInv, Current
<1>13. Answered(messages) \subseteq Used(messages) /\ seen = Used(messages)
  BY <1>1, StateFacts DEF BatchInv
<1> QED
  BY <1>1, <1>2, <1>3, <1>8, <1>9, <1>10, <1>11, <1>12, <1>13, StateFacts

\* A request was sent and the run ends.
LEMMA RequestEnds ==
    ASSUME IInv, Request, NEW outcome \in {"failed", "limit", "completed"}, End(outcome),
           UNCHANGED <<world, executed, uncertain>>, outcome = "completed" => ~conversation
    PROVE  IInv'
<1>1. /\ executed' \in [Id -> Nat] /\ \A i \in Id : executed'[i] <= 1
      /\ uncertain' \in BOOLEAN /\ ~uncertain'
      /\ \A i \in Id : executed'[i] > 0 => i \in told'
  BY StateFacts, RequestFacts
<1>2. outcome \in Ended
  BY DEF Ended
<1> QED  BY <1>1, <1>2, RequestFacts, EndKeeps

LEMMA ModelFailsKeeps ==
    ASSUME IInv, ModelFails
    PROVE  IInv'
<1>1. PICK outcome \in {"failed", "limit"} : End(outcome)
  BY DEF ModelFails
<1>2. UNCHANGED <<world, executed, uncertain>>
  BY DEF ModelFails
<1>3. CASE Request
  BY <1>1, <1>2, <1>3, RequestEnds
<1>4. CASE pc = "model" /\ UNCHANGED <<reserved, told>>
  <2>1. outcome \in Ended \ {"completed"} /\ uncertain' \in BOOLEAN /\ ~uncertain'
    BY <1>2, <1>4, StateFacts DEF Ended
  <2> QED  BY <1>1, <1>2, <1>4, <2>1, EndQuietly
<1> QED  BY <1>3, <1>4 DEF ModelFails

LEMMA ConcludeKeeps ==
    ASSUME IInv, Request, NEW outcome \in {"completed", "idle"}, Conclude(outcome),
           UNCHANGED <<world, executed, uncertain>>, outcome = "idle" => conversation
    PROVE  IInv'
<1>1. CASE ~conversation
  BY <1>1, RequestEnds DEF Conclude
<1>2. CASE conversation /\ ~Keeps(Transcript(messages))
  BY <1>2, RequestEnds DEF Conclude
<1>3. CASE conversation /\ Keeps(Transcript(messages))
  <2>1. /\ pc' = outcome /\ stored' = Append(messages, Text) /\ Complete(stored')
        /\ turn' = IF outcome = "idle" THEN turn + 1 ELSE turn
        /\ UNCHANGED <<round, messages, registry, offered, calls, answers, seen, todo, listed>>
    BY <1>3 DEF Conclude, Transcript, Keeps
  <2>2. stored' \in Seq(Message) /\ Used(stored') = Used(messages)
    <3>1. messages \in Seq(Message) /\ Text \in Message /\ Text.uses = {}
      BY StateFacts, TypesOfMessages
    <3>2. Used(Append(messages, Text)) = Used(messages) \cup Text.uses
      BY <3>1, Appended
    <3> QED  BY <2>1, <3>1, <3>2
  <2>3. turn' \in 0 .. MaxTurns /\ turn \in Nat
    BY <2>1, RequestFacts, Numbers
  <2>4. pc' \notin Running /\ pc' \in Ended \cup {"idle"} /\ pc' # "unknown"
    BY <2>1 DEF Running, Ended
  <2>5. reserved' \in [(0 .. MaxTurns - 1) \X (0 .. MaxRounds - 1) -> Nat]
    BY StateFacts, RequestFacts
  <2>6. RunTypeOK'
    BY <2>1, <2>2, <2>3, <2>4, <2>5, RequestFacts DEF IInv, RunTypeOK, world
  <2>7. PlaceInv'
    BY <2>1, <2>4, RequestFacts DEF PlaceInv, Running, Discovering
  <2>8. BatchInv' /\ UncertainInv' /\ StoredInv'
    BY <2>1, <2>4, RequestFacts DEF BatchInv, UncertainInv, StoredInv
  <2>9. ExecutedInv'
    <3>1. \A i \in Id : executed[i] > 0 => i \in Used(stored') /\ i \in told'
      BY <2>2, RequestFacts
    <3> QED  BY <2>4, <3>1, StateFacts DEF ExecutedInv
  <2>10. ReservedInv'
    <3>1. \A k \in DOMAIN reserved : reserved'[k] > 0 /\ outcome = "idle" => k[1] < turn'
      <4> SUFFICES ASSUME NEW k \in DOMAIN reserved, reserved'[k] > 0, outcome = "idle"
                   PROVE  k[1] < turn'
        OBVIOUS
      <4>1. k[1] \in Nat
        BY StateFacts, Numbers
      <4> QED  BY <2>1, <2>3, <4>1, RequestFacts
    <3> QED  BY <2>1, <2>4, <3>1, RequestFacts DEF ReservedInv, Ended
  <2> QED  BY <2>6, <2>7, <2>8, <2>9, <2>10 DEF IInv
<1> QED  BY <1>1, <1>2, <1>3, StateFacts

LEMMA FinishKeeps ==
    ASSUME IInv, Finish
    PROVE  IInv'
  BY ConcludeKeeps DEF Finish

LEMMA AskKeeps ==
    ASSUME IInv, NEW call \in Call, Ask(call)
    PROVE  IInv'
  BY ConcludeKeeps, RequestEnds DEF Ask

\* A step within a turn of the loop that neither adds a call nor answers one.
LEMMA WithinTurn ==
    ASSUME IInv, UNCHANGED <<conversation, turn, round, stored, messages, calls, answers, seen,
                             executed, told, reserved, uncertain>>,
           pc \in Running, pc' \in Running, RunTypeOK', PlaceInv', Current' = Current,
           Unsent' <=> Unsent
    PROVE  IInv'
<1>1. BatchInv'
  BY StateFacts DEF BatchInv
<1>2. ExecutedInv'
  BY StateFacts DEF ExecutedInv, Running
<1>3. StoredInv' /\ UncertainInv'
  BY StateFacts DEF StoredInv, UncertainInv, Running
<1>4. ReservedInv'
  BY StateFacts DEF ReservedInv
<1> QED  BY <1>1, <1>2, <1>3, <1>4 DEF IInv

LEMMA DiscoverKeeps ==
    ASSUME IInv, Discover
    PROVE  IInv'
<1>1. /\ pc = "discover" /\ pc' = "list" /\ pc \in Running /\ pc' \in Running
      /\ UNCHANGED <<world, turn, round, stored, messages, registry, batch, seen, discovery, ghosts>>
  BY DEF Discover, Running
<1>2. RunTypeOK'
  BY <1>1 DEF IInv, RunTypeOK, world, batch, discovery, ghosts
<1>3. PlaceInv'
  BY <1>1, StateFacts DEF PlaceInv, batch, discovery, Discovering, RoundLeft
<1>4. Current' = Current /\ (Unsent' <=> Unsent)
  BY <1>1 DEF Current, Unsent, batch, Discovering
<1> QED  BY <1>1, <1>2, <1>3, <1>4, WithinTurn DEF world, batch, ghosts

LEMMA ListKeeps ==
    ASSUME IInv, List
    PROVE  IInv'
<1>1. /\ pc = "list" /\ pc' = "grant" /\ pc \in Running /\ pc' \in Running
      /\ UNCHANGED <<world, turn, round, stored, messages, registry, batch, seen, todo, executed,
                     told, reserved, uncertain>>
  BY DEF List, Running
<1>2. listed' \in Definitions
  <2>1. server \in Definitions /\ Gone \in Gone .. MaxVersion
    BY Numbers DEF IInv, RunTypeOK, Gone
  <2> QED  BY <2>1 DEF List, Definitions
<1>3. RunTypeOK'
  BY <1>1, <1>2 DEF IInv, RunTypeOK, world, batch
<1>4. PlaceInv'
  BY <1>1, StateFacts DEF PlaceInv, batch, Discovering, RoundLeft
<1>5. Current' = Current /\ (Unsent' <=> Unsent)
  BY <1>1 DEF Current, Unsent, batch, Discovering
<1> QED  BY <1>1, <1>3, <1>4, <1>5, WithinTurn DEF world, batch, ghosts

LEMMA PermitKeeps ==
    ASSUME IInv, Permit
    PROVE  IInv'
<1>1. /\ pc = "call" /\ pc' = "send" /\ pc \in Running /\ pc' \in Running /\ Valid(Head(calls))
      /\ UNCHANGED <<world, turn, round, stored, messages, registry, batch, seen, discovery, ghosts>>
  BY DEF Permit, Running
<1>2. RunTypeOK'
  BY <1>1 DEF IInv, RunTypeOK, world, batch, discovery, ghosts
<1>3. PlaceInv'
  BY <1>1, StateFacts DEF PlaceInv, batch, discovery, Discovering, RoundLeft, Valid, Unchanged
<1>4. Current' = Current /\ (Unsent' <=> Unsent)
  BY <1>1 DEF Current, Unsent, batch, Discovering
<1> QED  BY <1>1, <1>2, <1>3, <1>4, WithinTurn DEF world, batch, ghosts

LEMMA WorldChangesKeeps ==
    ASSUME IInv, WorldChanges
    PROVE  IInv'
<1>1. /\ pc' = pc /\ pc \in Running /\ pc' \in Running
      /\ UNCHANGED <<conversation, turn, round, stored, messages, registry, batch, seen,
                     discovery, ghosts>>
  BY DEF WorldChanges
<1>2. /\ server' \in Definitions /\ allowed' \subseteq Tool /\ connected' \subseteq Connector
      /\ changes' \in 0 .. MaxChanges
  <2>1. /\ server \in Definitions /\ allowed \subseteq Tool /\ connected \subseteq Connector
        /\ changes \in 0 .. MaxChanges /\ MaxChanges \in Nat
    BY EngineAssumption DEF IInv, RunTypeOK
  <2>2. changes' \in 0 .. MaxChanges
    BY <2>1 DEF WorldChanges
  <2>3. ASSUME NEW t \in Tool, ServerChanges(t) \/ PermissionChanges(t)
        PROVE  /\ server' \in Definitions /\ allowed' \subseteq Tool
               /\ connected' \subseteq Connector
    BY <2>1, <2>3 DEF ServerChanges, PermissionChanges, Definitions
  <2>4. ASSUME NEW c \in Connector, ConnectionChanges(c)
        PROVE  /\ server' \in Definitions /\ allowed' \subseteq Tool
               /\ connected' \subseteq Connector
    BY <2>1, <2>4 DEF ConnectionChanges
  <2> QED  BY <2>2, <2>3, <2>4 DEF WorldChanges
<1>3. RunTypeOK'
  BY <1>1, <1>2 DEF IInv, RunTypeOK, batch, discovery, ghosts
<1>4. PlaceInv'
  BY <1>1, StateFacts DEF PlaceInv, batch, discovery, RoundLeft, Valid, Unchanged
<1>5. Current' = Current /\ (Unsent' <=> Unsent)
  BY <1>1 DEF Current, Unsent, batch
<1> QED  BY <1>1, <1>3, <1>4, <1>5, WithinTurn DEF batch, ghosts

\* The first call of a batch.
LEMMA HeadFacts ==
    ASSUME IInv, pc \in Running, calls # <<>>
    PROVE  /\ Head(calls).id \in Id /\ Head(calls).id \in seen
           /\ Head(calls).id \notin Answered(messages) \cup answers
           /\ pc \notin Discovering => executed[Head(calls).id] = 0
<1>1. calls \in Seq(Call) /\ BatchInv
  BY StateFacts
<1>2. Head(calls) = calls[1] /\ 1 \in DOMAIN calls /\ Head(calls).id \in Id
      /\ Head(calls).id \in Ids(calls)
  BY <1>1, Rest
<1>3. Head(calls).id \in seen /\ Head(calls).id \notin Answered(messages) \cup answers
  BY <1>1, <1>2 DEF BatchInv
<1>4. ASSUME pc \notin Discovering PROVE executed[Head(calls).id] = 0
  <2>1. ~(executed[Head(calls).id] > 0)
    BY <1>2, <1>3, <1>4, StateFacts DEF ExecutedInv, Current
  <2>2. executed[Head(calls).id] \in Nat
    BY <1>2, StateFacts
  <2> QED  BY <2>1, <2>2
<1> QED  BY <1>2, <1>3, <1>4

LEMMA AnswerKeeps ==
    ASSUME IInv, pc \in Running, pc # "model", calls # <<>>, Answer,
           UNCHANGED <<world, turn, stored, offered, seen, ghosts>>,
           registry' \in Definitions, todo' \in Seq(Connector), listed' \in Definitions,
           \A i \in Id : executed[i] > 0 => i \in Answered(messages) \cup answers \cup {Head(calls).id}
    PROVE  IInv'
<1> DEFINE id == Head(calls).id
<1>1. /\ id \in Id /\ id \in seen /\ calls \in Seq(Call) /\ calls # <<>>
      /\ messages \in Seq(Message) /\ answers \subseteq Id /\ answers \subseteq seen
      /\ round \in Nat /\ round + 1 < MaxRounds /\ MaxRounds \in Nat /\ turn < MaxTurns
      /\ BatchInv /\ ~uncertain
  BY StateFacts, HeadFacts, Numbers DEF BatchInv, PlaceInv, RoundLeft, Running
<1>2. \A k \in DOMAIN reserved : /\ reserved[k] <= 1
                                 /\ reserved[k] > 0 =>
                                      k[1] < turn \/ (k[1] = turn /\ k[2] <= round)
  <2>1. \A k \in DOMAIN reserved : k[2] \in Nat
    BY StateFacts, Numbers
  <2>2. ReservedInv
    BY StateFacts
  <2> QED  BY <1>1, <2>1, <2>2 DEF ReservedInv
<1>3. StoredInv' /\ UncertainInv' /\ pc' \in {"call", "model"}
  BY <1>1 DEF Answer, StoredInv, UncertainInv, ghosts
<1>4. pc' \in Running /\ pc' \notin Discovering
  BY <1>3 DEF Running, Discovering
<1>5. CASE Len(calls) > 1
  <2>1. /\ calls' = Tail(calls) /\ answers' = answers \cup {id} /\ pc' = "call"
        /\ UNCHANGED <<round, messages>>
    BY <1>5 DEF Answer
  <2>2. /\ Tail(calls) \in Seq(Call) /\ Tail(calls) # <<>>
        /\ \A i \in DOMAIN Tail(calls) : /\ i + 1 \in DOMAIN calls /\ Tail(calls)[i] = calls[i + 1]
                                         /\ i \in Nat \ {0}
        /\ 1 \in DOMAIN calls /\ id = calls[1].id
    BY <1>1, <1>5, Rest
  <2>3. RunTypeOK'
    BY <1>1, <2>1, <2>2 DEF IInv, RunTypeOK, world, ghosts, Running
  <2>4. PlaceInv'
    BY <1>1, <2>1, <2>2 DEF PlaceInv, Discovering, RoundLeft
  <2>5. BatchInv'
    <3>1. Ids(calls') \subseteq Ids(calls)
      BY <2>1, <2>2 DEF Ids
    <3>2. \A i, j \in DOMAIN calls' : calls'[i].id = calls'[j].id => i = j
      BY <1>1, <1>4, <2>1, <2>2 DEF BatchInv
    <3>3. \A i \in DOMAIN calls' : calls'[i].id \notin Answered(messages) \cup answers \cup {id}
      <4> SUFFICES ASSUME NEW i \in DOMAIN Tail(calls)
                   PROVE  calls[i + 1].id \notin Answered(messages) \cup answers \cup {id}
        BY <2>1, <2>2
      <4>1. i + 1 \in DOMAIN calls /\ i + 1 # 1
        BY <2>2
      <4> QED  BY <1>1, <2>2, <4>1 DEF BatchInv
    <3> QED  BY <1>1, <2>1, <3>1, <3>2, <3>3 DEF BatchInv
  <2>6. ExecutedInv'
    BY <1>1, <1>4, <2>1, StateFacts DEF ExecutedInv, ghosts, Current
  <2>7. ReservedInv'
    <3>1. ~Unsent /\ ~Unsent' /\ pc' \in Running \cup {"idle"} /\ pc \in Running \cup {"idle"}
      BY <1>4, <2>1 DEF Unsent, Discovering
    <3> QED  BY <1>4, <2>1, <3>1, StateFacts DEF ReservedInv, ghosts
  <2> QED  BY <1>3, <2>3, <2>4, <2>5, <2>6, <2>7 DEF IInv
<1>6. CASE ~(Len(calls) > 1)
  <2> DEFINE x == FromUser(answers \cup {id})
  <2>1. /\ calls' = <<>> /\ answers' = {} /\ pc' = "model" /\ round' = round + 1
        /\ messages' = Append(messages, x)
    BY <1>1, <1>6 DEF Answer
  <2>2. x \in Message /\ x.uses = {} /\ x.answers = answers \cup {id}
    BY <1>1, TypesOfMessages
  <2> HIDE DEF x
  <2>3. /\ messages' \in Seq(Message) /\ Used(messages') = Used(messages)
        /\ Answered(messages') = Answered(messages) \cup answers \cup {id}
    <3>1. /\ Append(messages, x) \in Seq(Message)
          /\ Used(Append(messages, x)) = Used(messages) \cup x.uses
          /\ Answered(Append(messages, x)) = Answered(messages) \cup x.answers
      BY <1>1, <2>2, Appended
    <3> QED  BY <2>1, <2>2, <3>1
  <2>4. round' \in 0 .. MaxRounds - 1
    BY <1>1, <2>1
  <2>5. RunTypeOK'
    BY <1>4, <2>1, <2>3, <2>4 DEF IInv, RunTypeOK, world, ghosts
  <2>6. PlaceInv'
    BY <1>1, <2>1 DEF PlaceInv, Discovering
  <2>7. BatchInv'
    <3>1. Ids(<<>>) = {} /\ DOMAIN <<>> = {}
      BY DEF Ids
    <3> QED  BY <1>1, <2>1, <2>3, <3>1 DEF BatchInv
  <2>8. ExecutedInv'
    BY <1>4, <2>1, <2>3, StateFacts DEF ExecutedInv, ghosts, Current
  <2>9. ReservedInv'
    <3>1. \A k \in DOMAIN reserved : k[2] \in Nat
      BY StateFacts, Numbers
    <3> QED  BY <1>1, <1>2, <1>4, <2>1, <3>1 DEF ReservedInv, ghosts
  <2> QED  BY <1>3, <2>5, <2>6, <2>7, <2>8, <2>9 DEF IInv
<1> QED  BY <1>5, <1>6

LEMMA RefuseKeeps ==
    ASSUME IInv, Refuse
    PROVE  IInv'
<1>1. /\ pc = "call" /\ pc \in Running /\ pc # "model" /\ calls # <<>> /\ pc \notin Discovering
  BY StateFacts DEF Refuse, Running, PlaceInv, Discovering
<1>2. \A i \in Id : executed[i] > 0 => i \in Answered(messages) \cup answers
  BY <1>1, StateFacts DEF ExecutedInv, Current
<1>3. /\ Answer /\ UNCHANGED <<world, turn, stored, offered, seen, ghosts>>
      /\ registry' = registry /\ todo' = todo /\ listed' = listed
  BY DEF Refuse, discovery
<1>4. registry' \in Definitions /\ todo' \in Seq(Connector) /\ listed' \in Definitions
  BY <1>3, StateFacts
<1> QED  BY <1>1, <1>2, <1>3, <1>4, AnswerKeeps

LEMMA GrantKeeps ==
    ASSUME IInv, Grant
    PROVE  IInv'
<1>1. /\ pc = "grant" /\ pc \in Running /\ pc # "model" /\ todo # <<>> /\ todo \in Seq(Connector)
  BY StateFacts DEF Grant, Running, PlaceInv, Discovering
<1>2. /\ registry' = Replaced(Head(todo)) /\ todo' = Tail(todo) /\ listed' = Nothing
      /\ UNCHANGED <<world, turn, stored, offered, seen, ghosts>>
  BY DEF Grant
<1>3. registry' \in Definitions
  <2>1. registry \in Definitions /\ listed \in Definitions /\ Gone \in Gone .. MaxVersion
    BY StateFacts, Numbers DEF Gone
  <2>2. Granted \in Definitions
    BY <2>1 DEF Granted, Definitions
  <2> QED  BY <1>2, <2>1, <2>2 DEF Replaced, Definitions
<1>4. todo' \in Seq(Connector) /\ listed' \in Definitions /\ (Len(todo) > 1 => todo' # <<>>)
  <2>1. /\ Tail(todo) \in Seq(Connector) /\ Len(Tail(todo)) = Len(todo) - 1
        /\ Len(todo) \in Nat
    BY <1>1, HeadTailProperties
  <2>2. Len(todo) > 1 => Tail(todo) # <<>>
    <3>1. Tail(todo) = <<>> => Len(Tail(todo)) = 0
      BY EmptySeq
    <3> QED  BY <2>1, <3>1
  <2>3. listed' \in Definitions
    BY <1>2, Numbers
  <2> QED  BY <1>2, <2>1, <2>2, <2>3
<1>5. CASE calls # <<>>
  <2>1. \A i \in Id : executed[i] > 0 => i \in Answered(messages) \cup answers \cup {Head(calls).id}
    BY <1>1, <1>5, StateFacts DEF ExecutedInv, Current
  <2>2. Answer
    BY <1>5 DEF Grant
  <2> QED  BY <1>1, <1>2, <1>3, <1>4, <1>5, <2>1, <2>2, AnswerKeeps
<1>6. CASE calls = <<>>
  <2>1. /\ pc' = IF Len(todo) > 1 THEN "discover" ELSE "model"
        /\ UNCHANGED <<round, messages, calls, answers>>
    BY <1>6 DEF Grant
  <2>2. pc' \in Running /\ pc' \notin {"call", "send", "list", "grant"}
    BY <2>1 DEF Running
  <2>3. RunTypeOK'
    BY <1>2, <1>3, <1>4, <2>1, <2>2 DEF IInv, RunTypeOK, world, ghosts
  <2>4. PlaceInv'
    BY <1>1, <1>4, <1>6, <1>2, <2>1, StateFacts DEF PlaceInv, Discovering, RoundLeft
  <2>5. Current' = Current /\ (Unsent' <=> Unsent)
    BY <1>1, <1>6, <2>1 DEF Current, Unsent, Discovering
  <2> QED  BY <1>1, <1>2, <2>1, <2>2, <2>3, <2>4, <2>5, WithinTurn DEF world, ghosts
<1> QED  BY <1>5, <1>6

LEMMA ExecuteKeeps ==
    ASSUME IInv, Execute
    PROVE  IInv'
<1> DEFINE id == Head(calls).id
<1>1. /\ pc = "send" /\ pc \in Running /\ calls # <<>> /\ calls \in Seq(Call)
      /\ pc \notin Discovering /\ Valid(Head(calls)) /\ turn < MaxTurns /\ RoundLeft
      /\ executed \in [Id -> Nat]
  BY StateFacts DEF Execute, Running, PlaceInv, Discovering
<1>2. id \in Id /\ executed[id] = 0
  BY <1>1, HeadFacts
<1>3. /\ pc' = "discover" /\ todo' = <<ConnectorOf[Head(calls).name]>>
      /\ executed' = [executed EXCEPT ![id] = @ + 1]
      /\ UNCHANGED <<world, turn, round, stored, messages, registry, batch, seen, listed, told,
                     reserved, uncertain>>
  BY DEF Execute, Executed
<1>4. pc' \in Running /\ pc' \in Discovering
  BY <1>3 DEF Running, Discovering
<1>5. executed' \in [Id -> Nat] /\ \A i \in Id : executed'[i] = IF i = id THEN 1 ELSE executed[i]
  BY <1>1, <1>2, <1>3
<1>6. todo' \in Seq(Connector) /\ todo' # <<>>
  <2>1. ConnectorOf[Head(calls).name] \in Connector
    BY <1>1, Numbers DEF Valid
  <2> QED  BY <1>3, <2>1
<1>7. RunTypeOK'
  BY <1>3, <1>4, <1>5, <1>6 DEF IInv, RunTypeOK, world, batch
<1>8. PlaceInv'
  BY <1>1, <1>3, <1>6, StateFacts DEF PlaceInv, batch, RoundLeft
<1>9. BatchInv'
  BY <1>1, <1>3, StateFacts DEF BatchInv, batch
<1>10. ExecutedInv'
  <2>1. Current' = {id}
    BY <1>1, <1>3, <1>4 DEF Current, batch
  <2>2. \A i \in Id : executed[i] <= 1 /\ (executed[i] > 0 => i \in Answered(messages) \cup answers)
    BY <1>1, StateFacts DEF ExecutedInv, Current
  <2> QED  BY <1>3, <1>4, <1>5, <2>1, <2>2 DEF ExecutedInv, batch, Running
<1>11. StoredInv' /\ UncertainInv'
  BY <1>1, <1>3, StateFacts DEF StoredInv, UncertainInv
<1>12. ReservedInv'
  <2>1. ~Unsent /\ ~Unsent'
    BY <1>1, <1>3, <1>4 DEF Unsent, Discovering, batch
  <2> QED  BY <1>1, <1>3, <1>4, <2>1, StateFacts DEF ReservedInv
<1> QED  BY <1>7, <1>8, <1>9, <1>10, <1>11, <1>12 DEF IInv

LEMMA StartKeeps ==
    ASSUME IInv, Start
    PROVE  IInv'
<1> DEFINE x == FromUser({})
<1>1. /\ pc = "idle" /\ turn < MaxTurns /\ ~uncertain /\ stored \in Seq(Message)
  BY StateFacts DEF Start
<1>2. CASE ~(((turn = 0) <=> (stored = <<>>)) /\ Complete(stored))
  <2>1. /\ "failed" \in Ended \ {"completed"} /\ End("failed") /\ UNCHANGED <<world, ghosts>>
        /\ uncertain \in BOOLEAN
    BY <1>2, StateFacts DEF Start, Ended
  <2> QED  BY <1>1, <2>1, EndQuietly DEF ghosts
<1>3. CASE ((turn = 0) <=> (stored = <<>>)) /\ Complete(stored)
  <2>1. /\ pc' = IF Connectors = <<>> THEN "model" ELSE "discover"
        /\ round' = 0 /\ messages' = Append(stored, x) /\ seen' = Used(stored)
        /\ registry' = Nothing /\ todo' = Connectors
        /\ UNCHANGED <<turn, stored, batch, listed, world, ghosts>>
    BY <1>3 DEF Start, KnownCalls, Used
  <2>2. x \in Message /\ x.uses = {} /\ x.answers = {}
    BY TypesOfMessages
  <2> HIDE DEF x
  <2>3. /\ messages' \in Seq(Message) /\ Used(messages') = Used(stored)
        /\ Answered(messages') = Answered(stored)
    <3>1. /\ Append(stored, x) \in Seq(Message)
          /\ Used(Append(stored, x)) = Used(stored) \cup x.uses
          /\ Answered(Append(stored, x)) = Answered(stored) \cup x.answers
      BY <1>1, <2>2, Appended
    <3> QED  BY <2>1, <2>2, <3>1
  <2>4. Used(stored) = Answered(stored) /\ Used(stored) \subseteq Id
    BY <1>1, <1>3, CompleteFacts, IdsOfTranscript
  <2>5. pc' \in Running /\ pc' \notin {"call", "send", "idle", "completed", "unknown"}
    BY <2>1 DEF Running
  <2>6. RunTypeOK'
    BY <2>1, <2>3, <2>4, <2>5, Numbers DEF IInv, RunTypeOK, world, batch, ghosts
  <2>7. calls = <<>> /\ answers = {}
    BY <1>1, StateFacts DEF PlaceInv
  <2>8. PlaceInv'
    BY <1>1, <2>1, <2>5, <2>7 DEF PlaceInv, batch, Discovering
  <2>9. BatchInv'
    <3>1. Ids(<<>>) = {} /\ DOMAIN <<>> = {}
      BY DEF Ids
    <3> QED  BY <2>1, <2>3, <2>4, <2>7, <3>1 DEF BatchInv, batch
  <2>10. ExecutedInv'
    <3>1. \A i \in Id : executed[i] <= 1 /\ (executed[i] > 0 => i \in Used(stored))
      BY <1>1, StateFacts DEF ExecutedInv
    <3> QED  BY <2>1, <2>3, <2>4, <2>5, <3>1 DEF ExecutedInv, ghosts
  <2>11. StoredInv' /\ UncertainInv'
    BY <1>1, <2>1, <2>5 DEF StoredInv, UncertainInv, ghosts
  <2>12. ReservedInv'
    <3>1. \A k \in DOMAIN reserved : reserved[k] <= 1 /\ (reserved[k] > 0 => k[1] < turn)
      <4>1. ReservedInv /\ pc \notin Running
        BY <1>1, StateFacts DEF Running
      <4> QED  BY <1>1, <4>1 DEF ReservedInv
    <3> QED  BY <2>1, <3>1 DEF ReservedInv, ghosts
  <2> QED  BY <2>6, <2>8, <2>9, <2>10, <2>11, <2>12 DEF IInv
<1> QED  BY <1>2, <1>3

LEMMA BatchKeeps ==
    ASSUME IInv, NEW cs \in SeqOf(Call, MaxBatch) \ {<<>>}, Batch(cs)
    PROVE  IInv'
<1>1. Request /\ UNCHANGED <<world, executed, uncertain>>
  BY DEF Batch
<1>2. CASE ~RoundLeft
  BY <1>1, <1>2, RequestEnds DEF Batch
<1>3. CASE RoundLeft /\ ~Fresh(cs)
  BY <1>1, <1>3, RequestEnds DEF Batch
<1>4. CASE RoundLeft /\ Fresh(cs)
  <2>1. /\ cs \in Seq(Call) /\ cs # <<>> /\ Ids(cs) \subseteq Id
        /\ \A i, j \in DOMAIN cs : cs[i].id = cs[j].id => i = j
    BY <1>4, BatchFacts
  <2>2. /\ pc = "model" /\ calls = <<>> /\ answers = {} /\ turn \in 0 .. MaxTurns - 1
        /\ turn < MaxTurns /\ turn \in 0 .. MaxTurns
        /\ messages \in Seq(Message) /\ Answered(messages) \subseteq Used(messages)
        /\ seen = Used(messages) /\ ~uncertain /\ round \in Nat /\ round + 1 < MaxRounds
    BY <1>1, <1>4, StateFacts, RequestFacts, Numbers DEF RoundLeft
  <2>3. \A i \in Id : executed[i] <= 1 /\ (executed[i] > 0 => i \in Answered(messages))
    BY <1>1, StateFacts, RequestFacts
  <2>4. /\ DOMAIN reserved' = DOMAIN reserved
        /\ \A k \in DOMAIN reserved : /\ reserved'[k] <= 1 /\ k[2] \in Nat
                                      /\ reserved'[k] > 0 =>
                                           k[1] < turn \/ (k[1] = turn /\ k[2] <= round)
    BY <1>1, StateFacts, RequestFacts, Numbers
  <2>5. reserved' \in [(0 .. MaxTurns - 1) \X (0 .. MaxRounds - 1) -> Nat]
    BY <1>1, StateFacts, RequestFacts
  <2>6. /\ seen' = seen \cup Ids(cs)
        /\ UNCHANGED <<turn, stored, registry, answers, discovery>>
    BY <1>4 DEF Batch
  <2>7. told' \subseteq Id /\ seen' \subseteq Id
    BY <1>1, <2>1, <2>6, StateFacts, RequestFacts
  <2> DEFINE used == FromModel(cs)
             given == FromUser(Ids(cs))
             m == Append(messages, used)
  <2>8. /\ used \in Message /\ used.uses = Ids(cs) /\ used.answers = {}
        /\ given \in Message /\ given.uses = {} /\ given.answers = Ids(cs)
    BY <2>1, TypesOfMessages
  <2> HIDE DEF used, given
  <2>9. m \in Seq(Message) /\ Used(m) = Used(messages) \cup Ids(cs) /\ Answered(m) = Answered(messages)
    <3>1. /\ Append(messages, used) \in Seq(Message)
          /\ Used(Append(messages, used)) = Used(messages) \cup used.uses
          /\ Answered(Append(messages, used)) = Answered(messages) \cup used.answers
      BY <2>2, <2>8, Appended
    <3> QED  BY <2>8, <3>1
  <2>10. CASE Mixed(cs)
    <3>1. /\ messages' = messages \o <<used, given>> /\ round' = round + 1
          /\ UNCHANGED <<pc, calls, offered>>
      BY <1>4, <2>10 DEF Batch, used, given
    <3>2. messages' = Append(m, given)
      BY <2>2, <2>8, <3>1
    <3> HIDE DEF m
    <3>3. /\ Append(m, given) \in Seq(Message)
          /\ Used(Append(m, given)) = Used(m) \cup given.uses
          /\ Answered(Append(m, given)) = Answered(m) \cup given.answers
      BY <2>8, <2>9, Appended
    <3>4. /\ messages' \in Seq(Message) /\ Used(messages') = Used(messages) \cup Ids(cs)
          /\ Answered(messages') = Answered(messages) \cup Ids(cs)
      BY <2>8, <2>9, <3>2, <3>3
    <3>5. round' \in 0 .. MaxRounds - 1
      BY <2>2, <3>1, Numbers
    <3>6. RunTypeOK'
      BY <1>1, <2>5, <2>6, <2>7, <3>1, <3>4, <3>5 DEF IInv, RunTypeOK, world, discovery
    <3>7. PlaceInv'
      BY <2>2, <2>6, <3>1 DEF PlaceInv, Discovering
    <3>8. BatchInv'
      <4>1. Ids(<<>>) = {} /\ DOMAIN <<>> = {}
        BY DEF Ids
      <4> QED  BY <2>2, <2>6, <3>1, <3>4, <4>1 DEF BatchInv
    <3>9. ExecutedInv' /\ StoredInv' /\ UncertainInv'
      BY <1>1, <2>2, <2>3, <3>1, <3>4 DEF ExecutedInv, StoredInv, UncertainInv
    <3>10. ReservedInv'
      BY <2>2, <2>4, <2>6, <3>1 DEF ReservedInv, Running
    <3> QED  BY <3>6, <3>7, <3>8, <3>9, <3>10 DEF IInv
  <2>11. CASE ~Mixed(cs)
    <3>1. /\ messages' = m /\ calls' = cs /\ offered' = registry /\ pc' = "call" /\ round' = round
      BY <1>4, <2>11 DEF Batch, used, m
    <3> HIDE DEF m
    <3>2. pc' \in Running /\ pc' \notin Discovering
      BY <3>1 DEF Running, Discovering
    <3>3. RunTypeOK'
      BY <1>1, <2>1, <2>5, <2>6, <2>7, <2>9, <3>1, <3>2 DEF IInv, RunTypeOK, world, discovery
    <3>4. PlaceInv'
      BY <2>1, <2>2, <2>6, <3>1 DEF PlaceInv, Discovering, RoundLeft
    <3>5. BatchInv'
      <4>1. \A i \in DOMAIN cs : cs[i].id \in Ids(cs)
        BY DEF Ids
      <4>2. \A i \in DOMAIN cs : cs[i].id \notin Answered(messages)
        BY <1>4, <2>2, <4>1 DEF Fresh
      <4> QED  BY <2>1, <2>2, <2>6, <2>9, <3>1, <4>2 DEF BatchInv
    <3>6. ExecutedInv' /\ StoredInv' /\ UncertainInv'
      BY <1>1, <2>2, <2>3, <2>9, <3>1, <3>2 DEF ExecutedInv, StoredInv, UncertainInv
    <3>7. ReservedInv'
      <4>1. ~Unsent'
        BY <3>1, <3>2 DEF Unsent
      <4> QED  BY <2>2, <2>4, <2>6, <3>1, <3>2, <4>1 DEF ReservedInv
    <3> QED  BY <3>3, <3>4, <3>5, <3>6, <3>7 DEF IInv
  <2> QED  BY <2>10, <2>11
<1> QED  BY <1>2, <1>3, <1>4

-----------------------------------------------------------------------------
(* The invariant holds. *)

LEMMA InitIInv == Init => IInv
<1> SUFFICES ASSUME Init PROVE IInv
  OBVIOUS
<1>1. /\ pc = "idle" /\ turn = 0 /\ round = 0 /\ stored = <<>> /\ messages = <<>>
      /\ registry = Nothing /\ offered = Nothing /\ calls = <<>> /\ answers = {} /\ seen = {}
      /\ todo = <<>> /\ listed = Nothing /\ executed = [i \in Id |-> 0] /\ told = {}
      /\ uncertain = FALSE /\ allowed \subseteq Tool /\ connected = Connector /\ changes = 0
      /\ conversation \in BOOLEAN
  BY DEF Init
<1>2. reserved = [k \in (0 .. MaxTurns - 1) \X (0 .. MaxRounds - 1) |-> 0]
  BY DEF Init
<1>3. server \in Definitions
  <2>1. {Gone, 1} \subseteq Gone .. MaxVersion
    BY Numbers DEF Gone
  <2> QED  BY <2>1 DEF Init, Definitions
<1>4. RunTypeOK
  <2>1. /\ changes \in 0 .. MaxChanges /\ turn \in 0 .. MaxTurns /\ round \in 0 .. MaxRounds - 1
    BY <1>1, EngineAssumption
  <2>2. executed \in [Id -> Nat]
    BY <1>1
  <2>3. reserved \in [(0 .. MaxTurns - 1) \X (0 .. MaxRounds - 1) -> Nat]
    <3> DEFINE D == (0 .. MaxTurns - 1) \X (0 .. MaxRounds - 1)
    <3>1. reserved = [k \in D |-> 0]
      BY <1>2
    <3> HIDE DEF D
    <3>2. reserved \in [D -> Nat]
      BY <3>1
    <3> QED  BY <3>2 DEF D
  <2>4. stored \in Seq(Message) /\ messages \in Seq(Message) /\ calls \in Seq(Call)
    BY <1>1, EmptySeq
  <2>5. todo \in Seq(Connector)
    BY <1>1, EmptySeq
  <2>6. /\ registry \in Definitions /\ offered \in Definitions /\ listed \in Definitions
        /\ allowed \subseteq Tool /\ connected \subseteq Connector
    BY <1>1, Numbers
  <2>7. /\ pc \in Running \cup Ended \cup {"idle"} /\ answers \subseteq Id /\ seen \subseteq Id
        /\ told \subseteq Id /\ uncertain \in BOOLEAN /\ conversation \in BOOLEAN
    BY <1>1
  <2> QED  BY <1>3, <2>1, <2>2, <2>3, <2>4, <2>5, <2>6, <2>7 DEF RunTypeOK
<1>5. PlaceInv /\ BatchInv /\ UncertainInv
  BY <1>1 DEF PlaceInv, BatchInv, UncertainInv, Discovering, Running
<1>6. ExecutedInv
  BY <1>1 DEF ExecutedInv
<1>7. StoredInv
  BY <1>1, EmptyTranscript, EngineAssumption
     DEF StoredInv, Complete, Bounded, Pending, Used, Answered
<1>8. ReservedInv
  BY <1>2 DEF ReservedInv
<1> QED  BY <1>4, <1>5, <1>6, <1>7, <1>8 DEF IInv

LEMMA StutterKeeps ==
    ASSUME IInv, UNCHANGED vars
    PROVE  IInv'
  BY DEF vars, world, batch, discovery, ghosts, IInv, RunTypeOK, PlaceInv, BatchInv, ExecutedInv,
         StoredInv, ReservedInv, UncertainInv, Current, Unsent, Valid, Unchanged, RoundLeft

LEMMA NextKeeps ==
    ASSUME IInv, [Next]_vars
    PROVE  IInv'
  BY StartKeeps, DiscoverKeeps, ListKeeps, GrantKeeps, DiscoveryFailsKeeps, ModelFailsKeeps,
     FinishKeeps, AskKeeps, BatchKeeps, RefuseKeeps, PermitKeeps, ExecuteKeeps, LoseCallKeeps,
     WorldChangesKeeps, InterruptKeeps, StutterKeeps DEF Next

THEOREM Inductive == Spec => []IInv
<1>1. IInv /\ [Next]_vars => IInv'
  BY NextKeeps
<1> QED  BY InitIInv, <1>1, PTL DEF Spec

-----------------------------------------------------------------------------
(* What the model was shown.  The tools of the next request are the registry, *)
(* and the registry is what the servers last listed, less what the owner      *)
(* forbids.  A batch therefore compares the registry with what was shown.     *)

\* A definition in the registry is the latest its server listed, unless that
\* list is still on its way to it.
RegistryFollows ==
    pc \in Running =>
        \A t \in Tool :
            IF pc = "grant" /\ t \in ToolsOf(Head(todo))
               THEN listed[t] = latest[t]
               ELSE registry[t] \in {Gone, latest[t]}

ShownInv ==
    /\ ToolsTypeOK
    /\ tools = registry
    /\ calls # <<>> => offered = shown
    /\ RegistryFollows

\* A run ends; a request may have been its last step.
LEMMA EndShown ==
    ASSUME ShownInv, UNCHANGED <<tools, registry, latest>>, shown' \in {shown, tools},
           pc' \notin Running, calls' = <<>>
    PROVE  ShownInv'
  BY DEF ShownInv, ToolsTypeOK, RegistryFollows

\* A step that neither lists nor requests anything.
LEMMA QuietShown ==
    ASSUME ShownInv, UNCHANGED <<tools, registry, offered, shown, latest>>,
           calls' # <<>> => calls # <<>>, pc \in Running,
           \/ pc # "grant" /\ pc' # "grant"
           \/ UNCHANGED <<pc, todo, listed>>
    PROVE  ShownInv'
<1>1. ToolsTypeOK' /\ tools' = registry' /\ (calls' # <<>> => offered' = shown')
  BY DEF ShownInv, ToolsTypeOK
<1>2. RegistryFollows'
  BY DEF ShownInv, RegistryFollows
<1> QED  BY <1>1, <1>2 DEF ShownInv

LEMMA StartShown ==
    ASSUME IInv, ShownInv, Start
    PROVE  ShownInv'
<1>1. CASE End("failed")
  BY <1>1, EndShown DEF Start, End, ghosts, Running
<1>2. CASE registry' = Nothing /\ tools' = Nothing /\ UNCHANGED <<batch, ghosts>> /\ pc' # "grant"
  <2>1. calls' = <<>>
    BY <1>2, StateFacts DEF Start, PlaceInv, batch
  <2> QED
    BY <1>2, <2>1, Numbers DEF ShownInv, ToolsTypeOK, RegistryFollows, Nothing, ghosts
<1> QED  BY <1>1, <1>2 DEF Start

LEMMA ListShown ==
    ASSUME IInv, ShownInv, List
    PROVE  ShownInv'
<1>1. /\ UNCHANGED <<tools, registry, offered, shown, calls, todo>> /\ pc = "list" /\ pc' = "grant"
      /\ \A t \in Tool :
            IF t \in ToolsOf(Head(todo)) THEN listed'[t] = server[t] /\ latest'[t] = server[t]
                                         ELSE latest'[t] = latest[t]
  BY DEF List, batch
<1>2. latest' \in Definitions
  <2>1. server \in Definitions /\ latest \in Definitions
    BY DEF IInv, RunTypeOK, ShownInv, ToolsTypeOK
  <2> QED  BY <2>1 DEF List, Definitions
<1>3. RegistryFollows'
  BY <1>1 DEF ShownInv, RegistryFollows, Running
<1> QED  BY <1>1, <1>2, <1>3 DEF ShownInv, ToolsTypeOK

LEMMA GrantShown ==
    ASSUME IInv, ShownInv, Grant
    PROVE  ShownInv'
<1>1. /\ pc = "grant" /\ registry' = Replaced(Head(todo)) /\ tools' = registry'
      /\ UNCHANGED <<offered, shown, latest>>
  BY DEF Grant, ghosts
<1>2. pc' # "grant" /\ (calls' # <<>> => calls # <<>>)
  BY <1>1 DEF Grant, Answer
<1>3. \A t \in Tool : registry'[t] \in {Gone, latest[t]}
  BY <1>1 DEF ShownInv, RegistryFollows, Running, Replaced, Granted
<1>4. RegistryFollows'
  BY <1>1, <1>2, <1>3 DEF RegistryFollows
<1>5. registry' \in Definitions
  <2>1. registry \in Definitions /\ listed \in Definitions /\ Gone \in Gone .. MaxVersion
    BY StateFacts, Numbers DEF Gone
  <2>2. Granted \in Definitions
    BY <2>1 DEF Granted, Definitions
  <2> QED  BY <1>1, <2>1, <2>2 DEF Replaced, Definitions
<1> QED  BY <1>1, <1>2, <1>4, <1>5 DEF ShownInv, ToolsTypeOK

LEMMA BatchShown ==
    ASSUME IInv, ShownInv, NEW cs \in SeqOf(Call, MaxBatch) \ {<<>>}, Batch(cs)
    PROVE  ShownInv'
<1>1. pc = "model" /\ calls = <<>> /\ shown' = tools /\ latest' = latest
  BY RequestFacts DEF Batch, Request
<1>2. CASE End("limit") \/ End("failed")
  BY <1>1, <1>2, EndShown DEF End, Running
<1>3. CASE /\ UNCHANGED <<registry, tools>>
           /\ \/ UNCHANGED <<pc, calls>>
              \/ offered' = registry /\ pc' = "call"
  BY <1>1, <1>3 DEF ShownInv, ToolsTypeOK, RegistryFollows, Running
<1> QED  BY <1>2, <1>3 DEF Batch

LEMMA ConcludeShown ==
    ASSUME IInv, ShownInv, Request, latest' = latest,
           \/ \E outcome \in Ended : End(outcome)
           \/ \E outcome \in {"completed", "idle"} : Conclude(outcome)
    PROVE  ShownInv'
<1>1. calls = <<>> /\ shown' = tools
  BY RequestFacts DEF Request
<1>2. ASSUME NEW outcome \in Ended, End(outcome) PROVE ShownInv'
  BY <1>1, <1>2, EndShown DEF End, Ended, Running
<1>3. ASSUME NEW outcome \in {"completed", "idle"}, Conclude(outcome) PROVE ShownInv'
  <2>1. CASE End(outcome) /\ ~conversation
    BY <1>1, <2>1, EndShown DEF End, Running
  <2>2. CASE End("failed")
    BY <1>2, <2>2 DEF Ended
  <2>3. CASE pc' = outcome /\ UNCHANGED <<registry, tools, calls>>
    BY <1>1, <2>3, EndShown DEF Running
  <2> QED  BY <1>3, <2>1, <2>2, <2>3 DEF Conclude
<1> QED  BY <1>2, <1>3

LEMMA NextShown ==
    ASSUME IInv, ShownInv, [Next]_vars
    PROVE  ShownInv'
<1>1. CASE UNCHANGED vars
  BY <1>1 DEF vars, batch, discovery, ghosts, ShownInv, ToolsTypeOK, RegistryFollows
<1>2. ASSUME Discover PROVE ShownInv'
  BY <1>2, QuietShown DEF Discover, batch, ghosts, Running
<1>3. ASSUME DiscoveryFails \/ LoseCall \/ Interrupt PROVE ShownInv'
  BY <1>3, EndShown DEF DiscoveryFails, LoseCall, Unanswered, Interrupt, End, ghosts, Running
<1>4. ASSUME ModelFails PROVE ShownInv'
  BY <1>4, EndShown DEF ModelFails, Request, End, Running
<1>5. ASSUME Finish PROVE ShownInv'
  BY <1>5, ConcludeShown DEF Finish
<1>6. ASSUME NEW call \in Call, Ask(call) PROVE ShownInv'
  BY <1>6, ConcludeShown DEF Ask, Ended
<1>7. ASSUME Refuse PROVE ShownInv'
  BY <1>7, QuietShown, StateFacts DEF Refuse, Answer, ghosts, Running, PlaceInv
<1>8. ASSUME Permit \/ Execute PROVE ShownInv'
  BY <1>8, QuietShown DEF Permit, Execute, batch, ghosts, Running
<1>9. ASSUME WorldChanges PROVE ShownInv'
  BY <1>9, QuietShown DEF WorldChanges, batch, discovery, ghosts
<1> QED
  BY <1>1, <1>2, <1>3, <1>4, <1>5, <1>6, <1>7, <1>8, <1>9, StartShown, ListShown, GrantShown,
     BatchShown DEF Next

THEOREM InductiveShown == Spec => []ShownInv
<1>1. Init => ShownInv
  BY Numbers DEF Init, ShownInv, ToolsTypeOK, RegistryFollows, Running
<1>2. IInv /\ ShownInv /\ [Next]_vars => ShownInv'
  BY NextShown
<1> QED  BY Inductive, <1>1, <1>2, PTL DEF Spec

-----------------------------------------------------------------------------
(* What it means for the code. *)

\* The state of a run keeps its shape, and a run never goes beyond its turns
\* (Engine::run, src/engine.rs).
THEOREM TypeCorrect == Spec => []TypeOK
<1>1. IInv /\ ShownInv => TypeOK
  BY DEF IInv, ShownInv, TypeOK
<1> QED  BY Inductive, InductiveShown, <1>1, PTL

\* A call is sent with the definition that the model's last request contained
\* and its server's last list still has, whatever the calls before it, the
\* servers and the owner changed (Engine::run compares the definitions).
THEOREM ShownIsSent == Spec => []SendsWhatWasShown
<1>1. ASSUME IInv, ShownInv, pc = "send"
      PROVE  LET t == Head(calls).name IN shown[t] # Gone /\ shown[t] = latest[t]
  <2> DEFINE t == Head(calls).name
  <2>1. calls # <<>> /\ t \in Tool /\ registry[t] # Gone /\ offered[t] = registry[t]
    BY <1>1, StateFacts DEF PlaceInv, Valid, Unchanged
  <2>2. offered = shown /\ registry[t] \in {Gone, latest[t]}
    BY <1>1, <2>1 DEF ShownInv, RegistryFollows, Running
  <2> QED  BY <2>1, <2>2
<1>2. IInv /\ ShownInv => SendsWhatWasShown
  BY <1>1 DEF SendsWhatWasShown
<1> QED  BY Inductive, InductiveShown, <1>2, PTL

\* No identifier reaches a server twice, whatever identifiers the model repeats
\* in whatever turn: seen_tool_calls starts with those of the transcript.
THEOREM NothingTwice == Spec => []ExecutedOnce
<1>1. IInv => ExecutedOnce
  BY DEF IInv, ExecutedInv, ExecutedOnce
<1> QED  BY Inductive, <1>1, PTL

\* The transcript a conversation waits with is accepted by the next run
\* (validate_checkpoint) and has the result of every action.
THEOREM ActionsAreKept == Spec => []CheckpointKeepsActions
<1>1. ASSUME IInv, conversation, pc \in {"idle", "completed"}
      PROVE  /\ Complete(stored)
             /\ \A i \in Id : executed[i] > 0 => i \in Answered(stored)
  <2>1. Complete(stored) /\ stored \in Seq(Message)
    BY <1>1, StateFacts DEF StoredInv
  <2>2. \A i \in Id : executed[i] > 0 => i \in Used(stored)
    BY <1>1, StateFacts DEF ExecutedInv
  <2> QED  BY <2>1, <2>2, CompleteFacts
<1>2. IInv => CheckpointKeepsActions
  BY <1>1 DEF CheckpointKeepsActions, Answered
<1> QED  BY Inductive, <1>2, PTL

\* A task that is answered, or waits for its user, has told the model the result
\* of every action, and no run ends because its last turn had calls.
THEOREM ResultsAreTold == Spec => []NothingUnreported
<1>1. ASSUME IInv PROVE NothingUnreported
  <2>1. round # MaxRounds
    BY <1>1, StateFacts, Numbers
  <2> QED  BY <1>1, <2>1, StateFacts DEF ExecutedInv, NothingUnreported
<1> QED  BY Inductive, <1>1, PTL

\* Every request of a conversation has a reservation of its own: its identifier
\* has the turn of the conversation and that of the loop.
THEOREM EachRequestIsReserved == Spec => []ReservedOnce
<1>1. IInv => ReservedOnce
  BY DEF IInv, ReservedInv, ReservedOnce
<1> QED  BY Inductive, <1>1, PTL

\* Once an action's outcome is unknown the task acts no more.
THEOREM UncertainIsFinal == Spec => UncertaintyStops
<1>1. ASSUME IInv, Next PROVE ~uncertain
  <2>1. pc # "unknown"
    BY <1>1 DEF Next, Start, Discover, List, Grant, DiscoveryFails, ModelFails, Finish, Ask, Batch,
                Request, Refuse, Permit, Execute, LoseCall, WorldChanges, Interrupt, Running
  <2> QED  BY <1>1, <2>1, StateFacts
<1>2. IInv /\ [Next]_vars => [uncertain => UNCHANGED <<executed, reserved, stored>>]_vars
  BY <1>1
<1> QED  BY Inductive, <1>2, PTL DEF Spec, UncertaintyStops
=============================================================================
