------------------------------- MODULE Engine -------------------------------
(***************************************************************************)
(* The model and tool loop of one task (src/engine.rs, Engine::run;        *)
(* src/worker.rs, Executor): requests to the model, batches of tool calls  *)
(* with their rediscovery, and the transcript a conversation resumes from. *)
(* MCP servers change their tools and the owner the permissions while it   *)
(* runs.  Budget.tla has the ledger behind a reservation, Tasks.tla the    *)
(* row that the outcome of a run is written to.                            *)
(***************************************************************************)
EXTENDS Integers, Sequences, FiniteSets, SequencesExt

CONSTANTS
    Tool,
    Connectors,   \* the connectors of the task's skills in the order of their ids
    ConnectorOf,  \* the connector of each tool; an alias names one tool of one
    Id,           \* identifiers the model gives to its calls
    MaxRounds,    \* EngineConfig.max_turns: model requests of one run
    MaxMessages,  \* MAX_CHECKPOINT_MESSAGES; stands for the limits in bytes too
    MaxBatch,     \* bound: calls of one response
    MaxTurns,     \* bound: turns of the conversation
    MaxVersion,   \* bound: definitions a tool may have
    MaxChanges    \* bound: changes by servers and the owner

ASSUME EngineAssumption ==
    /\ Connectors \in Seq(Range(Connectors)) /\ ConnectorOf \in [Tool -> Range(Connectors)]
    /\ {MaxRounds, MaxMessages, MaxBatch, MaxTurns, MaxVersion, MaxChanges} \subseteq Nat \ {0}

VARIABLES
    server,       \* the definition each tool has on its MCP server, Gone if none
    allowed,      \* tools the owner permits
    connected,    \* connectors whose connection is connected
    changes,      \* how often the three above changed
    conversation, \* an A2A task; otherwise one from the API
    pc,
    turn,         \* A2aTaskData.turn
    round,        \* turn, the counter of the loop of Engine::run
    stored,       \* A2aTaskData.engine_history
    messages,     \* ModelRequest.messages
    registry,     \* PreparedTools: the definitions known to this run
    tools,        \* ModelRequest.tools: the definitions the next request shows
    offered,      \* the definitions in the request the current batch answers
    calls,        \* calls of the batch that are still to handle
    answers,      \* tool_results: identifiers answered in this batch
    seen,         \* seen_tool_calls
    todo,         \* connectors to discover
    listed,       \* answer of tools/list on its way through refresh_tools
    \* What happened outside, to state properties with:
    executed,     \* how often each identifier reached a server
    told,         \* identifiers whose result a model request contained
    shown,        \* the definitions the last model request contained
    latest,       \* the last answer of each tool's server to tools/list
    reserved,     \* how often each reservation id was reserved
    uncertain     \* an action's outcome is unknown, or the tools after it

world == <<server, allowed, connected, changes, conversation>>
batch == <<offered, calls, answers>>
discovery == <<todo, listed>>
ghosts == <<executed, told, shown, latest, reserved, uncertain>>
vars == <<world, pc, turn, round, stored, messages, registry, tools, batch, seen,
          discovery, ghosts>>

Gone     == 0
Question == "runtime_request_input"
Running  == {"discover", "list", "grant", "model", "call", "send"}
Connector == Range(Connectors)
Ended    == {"completed", "failed", "limit", "unknown"}
Nothing  == [t \in Tool |-> Gone]
ToolsOf(c) == {t \in Tool : ConnectorOf[t] = c}

Definitions == [Tool -> Gone..MaxVersion]
\* fits: the arguments match the schema; of a question: it is one nonempty string.
Call    == [id : Id, name : Tool \cup {Question}, fits : BOOLEAN]
Message == [role : {"user", "assistant"}, uses : SUBSET Id, answers : SUBSET Id]

Ids(cs)     == {cs[i].id : i \in DOMAIN cs}
Names(cs)   == {cs[i].name : i \in DOMAIN cs}
FromUser(as) == [role |-> "user", uses |-> {}, answers |-> as]
Text        == [role |-> "assistant", uses |-> {}, answers |-> {}]
FromModel(cs) == [role |-> "assistant", uses |-> Ids(cs), answers |-> {}]

-----------------------------------------------------------------------------
\* Transcripts.

Uses(m, n)    == UNION {m[i].uses : i \in 1..n}
Answers(m, n) == UNION {m[i].answers : i \in 1..n}
Pending(m, n) == Uses(m, n) \ Answers(m, n)

Bounded(m) == Len(m) <= MaxMessages

\* validate_checkpoint: no operation is left without its result.
Complete(m) ==
    /\ Bounded(m)
    /\ m # <<>> => m[1].role = "user" /\ Last(m).role = "assistant"
    /\ \A i \in DOMAIN m :
        /\ m[i].uses # {} => m[i].role = "assistant"
        /\ m[i].answers # {} => m[i].role = "user"
        /\ m[i].role = "assistant" => Pending(m, i - 1) = {}
        /\ m[i].uses \cap Uses(m, i - 1) = {}
        /\ m[i].answers \subseteq Pending(m, i - 1)
    /\ Pending(m, Len(m)) = {}

-----------------------------------------------------------------------------
Init ==
    /\ server \in [Tool -> {Gone, 1}]
    /\ allowed \in SUBSET Tool
    /\ connected = Connector
    /\ changes = 0
    /\ conversation \in BOOLEAN
    /\ pc = "idle" /\ turn = 0 /\ round = 0
    /\ stored = <<>> /\ messages = <<>>
    /\ registry = Nothing /\ tools = Nothing /\ offered = Nothing
    /\ calls = <<>> /\ answers = {} /\ seen = {}
    /\ todo = <<>> /\ listed = Nothing
    /\ executed = [i \in Id |-> 0] /\ told = {}
    /\ shown = Nothing /\ latest = Nothing
    /\ reserved = [k \in (0..MaxTurns - 1) \X (0..MaxRounds - 1) |-> 0]
    /\ uncertain = FALSE

\* The run is over; nothing of it is stored.
End(outcome) ==
    /\ pc' = outcome
    /\ calls' = <<>> /\ answers' = {} /\ todo' = <<>> /\ listed' = Nothing
    /\ UNCHANGED <<turn, round, stored, messages, registry, tools, offered, seen>>

\* Mutant: only the identifiers of this run are remembered.
KnownCallsNone(m) == {}

\* What validate_checkpoint returns of the stored transcript.
KnownCalls(m) == Uses(m, Len(m))

\* The worker claimed the task and starts a run: its transcript is checked, the
\* message of the user appended, and the tools of every connector discovered.
Start ==
    /\ pc = "idle" /\ turn < MaxTurns
    /\ IF ((turn = 0) <=> (stored = <<>>)) /\ Complete(stored)
          THEN /\ pc' = IF Connectors = <<>> THEN "model" ELSE "discover"
               /\ round' = 0
               /\ messages' = Append(stored, FromUser({}))
               /\ seen' = KnownCalls(stored)
               /\ registry' = Nothing /\ tools' = Nothing
               /\ todo' = Connectors
               /\ UNCHANGED <<turn, stored, batch, listed>>
          ELSE End("failed")
    /\ UNCHANGED <<world, ghosts>>

-----------------------------------------------------------------------------
\* Discovery (Executor::refresh_tools): of every connector at the start, and of
\* the connector of a call after its result.

\* authorized_connection, before the list is requested.
Discover ==
    /\ pc = "discover" /\ todo # <<>>
    /\ Head(todo) \in connected
    /\ pc' = "list"
    /\ UNCHANGED <<world, turn, round, stored, messages, registry, tools, batch, seen,
                   discovery, ghosts>>

List ==
    /\ pc = "list"
    /\ listed' = [t \in Tool |-> IF t \in ToolsOf(Head(todo)) THEN server[t] ELSE Gone]
    /\ latest' = [t \in Tool |-> IF t \in ToolsOf(Head(todo)) THEN server[t] ELSE latest[t]]
    /\ pc' = "grant"
    /\ UNCHANGED <<world, turn, round, stored, messages, registry, tools, batch, seen,
                   todo, executed, told, shown, reserved, uncertain>>

\* The latest allowlist decides which of the listed tools the model may see.
Granted == [t \in Tool |-> IF t \in allowed THEN listed[t] ELSE Gone]

\* replacing_connector: the tools of other connectors stay.
Replaced(c) ==
    [t \in Tool |-> IF t \in ToolsOf(c) THEN Granted[t] ELSE registry[t]]

\* One call has its result; with the last of them the batch becomes a message of
\* the user, and the next turn of the loop begins.
Answer ==
    IF Len(calls) > 1
       THEN /\ calls' = Tail(calls) /\ answers' = answers \cup {Head(calls).id}
            /\ pc' = "call"
            /\ UNCHANGED <<round, messages>>
       ELSE /\ calls' = <<>> /\ answers' = {}
            /\ messages' = Append(messages, FromUser(answers \cup {Head(calls).id}))
            /\ round' = round + 1
            /\ pc' = IF round + 1 = MaxRounds THEN "limit" ELSE "model"

\* The allowlist is read again and the definitions of the connector replaced.
Grant ==
    /\ pc = "grant" /\ Head(todo) \in connected
    /\ registry' = Replaced(Head(todo)) /\ tools' = registry'
    /\ todo' = Tail(todo) /\ listed' = Nothing
    /\ IF calls # <<>> THEN Answer
       ELSE /\ pc' = IF Len(todo) > 1 THEN "discover" ELSE "model"
            /\ UNCHANGED <<round, messages, calls, answers>>
    /\ UNCHANGED <<world, turn, stored, offered, seen, ghosts>>

\* Disconnected, no answer, or definitions that cannot be used; after a call
\* this is ToolRefreshFailed.
DiscoveryFails ==
    /\ pc \in {"discover", "list", "grant"}
    /\ End(IF calls = <<>> THEN "failed" ELSE "unknown")
    /\ uncertain' = (calls # <<>>)
    /\ UNCHANGED <<world, executed, told, shown, latest, reserved>>

-----------------------------------------------------------------------------
\* One request to the model.

\* Mutant: as if every task had one turn.
ReservationIdOfRound == <<0, round>>

\* The reservation id; a task from the API has only turn 0.
ReservationId == <<turn, round>>

\* checkpoint_size; all other limits on a request are ModelFails.
FitsCheckpoint == conversation => Bounded(messages)

Request ==
    /\ pc = "model" /\ FitsCheckpoint
    /\ reserved' = [reserved EXCEPT ![ReservationId] = @ + 1]
    /\ told' = told \cup Answers(messages, Len(messages))
    /\ shown' = tools

\* Limits of the request, a refused reservation, a timeout or error of the model,
\* a cost beyond the reservation, or a response that is neither text nor calls.
ModelFails ==
    /\ \/ Request
       \/ pc = "model" /\ UNCHANGED <<reserved, told, shown>>
    /\ \E outcome \in {"failed", "limit"} : End(outcome)
    /\ UNCHANGED <<world, executed, latest, uncertain>>

\* Only a transcript that a later run accepts is kept.
Keeps(m) == Complete(m)

\* Mutant: the operations of this run are left out.
TranscriptOfTexts(m) == Append(stored, FromUser({})) \o <<Text>>

\* engine_history of a run that ends with m.
Transcript(m) == Append(m, Text)

Conclude(outcome) ==
    IF ~conversation THEN End(outcome)
    ELSE IF ~Keeps(Transcript(messages)) THEN End("failed")
    ELSE /\ pc' = outcome
         /\ stored' = Transcript(messages)
         /\ turn' = IF outcome = "idle" THEN turn + 1 ELSE turn
         /\ UNCHANGED <<round, messages, registry, tools, offered, calls, answers, seen, todo, listed>>

\* Text and no calls: the final answer.
Finish ==
    /\ Request
    /\ Conclude("completed")
    /\ UNCHANGED <<world, executed, latest, uncertain>>

\* runtime_request_input alone: the task waits for its user.  The question is
\* kept as a text, so that no call is pending.
Ask(call) ==
    /\ Request /\ conversation
    /\ call.name = Question /\ call.fits
    /\ IF call.id \in seen THEN End("failed") ELSE Conclude("idle")
    /\ UNCHANGED <<world, executed, latest, uncertain>>

\* No identifier was used before, in this batch or in the transcript.
Fresh(cs) == Ids(cs) \cap seen = {} /\ Cardinality(Ids(cs)) = Len(cs)

\* Mutant: the last turn executes tools too.
RoundLeftAlways == TRUE

\* There is a turn left to tell the model the results.
RoundLeft == round + 1 < MaxRounds

\* A question came with other calls, or with arguments that are no question.
Mixed(cs) == conversation /\ Question \in Names(cs)

\* A batch of calls that is not a question alone.
Batch(cs) ==
    /\ Request
    /\ ~(conversation /\ Len(cs) = 1 /\ cs[1].name = Question /\ cs[1].fits)
    /\ IF ~RoundLeft THEN End("limit")
       ELSE IF ~Fresh(cs) THEN End("failed")
       ELSE /\ seen' = seen \cup Ids(cs)
            /\ IF Mixed(cs)
                  THEN /\ messages' = messages \o <<FromModel(cs), FromUser(Ids(cs))>>
                       /\ round' = round + 1
                       /\ UNCHANGED <<pc, calls, offered>>
                  ELSE /\ messages' = Append(messages, FromModel(cs))
                       /\ calls' = cs /\ offered' = registry
                       /\ pc' = "call"
                       /\ UNCHANGED round
            /\ UNCHANGED <<turn, stored, registry, tools, answers, discovery>>
    /\ UNCHANGED <<world, executed, latest, uncertain>>

-----------------------------------------------------------------------------
\* The calls of a batch, one after the other.

\* Mutant: a definition that changed during the batch is used.
UnchangedAny(t) == TRUE

\* The definition is the one the model has seen.
Unchanged(t) == offered[t] = registry[t]

\* What Engine::run refuses before anything is sent.
Valid(call) ==
    /\ call.name \in Tool
    /\ registry[call.name] # Gone
    /\ Unchanged(call.name)
    /\ call.fits

\* The first check of Executor::execute: the owner still permits the tool.
Permitted(t) == t \in allowed /\ ConnectorOf[t] \in connected

\* The call becomes an error the model can read; nothing was sent.
Refuse ==
    /\ pc = "call"
    /\ Valid(Head(calls)) => ~Permitted(Head(calls).name)
    /\ Answer
    /\ UNCHANGED <<world, turn, stored, registry, tools, offered, seen, discovery, ghosts>>

Permit ==
    /\ pc = "call"
    /\ Valid(Head(calls)) /\ Permitted(Head(calls).name)
    /\ pc' = "send"
    /\ UNCHANGED <<world, turn, round, stored, messages, registry, tools, batch, seen,
                   discovery, ghosts>>

Executed == executed' = [executed EXCEPT ![Head(calls).id] = @ + 1]

\* The server answers, with an error of the tool or without.
Execute ==
    /\ pc = "send"
    /\ Executed
    /\ pc' = "discover" /\ todo' = <<ConnectorOf[Head(calls).name]>>
    /\ UNCHANGED <<world, turn, round, stored, messages, registry, tools, batch, seen,
                   listed, told, shown, latest, reserved, uncertain>>

\* Mutant: an unknown outcome is reported like a refused call.
UnansweredReported ==
    /\ Answer
    /\ UNCHANGED <<turn, stored, registry, tools, offered, seen, discovery>>

\* ToolOutcomeUnknown.
Unanswered == End("unknown")

\* No answer in time or a broken connection: the action may have happened.
LoseCall ==
    /\ pc \in {"call", "send"}
    /\ Valid(Head(calls))
    /\ (pc = "send" /\ Executed) \/ UNCHANGED executed
    /\ Unanswered
    /\ uncertain' = TRUE
    /\ UNCHANGED <<world, told, shown, latest, reserved>>

-----------------------------------------------------------------------------
\* Everyone else.

\* A server defines, changes or removes a tool.
ServerChanges(t) ==
    /\ \E v \in Gone..MaxVersion \ {server[t]} : server' = [server EXCEPT ![t] = v]
    /\ UNCHANGED <<allowed, connected>>

\* The owner permits or forbids a tool.
PermissionChanges(t) ==
    /\ allowed' = IF t \in allowed THEN allowed \ {t} ELSE allowed \cup {t}
    /\ UNCHANGED <<server, connected>>

\* A connection is lost, or authorized again.
ConnectionChanges(c) ==
    /\ connected' = IF c \in connected THEN connected \ {c} ELSE connected \cup {c}
    /\ UNCHANGED <<server, allowed>>

WorldChanges ==
    /\ pc \in Running /\ changes < MaxChanges
    /\ changes' = changes + 1
    /\ \/ \E t \in Tool : ServerChanges(t) \/ PermissionChanges(t)
       \/ \E c \in Connector : ConnectionChanges(c)
    /\ UNCHANGED <<conversation, pc, turn, round, stored, messages, registry, tools, batch,
                   seen, discovery, ghosts>>

\* The worker's time is over, or the transcript too large for its row.
Interrupt ==
    /\ pc \in Running
    /\ End("failed")
    /\ UNCHANGED <<world, ghosts>>

Next ==
    \/ Start \/ Discover \/ List \/ Grant \/ DiscoveryFails
    \/ ModelFails \/ Finish
    \/ \E call \in Call : Ask(call)
    \/ \E cs \in SeqOf(Call, MaxBatch) \ {<<>>} : Batch(cs)
    \/ Refuse \/ Permit \/ Execute \/ LoseCall
    \/ WorldChanges \/ Interrupt

Spec == Init /\ [][Next]_vars

-----------------------------------------------------------------------------
RunTypeOK ==
    /\ server \in Definitions /\ allowed \subseteq Tool /\ connected \subseteq Connector
    /\ changes \in 0..MaxChanges /\ conversation \in BOOLEAN
    /\ pc \in Running \cup Ended \cup {"idle"}
    /\ turn \in 0..MaxTurns /\ round \in 0..MaxRounds - 1
    /\ stored \in Seq(Message) /\ messages \in Seq(Message)
    /\ registry \in Definitions /\ offered \in Definitions /\ listed \in Definitions
    /\ calls \in Seq(Call) /\ answers \subseteq Id /\ seen \subseteq Id
    /\ todo \in Seq(Connector)
    /\ executed \in [Id -> Nat] /\ told \subseteq Id
    /\ reserved \in [(0..MaxTurns - 1) \X (0..MaxRounds - 1) -> Nat]
    /\ uncertain \in BOOLEAN

ToolsTypeOK == tools \in Definitions /\ shown \in Definitions /\ latest \in Definitions

TypeOK == RunTypeOK /\ ToolsTypeOK

\* A call reaches a server only with the definition that the last request
\* showed the model, and only while the server's last list still has it: the
\* calls before it in the batch rediscover the tools in between.
SendsWhatWasShown ==
    pc = "send" =>
        LET t == Head(calls).name
        IN  shown[t] # Gone /\ shown[t] = latest[t]

\* No identifier reaches a server twice, in whatever turn of the conversation
\* the model repeats it.
ExecutedOnce == \A i \in Id : executed[i] <= 1

\* The transcript a conversation waits with is accepted by the next run and has
\* the result of every action the conversation took.
CheckpointKeepsActions ==
    conversation /\ pc \in {"idle", "completed"} =>
        /\ Complete(stored)
        /\ \A i \in Id : executed[i] > 0 => i \in Answers(stored, Len(stored))

\* Once an action's outcome is unknown, or the tools after it, the task acts no
\* more: no call, no request to the model, no transcript to resume from.
UncertaintyStops ==
    [][uncertain => UNCHANGED <<executed, reserved, stored>>]_vars

\* A run that reaches its last turn has told the model the result of every action.
NothingUnreported ==
    pc \in {"idle", "completed"} \/ (pc = "limit" /\ round = MaxRounds)
        => \A i \in Id : executed[i] > 0 => i \in told

\* Every request of a conversation has a reservation of its own, so none is sent
\* on the money of an earlier one.
ReservedOnce == \A k \in DOMAIN reserved : reserved[k] <= 1
=============================================================================
