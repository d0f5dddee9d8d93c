--------------------------- MODULE ConnectionSpec ---------------------------
(***************************************************************************)
(* What an OAuth connection promises to its owner (docs/architecture.md,   *)
(* "Secret and network boundaries"), with the provider in view: tokens are *)
(* stored only of flows that came back from the browser, only the last the *)
(* provider gave for them, and never after a disconnect; a connection that *)
(* works is given up only with tokens the provider refuses, and both at    *)
(* once; a disconnect is final.                                            *)
(***************************************************************************)
EXTENDS Integers

CONSTANTS Flow, NoTokens

VARIABLES
    status,      \* of the connection
    tokens,      \* the credentials that are stored
    open,        \* flows the browser may still come back from
    started,     \* the last flow that was started
    turn,        \* the provider: the refresh token of a flow that is good now
    revoked,     \* the provider: flows whose grant is gone
    forgotten    \* the disconnect was answered

vars == <<status, tokens, open, started, turn, revoked, forgotten>>

Init ==
    /\ status = "authorization_required" /\ tokens = NoTokens
    /\ open = {} /\ started = 0
    /\ turn = [f \in Flow |-> 0] /\ revoked = {}
    /\ forgotten = FALSE

Granted(f) == f <= started /\ f \notin open

Authorize ==
    /\ status # "disconnected"
    /\ started' = started + 1
    /\ open' = open \cup {started + 1}
    /\ status' = "authorization_pending"
    /\ UNCHANGED <<tokens, turn, revoked, forgotten>>

ComeBack(f) ==
    /\ open' = open \ {f}
    /\ UNCHANGED <<status, tokens, started, turn, revoked, forgotten>>

\* The last tokens the provider gave for a flow.
StoreTokens(f) ==
    /\ status # "disconnected"
    /\ Granted(f)
    /\ tokens' = [flow |-> f, turn |-> turn[f]]
    /\ UNCHANGED <<status, open, started, turn, revoked, forgotten>>

Connect ==
    /\ status = "authorization_pending" /\ tokens # NoTokens
    /\ status' = "connected"
    /\ UNCHANGED <<tokens, open, started, turn, revoked, forgotten>>

Refused(t) == t.flow \in revoked \/ turn[t.flow] # t.turn

GiveUp ==
    /\ status # "disconnected"
    /\ status' = "reauthorization_required"
    /\ tokens' \in {tokens, NoTokens}
    /\ status = "connected" => tokens' = NoTokens /\ Refused(tokens)
    /\ UNCHANGED <<open, started, turn, revoked, forgotten>>

Disconnect ==
    /\ status # "disconnected"
    /\ status' = "disconnected"
    /\ UNCHANGED <<tokens, open, started, turn, revoked, forgotten>>

Forget ==
    /\ status = "disconnected"
    /\ tokens' = NoTokens
    /\ forgotten' = TRUE
    /\ UNCHANGED <<status, open, started, turn, revoked>>

\* A refresh that reached the provider, whether its answer arrives or not.
Rotate(f) ==
    /\ Granted(f) /\ f \notin revoked
    /\ turn' = [turn EXCEPT ![f] = @ + 1]
    /\ UNCHANGED <<status, tokens, open, started, revoked, forgotten>>

Revoke(f) ==
    /\ Granted(f)
    /\ revoked' = revoked \cup {f}
    /\ UNCHANGED <<status, tokens, open, started, turn, forgotten>>

Next ==
    \/ Authorize \/ Connect \/ GiveUp \/ Disconnect \/ Forget
    \/ \E f \in Flow : ComeBack(f) \/ StoreTokens(f) \/ Rotate(f) \/ Revoke(f)

Spec == Init /\ [][Next]_vars
=============================================================================
