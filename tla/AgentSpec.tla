------------------------------ MODULE AgentSpec ------------------------------
(***************************************************************************)
(* What an agent promises to those who read its card (docs/api.md,         *)
(* docs/card-signing.md): its configuration and its public card change in  *)
(* one step; a receipt is active from its issue to the next change of      *)
(* anything, or its expiry; a deletion ends all receipts and the key at    *)
(* once, and is answered when nothing public is left.                      *)
(***************************************************************************)
EXTENDS Integers

CONSTANTS Skill, Text, Proof, NoText

VARIABLES
    agent,    \* whether there is one; its name and the key of its owner
    skills,   \* the text of each skill
    shown,    \* the card: a name and skills
    issued,   \* the receipts there have been
    active,   \* those a status request calls active
    gone      \* the deletion was answered

vars == <<agent, skills, shown, issued, active, gone>>

NoKey == 0

Init ==
    /\ \/ agent = [state |-> "none", name |-> NoText, key |-> NoKey]
       \/ \E t \in Text : agent = [state |-> "living", name |-> t, key |-> 1]
    /\ skills = [s \in Skill |-> NoText]
    /\ shown = NoText
    /\ issued = {} /\ active = {}
    /\ gone = FALSE

Living == agent.state = "living"

\* The agent as it is to be, and the card that shows it.
Publish(new, texts) ==
    /\ agent' = new
    /\ skills' = texts
    /\ shown' = [name |-> new.name, skills |-> texts]
    /\ active' = {}
    /\ UNCHANGED <<issued, gone>>

Create(t) ==
    /\ agent.state = "none"
    /\ Publish([state |-> "living", name |-> t, key |-> 1], skills)

\* With the name it has, only the card is made anew.
Rename(t) == Living /\ Publish([agent EXCEPT !.name = t], skills)

ChangeSkill(s, text) == Living /\ Publish(agent, [skills EXCEPT ![s] = text])

RotateKey ==
    /\ Living
    /\ agent' = [agent EXCEPT !.key = @ + 1]
    /\ active' = {}
    /\ UNCHANGED <<skills, shown, issued, gone>>

Issue(i) ==
    /\ Living /\ shown # NoText
    /\ i \notin issued
    /\ issued' = issued \cup {i}
    /\ active' = {i}
    /\ UNCHANGED <<agent, skills, shown, gone>>

Expire(i) ==
    /\ active' = active \ {i}
    /\ UNCHANGED <<agent, skills, shown, issued, gone>>

Delete ==
    /\ Living
    /\ agent' = [agent EXCEPT !.state = "deleted", !.key = NoKey]
    /\ active' = {}
    /\ UNCHANGED <<skills, shown, issued, gone>>

\* After it the card and the skills go, one by one.
Erase ==
    /\ agent.state = "deleted"
    /\ \/ shown' = NoText /\ UNCHANGED skills
       \/ \E s \in Skill : skills' = [skills EXCEPT ![s] = NoText] /\ UNCHANGED shown
    /\ UNCHANGED <<agent, issued, active, gone>>

Answer ==
    /\ agent.state = "deleted"
    /\ shown = NoText /\ skills = [s \in Skill |-> NoText]
    /\ gone' = TRUE
    /\ UNCHANGED <<agent, skills, shown, issued, active>>

Next ==
    \/ \E t \in Text : Create(t) \/ Rename(t)
    \/ \E s \in Skill, text \in Text \cup {NoText} : ChangeSkill(s, text)
    \/ RotateKey \/ Delete \/ Erase \/ Answer
    \/ \E i \in Proof : Issue(i) \/ Expire(i)

Spec == Init /\ [][Next]_vars
=============================================================================
