\* Two handlers at a time, two skills, two texts, two receipts, and META
\* versions up to three.
CONSTANTS
    Process = {p1, p2}
    Skill = {s1, s2}
    Text = {t1, t2}
    Proof = {i1, i2}
    NoText = null
    MaxVersion = 3
SYMMETRY Alike
SPECIFICATION Spec
INVARIANTS CardMatchesConfiguration ActiveProofAttests DeletionUnpublishes
PROPERTIES KeyHoldsAtCommit ImplementsAgentSpec
CHECK_DEADLOCK FALSE
