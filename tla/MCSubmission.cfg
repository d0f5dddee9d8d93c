\* Three requests race: one idempotency key, two message ids, two bodies.
CONSTANTS
    Call = {c1, c2, c3}
    ApiKey = {k1}
    MessageKey = {m1, m2}
    Body = {b1, b2}
    MaxChanges = 2
SYMMETRY Alike
SPECIFICATION Spec
INVARIANTS OncePerKey ReceiptIffAccepted AnswersAgree RetryIsAnswered
PROPERTY ImplementsSubmissionSpec
CHECK_DEADLOCK FALSE
