SPECIFICATION Spec
CONSTANTS
    Tokens = {t1, t2, t3}
    None = None
    Tampered = Tampered
    MaxFailures = 0
INVARIANTS DeletionRevokesAccess
CHECK_DEADLOCK FALSE
