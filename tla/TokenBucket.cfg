SPECIFICATION Spec
CONSTANTS
    Limit = 2
    Window = 3
    Milli = 2
    MaxAmount = 3
    MaxTime = 9
    MaxBack = 2
INVARIANTS BucketInv AdmittedBounded ExpiryInvisible
CHECK_DEADLOCK FALSE
