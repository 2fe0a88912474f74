SPECIFICATION FairSpec
CONSTANTS
    Mail = {m1, m2, m3}
INVARIANTS
    OneWorker
    AttemptsBounded
PROPERTIES
    EveryMailHandled
    ImplementsDelivery
CHECK_DEADLOCK FALSE
