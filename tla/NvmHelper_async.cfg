SPECIFICATION FairSpec
CONSTANTS
    Request = {r1, r2, r3}
    NoRequest = NoRequest
    StartFails = {"init"}
    Reentrant = TRUE
INVARIANTS IInv NoneStranded FlagUntilReturn OkMeansDone
PROPERTIES CalledBackInOrder AcceptedIsCalledBack
