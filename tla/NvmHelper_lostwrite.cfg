SPECIFICATION FairSpec
CONSTANTS
    Request = {r1}
    NoRequest = NoRequest
    StartFails = {"write"}
    Reentrant = FALSE
PROPERTY AcceptedIsCalledBack
