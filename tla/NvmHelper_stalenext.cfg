SPECIFICATION Spec
CONSTANTS
    Request = {r1, r2, r3}
    NoRequest = NoRequest
    StartFails = {"read"}
    Reentrant = FALSE
INVARIANT RemovesListed
SYMMETRY RequestSymmetry
