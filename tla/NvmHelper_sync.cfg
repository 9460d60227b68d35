SPECIFICATION Spec
CONSTANTS
    Request = {r1, r2, r3}
    NoRequest = NoRequest
    StartFails = {"init", "create", "read", "delete"}
    Reentrant = FALSE
INVARIANTS OneOperation OneOwner FlagExact RefusedInv
SYMMETRY RequestSymmetry
\* The model stops where ns_list_remove follows links that are no longer a list.
CHECK_DEADLOCK FALSE
