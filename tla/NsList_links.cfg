SPECIFICATION Spec
CONSTANTS
    List = {l1, l2}
    Entry = {e1, e2, e3}
    NULL = NULL
    NS_LIST_POISON = NS_LIST_POISON
SYMMETRY ListSymmetry
INVARIANTS IInv WellLinked VisitsInOrder
PROPERTY ImplementsList
