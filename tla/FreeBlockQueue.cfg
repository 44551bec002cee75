\* Four blocks, every sequence of calls.
SPECIFICATION Spec
CONSTANTS
    b1 = b1
    b2 = b2
    b3 = b3
    b4 = b4
    Blocks = {b1, b2, b3, b4}
    Order <- MCOrder
    First = First
    Last = Last
    None = None
INVARIANTS
    ListConsistent
PROPERTIES
    IsQueue
