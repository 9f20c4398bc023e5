SPECIFICATION Spec
CONSTANTS
    Items = {r1, r2}
    Slots = 4
    None = None
INVARIANTS
    NeverNull
PROPERTIES
    ImplementsFifo
