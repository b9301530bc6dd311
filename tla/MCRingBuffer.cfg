SPECIFICATION Spec
CONSTANTS
    Capacity = 4
    Modulus = 8
    v1 = v1
    v2 = v2
    NoValue = NoValue
    Values <- MCValues
INVARIANTS
    NeverLapped
    NoSlotRace
PROPERTY
    RefinesFifo
