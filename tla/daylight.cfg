SPECIFICATION Spec
CONSTANTS
    None = None
    Day = 6
    MaxShift = 3
    MaxTime = 20
INVARIANTS
    ExpiryAhead
    NeverCrossesDay
