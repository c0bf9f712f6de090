CONSTANTS
    Ids = {x1}
    MaxSize = 1
SPECIFICATION Spec
INVARIANTS
    WakeOnCancel
