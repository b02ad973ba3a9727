CONSTANTS
    k1 = k1
    k2 = k2
    k3 = k3
    Keys = {k1, k2, k3}
    Outcomes = {"ok", "err"}
    NoOutcome = NoOutcome
    Native = TRUE
SPECIFICATION Spec
PROPERTY ImplementsOneShot
