SPECIFICATION Spec
CONSTANTS
    c1 = c1
    c2 = c2
    e1 = e1
    Clients = {c1, c2}
    Commands = {"start", "stop"}
    Evaluations = {}
    MaxCrashes = 0
    Monolith = FALSE
    Legacy = {}
PROPERTY NewerRequestRemains
CHECK_DEADLOCK FALSE
