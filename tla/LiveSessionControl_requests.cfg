SPECIFICATION Spec
CONSTANTS
    c1 = c1
    c2 = c2
    e1 = e1
    Clients = {c1, c2}
    Commands = {"start", "stop", "force", "reset", "delete", "flow"}
    Evaluations = {e1}
    MaxCrashes = 0
    Monolith = FALSE
    Legacy = {}
SYMMETRY Symmetry
INVARIANTS TypeOK OperationMatchesRequest ErrorStopsRetries
CHECK_DEADLOCK FALSE
