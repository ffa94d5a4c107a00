SPECIFICATION FairSpec
CONSTANTS
    c1 = c1
    c2 = c2
    e1 = e1
    Clients = {c1}
    Commands = {"start", "stop", "force", "reset", "delete", "flow"}
    Evaluations = {e1}
    MaxCrashes = 1
    Monolith = TRUE
    Legacy = {}
PROPERTY ScannerConverges
CHECK_DEADLOCK FALSE
