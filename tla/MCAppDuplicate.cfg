\* A PATCH of the proxy overtaken by a stop of the same application.
SPECIFICATION Spec
CONSTANTS
    Host = {h1}
    Instance = {i1, i2}
    Request = {r1, r2}
    Op = {"PUT", "PATCH", "STOP"}
    None = None
    Builds = FALSE
    Faults = {}
    Ages = {0}
    MaxStops = 1
    MaxCrashes = 0
CHECK_DEADLOCK FALSE
INVARIANT
    SingleVisible
