\* Two requests race over the two instances of one host, in any order, with
\* one crash and calls of AWS StopTask that fail; nothing grows sixty seconds
\* old, so the reaper is idle.
SPECIFICATION Spec
CONSTANTS
    Host = {h1}
    Instance = {i1, i2}
    Request = {r1, r2}
    Op = {"PUT", "PATCH", "DELETE", "STOP"}
    None = None
    Builds = FALSE
    Faults = {"stop"}
    Ages = {0}
    MaxStops = 1
    MaxCrashes = 1
SYMMETRY Symmetry
CHECK_DEADLOCK FALSE
INVARIANT
    HostKeySafety
PROPERTY
    ImplementsHostSlot
