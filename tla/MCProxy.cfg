\* One tab, a PATCH on its way, and either a second instance or the tools page,
\* which stops the application; or a websocket with a few messages.
SPECIFICATION MCSpec
CONSTANTS
    Host = {h1}
    Instance = {i1, i2}
    Request = {b1, g1, p1}
    Browser = {b1}
    Background = {g1}
    Page = {p1}
    Op = {"GET", "PUT", "PATCH", "DELETE", "STOP"}
    None = None
    Builds = FALSE
    Faults = {}
    Ages = {0, 1}
    MaxStops = 1
    MaxCrashes = 0
    MaxPatches = 1
    MaxMessages = 3
CHECK_DEADLOCK FALSE
INVARIANT
    TabSafety
    
PROPERTIES
    VisitorsAreServed
    RelayPromise
