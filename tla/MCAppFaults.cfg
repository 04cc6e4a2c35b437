\* One instance, from its creation to the reaper, with image builds, failing
\* calls to AWS and two crashes of Django or Celery processes.
SPECIFICATION Spec
CONSTANTS
    Host = {h1}
    Instance = {i1}
    Request = {r1}
    Op = {"GET", "PUT", "PATCH", "DELETE", "STOP"}
    None = None
    Builds = TRUE
    Faults = {"describe", "run"}
    Ages = {0, 1, 2, 3, 4}
    MaxStops = 2
    MaxCrashes = 2
CHECK_DEADLOCK FALSE
INVARIANT
    InstanceSafety
PROPERTIES
    SpawningEnds
    LateStopIsHonoured
