\* Two developers of a visualisation, two requests to its approval pages at a time.
SPECIFICATION ReviewSpec
CONSTANTS
    Developer = {d1, d2}
    VisRequest = {q1, q2}
    MaxVisRequests = 4
CHECK_DEADLOCK FALSE
INVARIANT
    ApprovedByTwoDevelopers
