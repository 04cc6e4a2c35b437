\* One request, and one page that changes the access type of a dataset.
SPECIFICATION CredsSafetySpec
CONSTANTS
    User = {u1}
    Table = {t1}
    Team = {}
    Process = {p1}
    Service = {"explorer"}
    Page = {"access_type"}
    Absent = Absent
    LockExpiry = FALSE
    MaxAccessChanges = 2
    MaxCredsFailures = 0
INVARIANTS
    LostAccessIsLost
