\* Two spawn tasks and the clean up, with failures and crashes inside the
\* sections, those of one task outliving their locks; or two queries of Data
\* Explorer, two pages and the clean up of every night, where at most one thing
\* fails; or one download of a few rows that change, with a statement that fails;
\* or the credentials of one user, whose locks may expire under their holders.
SPECIFICATION MCSpec
CONSTANTS
    Spawn = {s1, s2}
    Database = {d1}
    Cleaner = Cleaner
    Free = Free
    Overlong = {s2}
    Brief = {}
    MaxCrashes = 1
    Query = {1, 2}
    Tab = {1, 2}
    None = None
    MaxFailures = 1
    MaxRows = 2
    MaxChanges = 1
    StreamFaults = 1
    User = {u1}
    Table = {t1}
    Team = {}
    Process = {p1, p2}
    Service = {"explorer", "spawn"}
    Page = {"access_type", "user"}
    Absent = Absent
    LockExpiry = TRUE
    MaxAccessChanges = 1
    MaxCredsFailures = 1
CHECK_DEADLOCK FALSE
INVARIANTS
    UsersSafety
    ExplorerSafety
    StreamSafety
PROPERTIES
    StoredUsersAreKept
    UsersOfStoppedAppsGo
    ExplorerEnds
    StreamEnds
    TablesFollowAccess
