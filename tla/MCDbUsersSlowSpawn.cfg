\* One spawn task and two databases.  Only the steps after the GRANTs are
\* faster than the sleep of the clean up.
SPECIFICATION SafetySpec
CONSTANTS
    Spawn = {s1}
    Database = {d1, d2}
    Cleaner = Cleaner
    Free = Free
    Overlong = {}
    Brief = {"alter", "track", "store"}
    MaxCrashes = 1
CHECK_DEADLOCK FALSE
INVARIANT UsersOfAppsAreKept
