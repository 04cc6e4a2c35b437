\* One or two users, requests or containers at a time and one failure of each kind:
\* enough for two to cross and for what they left to be found later.
SPECIFICATION MCSpec
CONSTANTS
    Tab = {"t1", "t2", "t3"}
    BrowserOf <- MCBrowserOf
    Target = {"page", "app", "healthcheck"}
    AddressOK = {"b1"}
    MaxSessions = 4
    MaxMinute = 1
    MaxVisits = 2
    Person = {"p1"}
    EmailsOf <- MCEmailsOf
    WebWorker = {"w1"}
    SyncTask = {"s"}
    MaxAccounts = 2
    MaxPageViews = 2
    MaxSsoSyncs = 1
    MaxMails = 2
    SsoFailures = 1
    User = {u1}
    Table = {t1}
    Team = {m1}
    Process = {p1, p2}
    Service = {"explorer", "superset"}
    Page = {"access_type", "dataset_users", "user", "reset", "team"}
    Absent = Absent
    LockExpiry = FALSE
    MaxAccessChanges = 1
    MaxCredsFailures = 1
    Entry = {e1, e2}
    Worker = {w1, w2}
    Nobody = Nobody
    Beat = 2
    LookBack = 5
    RunMinutes = 3
    FailMinutes = 1
    MaxClock = 7
    SyncFaults = 1
    EditorTab = {t1, t2}
    Text = {"s1", "s2"}
    MaxQueries = 1
    MaxPlays = 2
    MaxTextEdits = 2
    MaxGrants = 1
    LastMinute = 2
    LastKey = 4
    ApiPage = 2
    MaxApiPages = 3
    Nonce = {n1}
    LastTick = 4
    NonceTicks = 4
    Package = {p1, p2}
    SyncWorker = {w1, w2}
    MaxReleases = 1
    MaxSyncRuns = 2
    MaxTries = 2
    SyncFailures = 2
    Deployments <- MCDeployments
    Container = {n1, n2}
    MaxStarts = 4
CHECK_DEADLOCK FALSE
INVARIANTS
    AccountSafety
    CacheSafety
    EditorSafety
    ApiSafety
    MirrorSafety
    DhcpSafety
PROPERTIES
    LoginPromise
    NewerEntriesStay
    ToolLogPromise
