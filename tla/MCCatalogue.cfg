\* One item of the catalogue and its parts, a few requests of each kind: enough
\* for two to cross and a third to find what they left.
SPECIFICATION MCSpec
CONSTANTS
    CatalogueUser = {u1, u2}
    Superuser = {u1}
    Manager = {u2}
    Insider = {u2}
    Curator = {c1}
    MaxEdits = 1
    MaxDownloads = 2
    View = {v1, v2}
    DashViewer = {u1, u2}
    MaxDashChanges = 2
    LastRow = 4
    GridBlock = 2
    GridLimit = 2
    MaxGridSteps = 3
    AdminRequest = {r1, r2}
    Record = {k1}
    Field = {f1, f2}
    External = {d1}
    Nothing = Nothing
    MaxRequests = 3
    ExternalFaults = 1
    Member = {m1}
    AdminForm = {f1, f2}
    Nightly = night
    NoOne = nobody
    MaxForms = 2
    MaxSyncs = 1
    SyncTrouble = 1
    CutPost = {p1, p2}
    MaxCutPosts = 5
    CodedSet = {d1, d2}
    RefCode = {"c1", "c2"}
    LastSource = 2
    SourcePost = {p1, p2}
    MaxSourcePosts = 3
    S3Link = {l1, l2}
    MaxLinkEdits = 5
    DashRun = {r1, r2}
    QuickLink = {l1}
    SuperLink = {l2}
    MaxDashEdits = 2
    MaxDashRuns = 2
    Subject = {o1}
    Subscriber = {s1}
    NotifyTask = {n1, n2}
    MetadataTask = {m1}
    MaxVersions = 2
    MaxSubscribing = 2
    MaxNotifyRuns = 2
    MailFailures = 1
    PipelineAdmin = {a1, a2}
    PipelineTable = {p1}
    MaxPipelineCalls = 6
    DataFlowFailures = 2
    ImportTab = {t1, t2}
    CsvFile = {f1}
    TableName = {n1}
    MaxCsvVersions = 2
    MaxImports = 2
    FlowFailures = 1
    FormTab = {t1, t2}
    Form = {q1}
    MaxPosts = 8
    TicketFailures = 1
    Developer = {d1, d2}
    VisRequest = {q1, q2}
    MaxVisRequests = 5
    ProjectDeveloper = {d1}
    Viewer = {v1}
    Source = {s1}
    Project = {g1, g2}
    VisCommit = {c1, c2}
    ProjectRequest = {q1, q2}
    MaxProjectRequests = 3
    MaxAttempts = 3
    TakenNames = {0}
    CacheHours = 2
    MaxHour = 3
CHECK_DEADLOCK FALSE
INVARIANTS
    CatalogueSafety
    EmbedSafety
    PermissionSafety
    CutSafety
    SourcesSafety
    DashSafety
    NotifySafety
    PipelineSafety
    ImportSafety
    FormSafety
    ReviewSafety
PROPERTIES
    GridPromise
    ReferencePromise
    ProjectPromise
