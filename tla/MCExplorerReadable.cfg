\* One query, one page, nothing fails.
SPECIFICATION ExplorerSafetySpec
CONSTANTS
    Query = {q1}
    Tab = {t1}
    None = None
    MaxFailures = 0
CHECK_DEADLOCK FALSE
INVARIANT
    CompleteIsReadable
