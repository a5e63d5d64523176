SPECIFICATION AppsSpec
CONSTANTS
    Deployers = {r1}
    MaxVersions = 3
    MaxAppCalls = 5
    MayFail = FALSE
    NoApp = NoApp
    NoService = NoService
INVARIANT OldVersionIsTornDown
CHECK_DEADLOCK FALSE
