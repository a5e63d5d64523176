SPECIFICATION Spec
CONSTANTS
    AdminEmail = e1
    Emails = {e1, e2}
    UserIDs = {u1, u2}
    TokenIDs = {t1, t2}
    Invites = {i1}
    Requests = {r1, r2}
    RoleSet = {"viewer"}
    MaxVersion = 2
    Unused = Unused
    Gone = Gone
    Invocations = {r1, r2}
    ContextNames = {default, other}
    DefaultContext = default
    CliTokens = {"viewer", "developer"}
    Typed <- MCTyped
    MaxLogins = 3
    NoConfig = NoConfig
    Services = {1, 2}
    HealthChecked = {1}
    Composes <- MCComposes
    BadYaml = BadYaml
    Networks = {net}
    Volumes = {vol}
    StackRequests = {r1, r2}
    MaxContainers = 2
    MaxStackCalls = 4
    NoRow = NoRow
    Deployers = {r1, r2}
    MaxVersions = 3
    MaxAppCalls = 4
    MayFail = TRUE
    NoApp = NoApp
    NoService = NoService
    Apps = {a1, a2}
    Domains = {dom1, dom2}
    Slug <- MCSlug
    Bindings = {b1, b2}
    Weights = {w1}
    NoSplit = NoSplit
    Default = Default
    Callers = {r1, r2}
    Nobody = Nobody
    MaxCalls = 4
    Containers = {c1}
    Commands = {k1}
    MaxSessions = 2
    MaxStreams = 2
    MaxEvents = 1
    Conns = {x1, x2}
    Addresses = {addr1, addr2}
    Topics = {topic}
    AnyTarget = any
    Senders = {s1}
    BufferSize = 1
    Capacity = 2
    HourLength = 2
    RowsKept = 1
    Values = {1, 2}
    Skew = 1
    MaxSamples = 3
    SamplesUntil = 3
    Keys = {key1, key2}
    Limit = 2
    Window = 3
    Burst = 2
    Rate = 2
    TokenUnit = 3
    IdleTicks = 3
    MaxBuckets = 1
    RequestsUntil = 5
INVARIANTS
    AccountsAreSafe
    StacksAreWhole
    AppsStayInService
    RoutesAreServed
    AgentStreamsAreOwned
    FramesGoToOpenChannels
    RingKeepsNewest
    LimitsHold
SYMMETRY Interchangeable
CHECK_DEADLOCK FALSE
