SPECIFICATION SafetySpec
CONSTANTS
    Builds = {b1, b2}
    Workers = {w1, w2}
    Cancellers = {c1, c2}
    QueueCapacity = 1
    App = App
    Apps <- MCApps
    AppOf <- MCAppOf
    NoBuild = NoBuild
SYMMETRY Symmetry
INVARIANTS
    TypeOK
    OnePlace
    CancelsAreLive
    NoOrphanRow
    CancelSticks
    ImagePublishedBeforeUse
PROPERTIES
    ClosedIsQuiet
    ImplementsBuildQueue
