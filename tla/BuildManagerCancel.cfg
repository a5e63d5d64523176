SPECIFICATION Spec
CONSTANTS
    Builds = {b1}
    Workers = {w1}
    Cancellers = {c1}
    QueueCapacity = 1
    App = App
    Apps <- MCApps
    AppOf <- MCAppOf
    NoBuild = NoBuild
PROPERTY CancelTerminates
