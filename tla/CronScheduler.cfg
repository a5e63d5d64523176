SPECIFICATION SafetySpec
CONSTANTS
    Schedules = {s1}
    Loops = {l1, l2}
    Triggers = {}
    Editors = {e1}
    Often = Often
    Rare = Rare
    Never = Never
    Bad = Bad
    Crons = {Often, Rare, Never}
    Parsable <- MCParsable
    NextMatch <- MCNextMatch
    Horizon = 3
    MaxReboots = 1
    None = None
    Gone = Gone
INVARIANTS
    TypeOK
    LiveLoopIsOwned
    FiresOnce
    NoRunLost
    RunsAreRecorded
    NextFollowsCron
SYMMETRY Symmetry
