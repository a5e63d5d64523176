SPECIFICATION Spec
CONSTANTS
    Schedules = {s1, s2}
    Loops = {l1}
    Triggers = {t1}
    Editors = {}
    Often = Often
    Rare = Rare
    Never = Never
    Bad = Bad
    Crons = {Often, Bad}
    Parsable <- MCParsable
    NextMatch <- MCNextMatch
    Horizon = 3
    MaxReboots = 0
    None = None
    Gone = Gone
PROPERTIES
    DueRuns
    StopReturns
