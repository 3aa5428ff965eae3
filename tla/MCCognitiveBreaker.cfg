SPECIFICATION BreakerSpec
CONSTANTS
    Agents = {p}
    Trajectories = {t, u}
    Prints <- MCPrints
    Results = {r1, r2}
    None = None
    MaxRepeats = 2
    MaxStreak = 3
    MaxPeriod = 2
    MinRepeats = 2
    ComparisonWindow = 3
    HistoryLimit = 4
    MaxTrajectories = 1
    QueueSize = 1
INVARIANT NoLoopUnlatched
PROPERTIES VerdictsStand LaneNeverStalls
