SPECIFICATION MCSpec
CONSTANTS
    Lines = {1, 2, 3}
    Owner <- MCOwner
    Threads = {"run", "other"}
    capacity = 2
    IndexCapacity = 2
    MaxLoads = 1
    MaxAppends = 3
    Garbled = {1}
    Platforms = {"posix", "windows"}
    Modes = {"follow", "drain", "once"}
    Logged = {1, 2}
    MaxFaults = 2
    n_states = 3
    smoothing_alpha = 1
    Symbols = {"calm", "loud"}
    Emission <- MCEmissionOf
    Scores = {29, 30, 69, 70}
    MaxSteps = 5
    Horizon = 3
    Times = {0, 1, 2, 4, 6, 9}
    Statuses <- MCStatuses
    MaxEntries = 3
    window_size = 3
    Steps = {1, 2}
    SubWindow = 2
    BurstMin = 2
    BruteMin = 2
    FloodMin = 3
    seq_len = 2
    forecast_horizon = 1
    Ratios <- MCRatios
    Lengths = {2, 3, 4}
    MaxSequences = 4
    surge_threshold = 3
    TrueStages = {0, 3, 4}
    Predictions <- MCPredictions
    MinConsecutive = {1, 2}
    Lookback = 3
    MaxWindows = 5
    epochs = 4
    patience = 2
    Losses = {1, 2}
    MaxRuns = 2
INVARIANTS
    NothingForgotten
    IndexFollowsBuffer
    LabelsExact
    TrajectoryExact
    
    EveryRequestCovered
    NoLeakage
    WarningsExact
    AlarmsAccounted
    BestWeightsReturned
    HonestReport
PROPERTY EveryLineIngested
CHECK_DEADLOCK FALSE
