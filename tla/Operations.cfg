SPECIFICATION LoadsSpec
CONSTANTS
    r1 = r1
    r2 = r2
    o1 = o1
    o2 = o2
    o3 = o3
    z1 = z1
    v1 = v1
    v2 = v2
    Nobody = Nobody
    Elsewhere = Elsewhere
    Requests = {r1, r2}
    Orders = {o1, o2, o3}
    Zones = {z1}
    Bucket <- Buckets
    DailyCap <- TwoADay
    HourlyCap <- OneCap
    ChefCap = 2
    HourlyCaps = {2}
    Percents = {10}
    LastHour = 1
    ZoneAdmins = {"a1"}
    RolloutRequired = TRUE
    RequiredReds = 2
    Sessions = {"s1"}
    Overrides = {v1, v2}
    Drills = {"d1"}
    CommandAdmins = {"a1", "a2"}
    Caps = {1, 2}
    Figures = {0, 1}
    DualControl = TRUE
    MaxPacks = 1
    Conditions = {"c1"}
    Detector <- OneDetector
    EscalateAfter = 2
    Threshold = 2
    IncidentAdmins = {"a1"}
    StabilizationDays = 2
    ReviewWindow = 2
    LastDay = 2
    Programs = {"p1"}
    WeekDays = 2
    RequiredWeeks = 1
    LastPilotDay = 3
    LateDays = 0
SYMMETRY Alike
INVARIANTS
    DailyCapHolds
    StatusFitsStage
    PolicyGivenBack
PROPERTIES
    
    ClosedDayStands
    SeverityKept
    ScaleOnWholeWeeks
CHECK_DEADLOCK FALSE
