SPECIFICATION CronFairSpec
CONSTANTS
    Year0 = 2027
    Weekday0 = 5
    HoursPerDay = 2
    MinutesPerHour = 2
    Expressions <- AllExpressions
    Asked <- MonthEnds
INVARIANT CronInv
PROPERTIES
    SkipsShortMonthsOnly
    
CHECK_DEADLOCK FALSE
