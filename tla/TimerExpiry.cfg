SPECIFICATION TimerFairSpec
CONSTANTS
    m1 = m1
    m2 = m2
    g1 = g1
    NoTimer = NoTimer
    Expirer = Expirer
    Timers <- MCTimers
    Guests <- MCGuests
    Slots = 2
    DueTimes <- MCPace
    Periods <- MCPeriods
    MaxLate = 1
INVARIANTS
    OneSlotPerTimer
    ArmedIsPending

    
