CONSTANTS
    slow = slow
    beat = beat
    loop = loop
    other = other
    None = None
    Slots = 3
    Timer <- MCTimer
    Repeating <- MCRepeating
    Ticks <- MCTicks
    Thread <- MCThread
    Ticker = loop
SPECIFICATION Spec
INVARIANTS
    TypeOK
    SlotRecordsBucket
PROPERTIES
    TickCompletes
    TimersFire
    ImplementsTimerService
