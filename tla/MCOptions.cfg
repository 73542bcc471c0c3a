SPECIFICATION Spec
CONSTANTS
    Guests = {g1, g2}
    Tids = {t1, t2}
    NoGuest = NoGuest
    NoTid = NoTid
    MaxMoves = 5
    MonitorId = 2
    MaxVcpus = 2
    LongNames = {g2}
INVARIANT GuestsComplete
INVARIANT OnlyAsked
PROPERTY RefreshReturns
