SPECIFICATION Spec
CONSTANTS
    Guests = {g1, g2}
    Tids = {t1, t2}
    NoGuest = NoGuest
    NoTid = NoTid
    MaxMoves = 5
    MonitorId <- AllDomains
    MaxVcpus = 3
    LongNames = {}
SYMMETRY HostSymmetry
INVARIANT DeltaNeedsBaseline
INVARIANT GuestsComplete
INVARIANT ShownGuestsLive
PROPERTY ImplementsMeter
