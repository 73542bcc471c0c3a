SPECIFICATION Spec
CONSTANTS
    Guests = {g1}
    Tids = {t1, t2, t3}
    NoGuest = NoGuest
    NoTid = NoTid
    MaxMoves = 5
    MonitorId <- AllDomains
    MaxVcpus = 3
    LongNames = {}
SYMMETRY TidSymmetry
INVARIANT ThreadRowsMarked
