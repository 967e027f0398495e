SPECIFICATION Spec
CONSTANTS
    r1 = r1
    r2 = r2
    p1 = p1
    p2 = p2
    k1 = k1
    k2 = k2
    MsgKeys = {m1}
    ResKeys = {k1, k2}
    Payloads = {p1, p2}
    Runs = {r1, r2}
    MsgTTL = 1
    ReservationTTL = 2
    MaxTime = 5
INVARIANT TypeOK
PROPERTY ImplementsContract
PROPERTY NoHandover
SYMMETRY Symmetry
