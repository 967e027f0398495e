SPECIFICATION Spec
CONSTANTS
    c1 = c1
    c2 = c2
    r1 = r1
    r2 = r2
    p1 = p1
    p2 = p2
    Clients = {c1, c2}
    MsgKeys = {m1}
    ResKeys = {k1}
    Payloads = {p1, p2}
    Runs = {r1, r2}
    MsgTTL = 2
    ReservationTTL = 1
    MaxTime = 4
    SqlMayFail = TRUE
INVARIANT TypeOK
PROPERTY ImplementsContract
SYMMETRY Symmetry
