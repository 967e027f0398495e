SPECIFICATION Spec
CONSTANTS
    Runs = {"r1", "r2"}
    Def <- SharedDef
    Recipients = {"alice", "bob"}
    Payloads = {"good", "bad"}
    StoreMayFail = FALSE
    ReservationsExpire = FALSE
    MaxDeposits = 0
INVARIANT RunsCleanUp
