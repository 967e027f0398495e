SPECIFICATION Spec
CONSTANTS
    Runs = {"r1"}
    Def <- SingleDef
    Recipients = {"alice", "bob"}
    Payloads = {"good", "bad"}
    StoreMayFail = FALSE
    ReservationsExpire = FALSE
    MaxDeposits = 0
INVARIANT PassingAttemptPasses
