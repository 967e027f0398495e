SPECIFICATION Spec
CONSTANTS
    Runs = {"r1", "r2"}
    Def <- RetryDef
    Recipients = {"alice", "bob"}
    Payloads = {"good", "bad"}
    StoreMayFail = TRUE
    ReservationsExpire = TRUE
    MaxDeposits = 2
INVARIANT PassedMeansAllPassed
INVARIANT WorstResultWins
INVARIANT OnlyFailedStartLeavesOpen
