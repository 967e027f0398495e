SPECIFICATION FairSpec
CONSTANTS
    Procs = {p1, p2}
    Runs = {r1, r2}
    Tests = {t1, t2}
    Scheduled = {t1}
    Async = {t2}
    Recipients = {"alice"}
    Recipient <- MCRecipient
    RunsOutliveTTL = FALSE
    MaxStarts = 2
INVARIANT TypeOK
INVARIANT LiveRunsExclusive
INVARIANT OrphansAreInterrupted
INVARIANT OrderlyEndAnswers
PROPERTY ShutdownEnds
CHECK_DEADLOCK FALSE
