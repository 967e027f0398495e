SPECIFICATION FairSpec
CONSTANTS
    Runs = {"r1", "r2"}
    Def <- ContendDef
    Recipients = {"alice", "bob"}
    Payloads = {"good", "bad"}
    StoreMayFail = FALSE
    ReservationsExpire = FALSE
    MaxDeposits = 1
INVARIANT TypeOK
INVARIANT ExclusiveRecipients
INVARIANT HoldersOwn
INVARIANT OnlyFailedReserveLeaks
PROPERTY OnlyOwnerReleases
PROPERTY RunsEnd
PROPERTY FailuresAreNotified
PROPERTY RecipientsComeFree
