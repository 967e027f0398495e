SPECIFICATION FairSpec
CONSTANTS
    Clients = {c1, c2}
    Tests <- MCTests
    Requests <- MCRequests
    MaxStoredResults = 2
    MaxRequests = 3
INVARIANT TypeOK
INVARIANT OrderMatchesResults
INVARIANT SkipStopsSequence
PROPERTY FinalIsStable
PROPERTY AcceptedRunsGetResults
