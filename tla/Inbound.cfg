SPECIFICATION Spec
CONSTANTS
    Runs = {"r1"}
    Requests <- MCRequests
    Mails <- MCMails
    MaxRequests = 2
    MaxMails = 2
    MaxAttempts = 3
INVARIANT TypeOK
INVARIANT CollectedIsOwn
INVARIANT RetriesFindSameMail
INVARIANT NamespacesAreFaithful
PROPERTY UnreadLosses
PROPERTY MailEndsWait
