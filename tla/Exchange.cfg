SPECIFICATION Spec
CONSTANTS
    MaxCandidates = 3
    MaxMsgs = 2
    MaxAnswers = 1
    Policies = {"connect-failure", "unavailable", "none"}
    ServerCodes = {"OK", "Unavailable", "DeadlineExceeded"}
INVARIANTS NothingLost NoTruncation AtMostOnce SettledOnce
