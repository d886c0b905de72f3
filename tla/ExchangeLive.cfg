SPECIFICATION FairSpec
CONSTANTS
    MaxCandidates = 2
    MaxMsgs = 2
    MaxAnswers = 2
    Policies = {"unavailable"}
    ServerCodes = {"OK", "Unavailable", "InvalidArgument"}
INVARIANTS OneVoice
PROPERTIES RPCEnds HalfCloseArrives
