SPECIFICATION FairSpec
CONSTANTS
    Settings <- MCLiveSettings
    Requests = {r1, r2, r3}
    Pollers = {p1}
    MaxTime = 2
INVARIANTS MirrorAgrees ProbeAccounting OneTransitionPerSection
PROPERTIES OnlyOwnProbesJudge RecoveryEarned SaturationEnds OpenExpires
