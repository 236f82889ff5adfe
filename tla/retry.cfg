SPECIFICATION FairSpec
CONSTANTS
    Calls = {c1, c2}
    Txns = {t1, t2}
    NoReq = noReq
    Nameable = {t1}
    MaxAttempts = 3
INVARIANTS OwnReplayNotRaised DoubleSubmissionHeard
PROPERTIES KeepsPromise EveryCallEnds
CHECK_DEADLOCK FALSE
