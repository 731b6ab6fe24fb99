SPECIFICATION FairSpec
INVARIANT
    ExceptionReachesMain
