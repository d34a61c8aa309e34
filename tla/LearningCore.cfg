\* Two calls on shared sources, every Redis command may fail, one restart.
CONSTANTS
    c1 = c1
    c2 = c2
    van = van
    ap = ap
    tag = tag
    Calls <- MCCalls
    Reports <- MCReports
    Nil = Nil
    MaxRestarts = 1
SPECIFICATION FairSpec
INVARIANTS TypeOK NoUpdateLost EntriesAreConsistent NoReportBlendedTwice LearnedStaysLearned AnswerFollowsSources
PROPERTIES CallsEnd
