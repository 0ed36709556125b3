SPECIFICATION FairSpec
CONSTANTS
    Requests = {r1}
    Metrics = {m1, m2}
    Phrases = {p1, p2}
    MaxAttempts = 2
    None = None
INVARIANTS
    ResultIsCoherent
    SqlIsForLastIntent
    RunsAtMostOnce
    AnswersAreOnRecord
PROPERTIES
    CompilesOnlyLiveMetrics
    EveryQuestionEnds
    ImplementsContract
CHECK_DEADLOCK FALSE
