\* One event, one dispatcher and two workers that may stall for ever, so that stale
\* results set attempts back.
SPECIFICATION FairSpec
CONSTANTS
    MaxEvents = 1
    Workers = {w1, w2}
    Dispatchers = {d1}
    MaxAttempts = 3
    BatchSize = 1
    RecoveryBatch = 1
    QueueBound = 1
    MaxCrashes = 1
    NoOwner = none
INVARIANTS ProcessingIsRecoverable TerminalScrubbed OneClaimPerDispatch AttemptLeft
PROPERTIES EventuallyTerminal ImplementsContract
