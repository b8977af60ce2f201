SPECIFICATION FairSpec
CONSTANTS
    Requesters = {q1}
    Workers = {v1, v2}
    Waiters = {w1}
    MaxReqs = 2
    MaxAttempts = 2
    NoWaiter = NoWaiter
    NoDelivery = NoDelivery
    NoReq = NoReq
INVARIANTS
    ReplyMatchesRequest
    PooledWaiterClean
    ResponderNeverBlocks
    SuccessfulReplyWins
    RetryOnlyUndelivered
PROPERTIES
    RequestReturns
CHECK_DEADLOCK FALSE
