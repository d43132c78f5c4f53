SPECIFICATION FairSessionSpec
CONSTANTS
    Callers = {request, tick}
    Member = {host, guest}
    Quality <- MCQuality
    Net <- MCNet
    Healthy <- MCHealthy
INVARIANTS TypeOK RoomHasSession IdleIsClean EntersFresh FeedKnowsState
PROPERTIES LeaveIsFinal PollOnlyReconnects OperationsEnd LinkRecovers
