SPECIFICATION FairSpec
CONSTANTS
    plain = plain
    coroutine = coroutine
    Types = {"A", "B"}
    Subscriptions <- MCSubscriptions
    AsyncHandlers = {coroutine}
    Failing = {plain, coroutine}
    c1 = c1
    c2 = c2
    Waits <- MCWaits
    Callers = {c1, c2}
    MaxFrames = 2
INVARIANTS DispatchInOrder WaiterGetsNext WaitersExact QuietAfterClose TaskEndsForCause
PROPERTIES CallsEnd SenderLearns
CHECK_DEADLOCK FALSE
