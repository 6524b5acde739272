SPECIFICATION ProxySpec

CONSTANTS
  Launches = {"up", "fails", "not forked"}
  MaxOthers = 2
  Replies <- SomeReplies
  MaxRequests = 3
  MaxDeaths = 1

INVARIANTS
  FailureRestarts
