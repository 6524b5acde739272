SPECIFICATION PartsSpec

CONSTANTS
  Ids = {1, 2}
  NoId = 0
  ReadDelays = {0, 2500000}
  Deaths = {"between", "inside"}
  Stalls = TRUE
  WritesErrors = TRUE
  MaxOutputs = 2
  Endless = TRUE
  MaxWire = 2
  Lengths <- Borders
  Launches = {"up", "fails", "not forked"}
  MaxOthers = 2
  Replies <- SomeReplies
  MaxRequests = 3
  MaxDeaths = 1
  Params = {"absent", "not base64", "not json", "plain", "typed"}
  Methods = {"GET", "HEAD", "CONNECT"}
  Codes = {100, 101, 102, 199, 200, 204, 299, 300, 304, 500}
  Sizes = {0, 1, 5}

INVARIANTS
  StreamReadsBack
  OwnOutputInOrder
  ProxyServes
  LinesKept
  LengthIsBody

PROPERTIES
  WaitEnds
