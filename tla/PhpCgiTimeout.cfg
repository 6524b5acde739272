SPECIFICATION PartsSpec

CONSTANTS
  Ids = {1}
  NoId = 0
  ReadDelays = {3}
  Deaths = {}
  Stalls = FALSE
  WritesErrors = FALSE
  MaxOutputs = 2
  Endless = FALSE
  MaxWire = 2
  Lengths <- Borders
  Launches = {"up", "fails", "not forked"}
  MaxOthers = 2
  Replies <- SomeReplies
  MaxRequests = 1
  MaxDeaths = 1
  Params = {"absent", "not base64", "not json", "plain", "typed"}
  Methods = {"GET", "HEAD", "CONNECT"}
  Codes = {200}
  Sizes = {0, 1, 5}

INVARIANTS
  WaitsNoLonger
