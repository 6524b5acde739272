SPECIFICATION Spec

CONSTANTS
  Requests = {r1, r2, r3}
  HttpRequests = {r1}
  NoRequest = NoRequest
  EnableConcurrentInvoke = TRUE
  Clients = {FALSE, TRUE}
  RejectionsRaise = TRUE
  FromSnapshot = FALSE
  ReplyValues = {"result", "error", "stream", "broken"}
  Faults = {"error", "uncaught", "nullish", "exit"}
  HandleKinds = {"ref", "unref"}
  HandlesEnd = TRUE
  UserAlwaysReplies = FALSE
  StreamEnds = {"result", "error", "stall"}
  PostsMayRaise = TRUE
  MaxTurns = 1
  MaxPollFailures = 1

INVARIANTS
  OnePoller

PROPERTIES
  ContractSpec
