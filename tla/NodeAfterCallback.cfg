SPECIFICATION Spec

CONSTANTS
  Requests = {r1, r2}
  HttpRequests = {}
  NoRequest = NoRequest
  EnableConcurrentInvoke = FALSE
  Clients = {FALSE}
  RejectionsRaise = FALSE
  FromSnapshot = FALSE
  ReplyValues = {"result", "error"}
  Faults = {"error"}
  HandleKinds = {"ref"}
  HandlesEnd = TRUE
  UserAlwaysReplies = FALSE
  StreamEnds = {"result", "error", "stall"}
  PostsMayRaise = FALSE
  MaxTurns = 1
  MaxPollFailures = 1

PROPERTIES
  CallbackEndsFunction
