SPECIFICATION PartsSpec

CONSTANTS
  Requests = {r1, r2}
  HttpRequests = {r1}
  NoRequest = NoRequest
  Modes = {TRUE, FALSE}
  ReplyValues = {"result", "error", "stream", "broken"}
  HandleUses = {{"ref"}, {"ref", "unref"}}
  HandlesEnd = TRUE
  MaxTurns = 1
  MaxFailures = 2
  HttpParams <- SomeParams
  HeaderNames <- SomeHeaderNames
  Unique = {"etag"}
  Arrays = {"set-cookie"}
  HeaderKeys = {"X-A"}
  HeaderValues <- SomeValues
  Empty = ""
  StatusCodes = {0, 404}
  MaxCalls = 3
  Environments <- SomeEnvironments
  Invocations <- Named
  HandlerOf <- SomeHandlers
  HeadersOf <- SomeHeaders
  Nameless = {"q3"}
  WithoutDot = {"plain"}

INVARIANTS
  OneAtATime
  RequestHeadersKept
  ResponseAsCalled
  SnapshotIsRestored
  
  OnceFoundAlwaysFound

PROPERTIES
  ContractSpec
  LegacyPollsAgain
