SPECIFICATION PartsSpec

CONSTANTS
  Requests = {"a", "b", "c", "d", "e"}
  NoRequest = "none"
  HandlerOf <- SomeHandlers
  ModuleOf <- SomeModules
  WithoutDot = {"plain"}
  Missing = {"m.g"}
  HttpRequests = {"b"}
  BadContext = {"e"}
  Environments <- SomeEnvironments
  MaxPostFailures = 2
  Loggers = {r1, r2}
  Root = root
  Sys = sys
  Stdout = stdout
  Messages <- SomeMessages
  MAX_LOG_BYTES = 7
  Header = 2
  Capacity = 6
  PipeBuf = 5
  MaxLines = 2
  EnvironNames = {"CONTENT_TYPE", "HTTP_CONTENT_TYPE", "HTTP_X_FC_FUNCTION_HANDLER", "HTTP_X_A", "PATH"}
  Values = {"u", "v", "w"}
  HeaderNames = {"x-a", "X-A", "content_type", "content-type", "Content-Type", "x-fc-function-handler"}
  NameOf <- SomeNames
  ContentTypes = {"content-type", "Content-Type"}
  HeadersMaps <- SomeMaps
  OsEnviron <- SomeEnviron
  Handler <- SomeHandler
  Keys = {"set-cookie", "x-b", "x-c"}
  Responses <- SomeResponses
  Statuses = {200, 404}
  Pieces = {"u", "v"}
  MaxCalls = 3

INVARIANTS
  BytesOnceInOrder
  FramesInStep
  ServedStaysServed
  ExchangeIsWhole

PROPERTIES
  ContractSpec
