SPECIFICATION ModesSpec

CONSTANTS
  r1 = r1
  r2 = r2
  r3 = r3
  r4 = r4
  initializer = initializer
  handler = handler
  other = other
  main_py = main_py
  other_py = other_py
  Requests = {r1, r2, r3, r4}
  NoRequest = NoRequest
  HandlerOf <- SameModule
  ModuleOf <- TheModuleOf
  UnfoundHandlers = {}
  MissingHandlers = {initializer}
  RequestFault <- NamelessHandler
  Concurrent = TRUE
  LockCreated = TRUE
  FromSnapshot = TRUE
  LoadOutcomes = {"done", "fails", "exits"}
  RunOutcomes = {"result", "error", "raises", "exits"}
  Credentials = 3
  CredentialHeaders <- SetCredentials
  Sigterm = TRUE
  MaxPostFailures = 2

INVARIANTS
  RestoredBeforeUserCode
  AnswerAgreesWithLog

PROPERTIES
  ModuleBodyRunsOnce
  NotFoundIsTrue
  ContractSpec
