SPECIFICATION FairSpec

CONSTANTS
  r1 = r1
  r2 = r2
  r3 = r3
  r4 = r4
  main_php = main_php
  other_php = other_php
  Requests = {r1, r2, r3, r4}
  NoRequest = NoRequest
  HeadersOf <- TheHeadersOf
  BadType = {r1}
  UnfoundFile = {}
  FileOf <- TheFileOf
  FunctionOf <- TheFunctionOf
  PhpFunctions = {"phpinfo"}
  Declarations <- TheDeclarations
  FromSnapshot = TRUE
  LoadOutcomes = {"done", "throws", "refused", "exits"}
  CallOutcomes = {"returns", "throws", "exits"}
  PollReplies <- AnyReplies
  PostReplies <- AnyReplies
  MaxLosses = 2

INVARIANTS
  EndLineMatchesAnswer
  RestoredBeforeUserCode
  AnswersPerCatch

PROPERTIES
  ContractSpec
  ComesBack
