SPECIFICATION LoopSpec

CONSTANTS
  Requests = {r1, r2}
  NoRequest = NoRequest
  Modes = {"single", "concurrent"}

PROPERTIES
  PollsAgain
  TakenIsAnswered
