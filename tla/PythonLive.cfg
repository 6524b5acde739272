SPECIFICATION ThreadSpec

CONSTANTS
  Modes = {"exits", "replies"}
  r1 = r1
  r2 = r2
  r3 = r3
  r4 = r4
  NoRequest = NoRequest
  initializer = initializer
  handler = handler
  other = other
  main_py = main_py
  other_py = other_py

PROPERTIES
  CachedIsServed
  TakenIsAnswered
