SPECIFICATION FairSpec
CONSTANTS
  p1 = p1
  p2 = p2
  Old = Old
  Blank = Blank
  ApiKey = ApiKey
  BlankKey = BlankKey
  EnvKey = EnvKey
  EnvToken = EnvToken
  None = None
  Missing = Missing
  Torn = Torn
  Procs <- TwoProcs
INVARIANTS TypeOK SerialActsAtomically
PROPERTIES SerialLookup CommandsEnd
CHECK_DEADLOCK FALSE
