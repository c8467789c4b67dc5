SPECIFICATION Spec
CONSTANTS
  r1 = r1
  r2 = r2
  s1 = s1
  Requests <- NoRequest
  Sessions <- OneSession
  TxCap = 1
  SessCap = 1
  MaxBeats = 1
  MaxDown = 2
  MaxUp = 2
INVARIANTS SessionProtocol TableMatchesSessions CloseIsLastEvent OrderlyEndReported NoTaskLeftBehind
PROPERTIES SessionsRelayed
CHECK_DEADLOCK FALSE
