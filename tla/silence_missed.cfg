SPECIFICATION FairSpec
CONSTANTS
  r1 = r1
  r2 = r2
  s1 = s1
  Requests <- NoRequest
  Sessions <- OneSession
  TxCap = 1
  SessCap = 1
  MaxBeats = 0
  MaxDown = 3
  MaxUp = 0
PROPERTIES SilenceDetected
CHECK_DEADLOCK FALSE
