SPECIFICATION FairSpec
CONSTANTS
  r1 = r1
  r2 = r2
  s1 = s1
  Requests <- OneRequest
  Sessions <- OneSession
  TxCap = 1
  SessCap = 1
  MaxBeats = 0
  MaxDown = 1
  MaxUp = 1
PROPERTIES RequestsAnswered SessionEndsWithApp DeliveredCloseEndsSession
CHECK_DEADLOCK FALSE
