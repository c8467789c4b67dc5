SPECIFICATION ResponsiveSpec
CONSTANTS
  r1 = r1
  r2 = r2
  s1 = s1
  Requests <- NoRequest
  Sessions <- OneSession
  TxCap = 1
  SessCap = 1
  MaxBeats = 0
  MaxDown = 1
  MaxUp = 1
PROPERTIES DrainReturns
CHECK_DEADLOCK FALSE
