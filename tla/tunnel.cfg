SPECIFICATION TunnelFairSpec
CONSTANTS
  r1 = r1
  r2 = r2
  s1 = s1
  Requests <- OneRequest
  Sessions <- NoSession
  TxCap = 1
  SessCap = 1
  MaxBeats = 2
  MaxDown = 0
  MaxUp = 0
  MaxAttempts = 4
  MaxDelay = 3
INVARIANTS TypeOK AnsweredOnce WriterStopsLast LoopTypeOK GivesUpAfterMaxRedials
PROPERTIES DrainsWithoutSessions BackoffRestartsAndGrows StopsWhenServerGone ReconnectsWhenServerBack BannerFollowsOutage LoopFairSpec AbandonedEnds
CHECK_DEADLOCK FALSE
