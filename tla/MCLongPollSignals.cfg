SPECIFICATION FairSpec
CONSTANTS
  a = a
  b = b
  u1 = u1
  w1 = w1
  w2 = w2
  Channels <- TwoChannels
  Pages = {}
  Urls <- OneUrl
  Writers <- OneWriter
  TTL = 0
  MaxWrites = 2
  MaxErrors = 1
  MaxClock = 2
CHECK_DEADLOCK FALSE
PROPERTIES SignalReported ReleasedPollsEnd
