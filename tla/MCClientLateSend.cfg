CONSTANTS
  s1 = s1
  s2 = s2
  r1 = r1
  r2 = r2
  Socks <- TwoSocks
  NoSock = NoSock
  Receivers <- TwoReceivers
  NoThread = NoThread
  CloseFirst = TRUE
SPECIFICATION FairClientSpec
PROPERTIES LossHasCause
