SPECIFICATION FairSpec
CHECK_DEADLOCK FALSE
CONSTANTS
  u1 = u1
  u2 = u2
  t1 = t1
  UdpComm = {u1, u2}
  TapComm = {t1}
  Nbr <- LinkNbr
  NULL = NULL
  MAX_COMMS = 3
  MAX_EVENTS = 1
  MaxFd = 4
  Ports = 4
  FirstPort = 2
  Foreign = {}
  MaxStarts = 2
INVARIANTS FdMapAgrees FrameAtItsLink ThreadGone
PROPERTIES StopReturns WatchedIsServed
