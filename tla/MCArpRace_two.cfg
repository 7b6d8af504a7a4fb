SPECIFICATION FairSpec
CHECK_DEADLOCK FALSE
CONSTANTS
  Sender = {app, recv}
  RecvTask = recv
  Packet = {p1, p2}
  MaxLoss = 0
  NULL = NULL
PROPERTY EveryPacketSent
