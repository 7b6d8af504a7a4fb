SPECIFICATION FairSpec
CHECK_DEADLOCK FALSE
CONSTANTS
  Sender = {app}
  RecvTask = recv
  Packet = {p1, p2, p3}
  MaxLoss = 1
  NULL = NULL
INVARIANTS WaitsForFlush SentOnce
PROPERTIES EveryPacketSent NextPacketRescues
