SPECIFICATION Spec
CHECK_DEADLOCK FALSE
CONSTANTS
  Sender = {app}
  RecvTask = recv
  Packet = {p1, p2}
  MaxLoss = 0
  NULL = NULL
INVARIANT MacKnownWhenSent
