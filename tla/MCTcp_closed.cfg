SPECIFICATION Spec
CHECK_DEADLOCK FALSE
CONSTANTS
  a = a
  b = b
  Intf = {eth0}
  Port = {p1}
  Peer = {a, b}
  Reachable <- BothReachable
  Iss <- WrappingIss
  PeerWnd <- ThePeerWnd
  StreamLen = 1
  SeqSpace = 5
  Sizes = {1}
  MAX_TCP_SOCKS = 1
  MAX_TCP_CONN_SOCKS = 1
  MAX_TCP_PAYLOAD = 1
  MaxSocks = 1
  MaxConns = 1
  MaxRx = 1
  NULL = NULL
  FREED = FREED
PROPERTY NoSendAfterReset
