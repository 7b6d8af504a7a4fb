SPECIFICATION Spec
CHECK_DEADLOCK FALSE
CONSTANTS
  a = a
  b = b
  Intf = {eth0}
  Port = {p1}
  Peer = {a, b}
  Reachable <- OneReachable
  Iss <- WrappingIss
  PeerWnd <- ThePeerWnd
  StreamLen = 2
  SeqSpace = 5
  Sizes = {1, 3}
  MAX_TCP_SOCKS = 1
  MAX_TCP_CONN_SOCKS = 1
  MAX_TCP_PAYLOAD = 2
  MaxSocks = 2
  MaxConns = 2
  MaxRx = 2
  NULL = NULL
  FREED = FREED
INVARIANTS TypeOK SocketsListed ConnectionsListed WithinWindow StreamInOrder
PROPERTY IsByteStream
