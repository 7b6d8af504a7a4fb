SPECIFICATION FairSpec
CHECK_DEADLOCK FALSE
CONSTANTS
  eth0 = eth0
  eth1 = eth1
  Intf = {eth0, eth1}
  Port = {p1}
  Routed <- BothWays
  Sizes = {1, 3}
  HostSizes = {0, 2}
  MAX_UDP_SOCKS = 2
  MAX_UDP_PAYLOAD = 2
  MinPayload = 1
  MaxSocks = 3
  MaxDatagrams = 2
  NULL = NULL
  FREED = FREED
INVARIANTS ReadsWhatArrived UdpSocketsListed
PROPERTY QueueDrains
