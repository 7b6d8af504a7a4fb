CONSTANTS
  App = {app}
  Receiver = receiver
  NULL = NULL
  Broadcast = "broadcast"
  ZeroMac = "zero"
  Node <- FixtureNode
  Intf <- FixtureIntf
  NodeOf <- FixtureNodeOf
  Nbr <- FixtureNbr
  IpAddr <- FixtureIpAddr
  MacAddr <- FixtureIntf
  IfIp <- FixtureIfIp
  IfMac <- FixtureIfMac
  RtLookup <- FixtureRtLookup
  Payload <- IcmpPayload
  PingTargets <- FarTargets
  InitTtl = 3
  MaxLoss = 0
  MaxPings = 2
SPECIFICATION Spec
INVARIANT PongAtOrigin
