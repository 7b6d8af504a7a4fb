CONSTANTS
  App = {app}
  Receiver = receiver
  NULL = NULL
  Broadcast = "broadcast"
  ZeroMac = "zero"
  Node <- FixtureNode
  Intf <- FixtureIntf
  NodeOf <- FixtureNodeOf
  Nbr <- FixtureNbr
  IpAddr <- FixtureIpAddr
  MacAddr <- FixtureIntf
  IfIp <- FixtureIfIp
  IfMac <- FixtureIfMac
  RtLookup <- FixtureRtLookup
  Payload <- IcmpPayload
  PingTargets <- FixtureTargets
  InitTtl = 3
  MaxLoss = 1
  MaxPings = 2
SPECIFICATION FairSpec
INVARIANTS TypeOK PendingCovered TtlLive NoDuplicate PongAnswersPing
PROPERTIES RefusedOnlyInRace FallsSilent PingAnswered
