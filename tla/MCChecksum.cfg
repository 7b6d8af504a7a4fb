SPECIFICATION CksumSpec
CONSTANTS
  Radix = 4
  MaxPayload = 3
  MaxTtl = 3
  Interface <- FewInterfaces
  IfIp <- FewAddresses
  NoIntf = NoIntf
INVARIANTS SumIsStandard SentPacketChecks SegmentChecks
