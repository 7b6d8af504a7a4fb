SPECIFICATION CksumSpec
CONSTANTS
  Radix = 4
  MaxPayload = 0
  MaxTtl = 3
  Interface <- FewInterfaces
  IfIp <- FewAddresses
  NoIntf = NoIntf
INVARIANT FilledHeaderChecks
