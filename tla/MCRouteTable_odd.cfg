CONSTANTS
  AddrBits = 4
  OctetBits = 2
  Masks = {0, 1, 2, 3}
  NextHops = {0}
  Intf = {"eth0"}
  MaxRoutes = 2
  NoRoute = NoRoute
SPECIFICATION RtSpec
INVARIANT LookupIsLpm
