CONSTANTS
  AddrBits = 4
  OctetBits = 2
  Masks = {0, 2, 4}
  NextHops = {0}
  Intf = {"eth0"}
  MaxRoutes = 2
  NoRoute = NoRoute
SPECIFICATION RtSpec
INVARIANT LookupIsLpm
