SPECIFICATION SkbSpec
CHECK_DEADLOCK FALSE
CONSTANTS
  Sizes = {0, 1, 17, 18, 19, 22, 1446, 1447, 2006, 2007}
  FrameLen = {1, 13, 14, 33, 34, 41, 42, 53, 54, 60, 1514, 2044, 2045}
INVARIANTS InBounds FrameFits FreedOnce
