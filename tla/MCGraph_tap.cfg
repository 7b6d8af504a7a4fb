SPECIFICATION Spec
CONSTANTS
  Node = {n1, n2}
  Link = {l1}
  Tap = {t1}
  NULL = NULL
  LinkedNode = {n1, n2}
  TapNode = {n1}
  MAX_INTFS_PER_NODE = 2
INVARIANT NoUseAfterFree
CHECK_DEADLOCK FALSE
