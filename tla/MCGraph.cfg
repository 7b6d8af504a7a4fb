SPECIFICATION Spec
CONSTANTS
  Node = {n1, n2, n3}
  Link = {l1, l2, l3}
  Tap = {t1, t2}
  NULL = NULL
  LinkedNode = {n1, n2}
  TapNode = {n3}
  MAX_INTFS_PER_NODE = 3
INVARIANTS NoUseAfterFree LinksConnect NothingLeaks
CHECK_DEADLOCK FALSE
