SPECIFICATION Spec
CHECK_DEADLOCK FALSE
CONSTANTS
  Element = {a, b, c}
  Base = base
  Concurrent = {{"adder", "taker"}}
  NULL = NULL
INVARIANT TakenIsGone
