SPECIFICATION Spec
CHECK_DEADLOCK FALSE
CONSTANTS
  Element = {a, b, c, d}
  Base = base
  Concurrent = {{"adder", "walker"}, {"taker"}}
  NULL = NULL
INVARIANTS BackwardsToo TakenIsGone LookupSeesAll
PROPERTY ListIsSequence
