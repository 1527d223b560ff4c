\* Every combination of options with a history of one text; what the protocol's
\* documentation says of thinking does not hold.
CONSTANTS
  Texts = {"a"}
  t1 = t1
  t2 = t2
  Ids = {t1, t2}
  Thoughts = {"r1"}
  MaxMessages = 1
  MaxBlocks = 1
SYMMETRY IdSymmetry
SPECIFICATION Spec
INVARIANT ThinkingAsDocumented
CHECK_DEADLOCK FALSE
