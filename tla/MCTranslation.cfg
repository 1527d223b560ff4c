\* Histories of up to four blocks in four turns, and every combination of options.
CONSTANTS
  Texts = {"a"}
  t1 = t1
  t2 = t2
  Ids = {t1, t2}
  Thoughts = {"r1"}
  MaxMessages = 4
  MaxBlocks = 4
SYMMETRY IdSymmetry
SPECIFICATION Spec
INVARIANTS
  FaithfulHistory
  ResultsFollowCalls
  ReasoningInPlace
  AcceptedConverts
  RequirementsMatch
CHECK_DEADLOCK FALSE
