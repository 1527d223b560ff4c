\* Two tool calls, chat streams of five chunks or Responses streams of four events.
CONSTANTS
  Calls = {1, 2}
  MaxChunks = 5
  MaxEvents = 4
SPECIFICATION Spec
INVARIANTS
  BlocksWellFormed
  NoSpuriousError
  FaithfulMessage
  ItemsBracketed
  StopReasonHonest
