SPECIFICATION Spec
CONSTANTS
  Handlers = {e1, e2}
  MaxCalls = 2
  Handles = {w1, w2}
  Commands = {"scan", "detect"}
  Helpers = TRUE
SYMMETRY Symmetry
INVARIANTS
  CurrentNeverDangles
  OneRunningChild
  NothingLeftBehind
  InterruptedCallIsCancelled
  ScanBreaksBeforeKill
PROPERTIES
  NoAdoptionAfterRequest
  SlotDiscipline
