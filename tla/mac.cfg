SPECIFICATION Spec
CONSTANTS
  Callers = {c1, c2}
  Signals = {s1}
  MaxCalls = 2
  None = None
SYMMETRY Symmetry
INVARIANTS
  NextCommandStartsClean
  InterruptedScanIsCancelled
  AskedProcessIsKilled
PROPERTIES
  SessionHeedsRequest
  SlotDiscipline
