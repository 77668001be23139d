SPECIFICATION Spec
CONSTANTS
  Handlers = {e1}
  MaxCalls = 2
  Handles = {w1}
  Commands = {"detect"}
  Helpers = FALSE
SYMMETRY Symmetry
PROPERTIES
  RequestTurnsNextChildAway
