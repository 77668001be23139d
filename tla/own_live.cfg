SPECIFICATION FairSpec
CONSTANTS
  Handlers = {e1}
  MaxCalls = 2
  Handles = {w1}
  Commands = {"scan", "detect", "capabilities"}
  Helpers = FALSE
PROPERTIES
  CommandEnds
