SPECIFICATION FairSpec
CONSTANTS
  Adapter = {p1, p2}
  Key = {k1}
  LineLength = 2
  MaxStalled = 2
  MaxProgress = 1
INVARIANTS
  OneScanPerKey
  EventsInOrder
  ExitMatchesStream
PROPERTIES
  AdapterEnds
  BusyIsTrue
  GivesUpOnlyWhenStuck
