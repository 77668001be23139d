SPECIFICATION FairAcquisition
CONSTANTS
  FirstTimeout = 2
  StallTimeout = 1
  Lines <- MCLines
  BufferTail = 7
  PipeSize = 12
INVARIANTS
  ReportIsTrue
  UpdateIsTrue
PROPERTIES
  FiresOnlyOnSilence
  WatchedScanEnds
