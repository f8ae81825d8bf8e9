SPECIFICATION BootSpec
CONSTANTS
  Programs = {"firmware", "bootstrapper"}
  HungBytes = {0, 90}
  CutAt = {0, 1, 2, 3, 4, 5, 6, 7, 8, 9, 10}
  MaxFaults = 1
  MaxSwitches = 2
  MaxBlocks = 2
  PagesPerBlock = 3
  BytesPerPage = 2
  NumBlocks = 3
  MaxTries = 6
  Lists <- FileLists
  MaxLate = 1
  MaxBytes = 13
  Behind = {0}
  Level = 2
  StartVcc = {1}
INVARIANTS BusReleased PoweredRight StreamIsFile
PROPERTIES RaisedSafely
CONSTRAINT Quiet
CHECK_DEADLOCK FALSE
