SPECIFICATION HistSpec
CONSTANTS
  Hosts <- MCHosts
  YearLength = 1
  Stamps = {1, 2}
  MaxBoots = 3
  MaxDay = 1
  MaxLines = 3
  MaxFaults = 1
INVARIANT HeatMapCountsRestarts
