CONSTANTS
  absent = absent
  Absent = absent
  Rows <- MCRows
  Limits <- MCLimits
  Pages <- MCPages
  Default = 2
  Faults = {"db"}
SPECIFICATION Spec
INVARIANTS PagesInRange HistoryInOrder NothingMissed NothingTwice PageAsPromised
