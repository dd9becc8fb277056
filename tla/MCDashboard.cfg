SPECIFICATION DashboardSpec
CONSTANTS
  LastDay = 4
  Calendar <- FourDays
  Sums = {1, 2}
  MaxEntries = 2
INVARIANTS
  CountedInPeriod
  FiguresExact
