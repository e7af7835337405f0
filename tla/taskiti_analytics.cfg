SPECIFICATION AnalyticsSpec
CONSTANTS
  t1 = t1
  j1 = j1
  j2 = j2
  TaskId = {t1}
  Job = {j1, j2}
  Hours = 2
  FirstDay = 3
  LastDay = 4
  None = None
CONSTRAINT OnePast
SYMMETRY Alike
CHECK_DEADLOCK FALSE
INVARIANTS AnalyticsInv PastIsCounted AnswersAreFresh StreaksAreDays
