\* Three sheets, so that one may be nested twice, and two trackers.
SPECIFICATION AnalyticsSpec
CONSTANTS
  s1 = s1
  s2 = s2
  s3 = s3
  t1 = t1
  t2 = t2
  a = a
  b = b
  Sheets = {s1, s2, s3}
  Trackers = {t1, t2}
  Titles = {a, b}
INVARIANTS
  PointersAreSound
  NoSheetIsLost
  CommitIsComplete
SYMMETRY Interchangeable
CHECK_DEADLOCK FALSE
