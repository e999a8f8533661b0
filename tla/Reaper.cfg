SPECIFICATION FairSpec
CONSTANTS
  Rows <- MCRows
  MonthOf <- MCMonthOf
  Runs = {r1, r2}
  DISK_CHECK_TICKS = 2
  REAP_TICKS = 2
  AUDIT_LOG_ARCHIVE_THRESHOLD = 1
  MaxFaults = 1
INVARIANTS
  LostOnlyBehindATear
  ArchivedOnce
  ReapedHourly
PROPERTIES
  LedgerSpec
  OldRowsLeave
CHECK_DEADLOCK FALSE
