\* Two tasks, two submitting threads, two ledgers one after the other, with
\* the client's own scheduling and nothing promised by the server or the wire.
SPECIFICATION DSpec
CONSTANTS
  Tasks = {t1, t2}
  Payloads = {p1}
  Ledgers = {l1, l2}
  Threads = {x1, x2}
  NoLedger = NoLedger
  ClosersWait = TRUE
INVARIANTS KnownIsTrue OpenRecordCoversMotion OldDispatcherGone NobodyWorksOnAQuestion AuditExplains
PROPERTIES AtMostOnce EveryCallReturns
CHECK_DEADLOCK FALSE
