\* Two runs that share a delivery id, one daemon incarnation after another or
\* beside another.
CONSTANTS
  w1 = w1  w2 = w2  r1 = r1  r2 = r2  d1 = d1
  Worker <- TwoWorkers
  Daemon <- TwoWorkers
  Run <- TwoRuns
  Delivery <- OneDelivery
  NoWorker = NoWorker
  NoDelivery = NoDelivery
  NoRun = NoRun
  StaleAge = 1
  MaxAttempt = 2
SPECIFICATION FairSpec
INVARIANTS TypeOK SoleTask VerdictIsLast DeliverySettled TimelineBalanced
PROPERTIES TakeoverOnlyAfterStale InterruptedIsDead ImplementsRunLease NoOrphanForever
