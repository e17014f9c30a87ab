\* Two promotions in flight together on two threads: one may repeat what the
\* other has announced.  A run may park for good, and then nothing is left to do.
CONSTANTS
  w1 = w1  w2 = w2  pageA = pageA  pageB = pageB  threads = threads
  bluesky = bluesky  podcast = podcast  first = first
  answer = answer
  NoRun = NoRun
  NoMessage = NoMessage
  Message <- OneMessage
  Page <- OnePage
  PageOf <- OnePageOf
  DeployedBy <- OneDeployed
  Content = {}
  ContentChannels = {}
  Channel <- TwoChannels
  Rank <- TwoChannelOrder
  Attributed = {}
  Threads <- ThreadsOnly
  Podcast = {}
  Discord = {}
  Illustrated <- BlueskyOnly
  LastRun = 2
  Worker <- TwoWorkers
  Noted = {}
  MaxFailed = 2
  MaxScheduled = 2
  MaxTriggers = 2
  MaxCrashes = 0
SPECIFICATION Spec
INVARIANTS TypeOK CompletedIsDelivered
PROPERTIES RecordedNotRepeated SettledIsSilent ImplementsRunLease
CHECK_DEADLOCK FALSE
