\* One promotion with two messages, failures, lost answers and
\* two crashes at any step, under fair scheduling.  A settled run has nothing to do.
CONSTANTS
  w1 = w1  w2 = w2  pageA = pageA  pageB = pageB  threads = threads
  bluesky = bluesky  podcast = podcast  first = first
  answer = answer
  NoRun = NoRun
  NoMessage = NoMessage
  Message <- TwoMessages
  Page <- TwoPages
  PageOf <- TwoPageOf
  DeployedBy <- TwoDeployed
  Content <- AnswerOnly
  ContentChannels <- PodcastOnly
  Channel <- ThreeChannels
  Rank <- ThreeChannelOrder
  Attributed = {}
  Threads <- ThreadsOnly
  Podcast <- PodcastOnly
  Discord = {}
  Illustrated <- BlueskyOnly
  LastRun = 1
  Worker <- TwoWorkers
  Noted <- RunOne
  MaxFailed = 2
  MaxScheduled = 3
  MaxTriggers = 1
  MaxCrashes = 2
SPECIFICATION FairSpec
INVARIANTS ThreadsOnce CompletedIsDelivered
PROPERTIES RecordedNotRepeated ImplementsOutbox EveryRunSettles
CHECK_DEADLOCK FALSE
