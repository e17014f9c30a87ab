\* Two threads of the daemon on one pull request and a push, with failures,
\* lost webhooks and fair scheduling.
CONSTANTS
  t1 = t1  t2 = t2  t3 = t3  e1 = e1  e2 = e2  e3 = e3  e4 = e4
  Thread <- TwoThreads
  Event <- ThreeEvents
  NoThread = NoThread
  NoEvent = NoEvent
  MaxHead = 2
SPECIFICATION FairSpec
INVARIANTS TypeOK SoleHandler StaleAgentIsCancelled PushIsOwed
PROPERTIES EveryPushSeen
