\* Three threads: one leaving handle, one at work, one reconciling.
CONSTANTS
  t1 = t1  t2 = t2  t3 = t3  e1 = e1  e2 = e2  e3 = e3  e4 = e4
  Thread <- ThreeThreads
  Event <- FourEvents
  NoThread = NoThread
  NoEvent = NoEvent
  MaxHead = 2
SPECIFICATION Spec
INVARIANTS NoDuplicateWork
SYMMETRY HandleSymmetry
