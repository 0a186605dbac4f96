\* Lists in their order, the scan of the three tiers command by command, and
\* workers that wait in BRPOP: an inversion of priorities happens once per
\* worker and reference, a list is first in first out, nobody sleeps while a
\* job waits, and queue:high is always served.
CONSTANTS
  a1 = a1  a2 = a2  a3 = a3  w1 = w1  w2 = w2
  Refs = {a1, a2, a3}
  Workers = {w1, w2}
  NoRef = NoRef
SPECIFICATION Spec
INVARIANTS NoSleepWhileWaiting
PROPERTIES OvertakenOnce TierIsFifo HighServed
