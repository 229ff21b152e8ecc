\* Two workers and four jobs, of which one is not waited for before the pool stops.
CONSTANTS
  c = c
  mon = mon
  w1 = w1
  w2 = w2
  j1 = j1
  j2 = j2
  j3 = j3
  j4 = j4
  none = none
  nojob = nojob
  Client = c
  Monitor = mon
  NoOne = none
  NoJob = nojob
  Workers <- TwoWorkers
  Jobs <- FourJobs
  Abandoned <- LastJob
SPECIFICATION FairSpec
INVARIANTS
  TypeOK
  BusyExact
  JobHeldOnce
PROPERTIES
  WaitReturns
  ShutsDown
