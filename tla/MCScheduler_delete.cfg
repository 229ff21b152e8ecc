\* One worker, one job: the client deletes the Status as soon as it is done.
CONSTANTS
  c = c
  mon = mon
  w1 = w1
  w2 = w2
  j1 = j1
  j2 = j2
  j3 = j3
  j4 = j4
  none = none
  nojob = nojob
  Client = c
  Monitor = mon
  NoOne = none
  NoJob = nojob
  Workers <- OneWorker
  Jobs <- OneJob
  Abandoned <- AllWaitedFor
SPECIFICATION Spec
INVARIANTS
  NoUseAfterDelete
