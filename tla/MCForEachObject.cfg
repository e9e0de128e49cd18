\* Every call of up to four objects, with every subset of them failing.
CONSTANTS
  MaxCount = 4
  w1 = w1
  w2 = w2
  w3 = w3
  Workers <- MCWorkers
SPECIFICATION FairSpec
INVARIANTS NilMeansAll LowestFailure
PROPERTY Returns
\* the pool is a call: it ends when it has returned
CHECK_DEADLOCK FALSE
