\* Two requests (plans or malformed), two runtimes, one fault and one operator step:
\* takeovers, late outcomes and imports over live claims, each step mapped to
\* FencedQueue, and every claimable request settled in the end.
CONSTANTS
  r1 = r1
  r2 = r2
  c1 = c1
  c2 = c2
  plan = plan
  garbage = garbage
  NoOne = NoOne
  Legacy = Legacy
  Requests <- MCTwoRequests
  Runtimes <- MCRuntimes
  Plans <- MCPlans
  Verdicts <- MCNone
  Malformed <- MCMalformed
  MaxRetryAttempts = 1
  MaxFaults = 1
  MaxOps = 1
SPECIFICATION LiveSpec
CHECK_DEADLOCK FALSE
PROPERTIES RowsAreStable RetriesAreBudgeted ImplementsFencedQueue EverySettled
INVARIANTS TypeOK OneOwner
