SPECIFICATION FairSpec
CONSTANTS
    NumGpus = 2
    NumCircuits = 3
\* A stuck state is a counterexample of Returns.
CHECK_DEADLOCK FALSE
INVARIANTS
    PreparedBeforeUse
    ProofsAreComplete
    ErrorsAreReturned
PROPERTIES
    Returns
