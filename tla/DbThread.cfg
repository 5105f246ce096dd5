CONSTANTS
    Queries = {q1, q2, q3}
    Transactions = {t1, t2}
    Callback = {q1, t1}
    Failing = {q3, t2}
SPECIFICATION FairSpec
INVARIANT ExactlyOnce
PROPERTY EventuallyFinished
CHECK_DEADLOCK FALSE
