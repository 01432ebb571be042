SPECIFICATION FairSpec
PROPERTY RetryThreadStops
CHECK_DEADLOCK FALSE
