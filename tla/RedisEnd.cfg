SPECIFICATION FairSpec
CONSTANT MaxMessages = 2
PROPERTY EndIsSignalled
CHECK_DEADLOCK FALSE
