SPECIFICATION FairSpec
CONSTANT MaxArgs = 2
PROPERTY ExplicitConstructors
CHECK_DEADLOCK FALSE
