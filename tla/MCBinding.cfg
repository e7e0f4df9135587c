SPECIFICATION FairSpec
CONSTANT MaxArgs = 2
INVARIANTS TypeOK ArgumentsArrive PortsAgree NothingIsDropped
PROPERTY CallsReturn
CHECK_DEADLOCK FALSE
