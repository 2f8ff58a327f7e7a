CONSTANTS
    Clients = {c1}
    MaxCalls = 4
    NoException = NoException
SPECIFICATION Spec
INVARIANTS TypeOK ReturnsAfterRun OwnOutcome
PROPERTIES Blocking EveryCallReturns JoinReturns
CHECK_DEADLOCK FALSE
