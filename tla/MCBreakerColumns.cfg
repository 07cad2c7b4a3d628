\* One request that is rejected.
CONSTANT MaxRequests = 1
SPECIFICATION ClientSpec
INVARIANTS
    ColumnsAreTrue
CHECK_DEADLOCK FALSE
