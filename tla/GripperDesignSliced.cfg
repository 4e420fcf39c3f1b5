SPECIFICATION Safety
CONSTANTS
    FingerParameters = {"length", "width"}
    DeviceParameters = {"length", "force"}
    Values = {1, 2, 3}
    Printed <- MCPrinted
    NameLists <- MCDeviceNames
    Programs = {"optimize"}
    NGrippers = 1
    NTries = 1
INVARIANTS ParametersInForce
CHECK_DEADLOCK FALSE
