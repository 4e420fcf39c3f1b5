SPECIFICATION Spec
CONSTANTS
    FingerParameters = {"length", "width"}
    DeviceParameters = {"length", "force"}
    Values = {1, 2, 3}
    Printed <- MCPrinted
    NameLists <- MCNameLists
    Programs = {"optimize", "generate", "evaluate"}
    NGrippers = 2
    NTries = 2
INVARIANTS TypeOK FilesReproduce LogRebuildsRounded
PROPERTIES BuiltIsKept Termination
CHECK_DEADLOCK FALSE
