SPECIFICATION LiveSpec
CONSTANT MaxConn = 6
INVARIANT OneConnection
PROPERTY InStep
CHECK_DEADLOCK FALSE
